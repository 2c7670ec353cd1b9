------------------------------ MODULE DesktopKeys ------------------------------
(***************************************************************************)
(* The API keys of the desktop application: services/config.ts and         *)
(* services/credentials.ts over the disk, and the start in                 *)
(* services/index.ts.  Each key has a file of its own and one file lists   *)
(* them; a call writes one after the other with fs.writeFile, which first  *)
(* empties the file.  A file that is emptied or written by two calls at    *)
(* once cannot be read; a list that cannot be read is as good as empty.    *)
(* The user's own environment and configuration hold no key, and unlink    *)
(* fails only where there is no file.  Which provider is the primary one   *)
(* is left out.                                                            *)
(***************************************************************************)
EXTENDS Naturals

CONSTANTS KeyProviders,  \* those with a key
          KeyCalls       \* calls of setApiKey and removeApiKey under way at a time

ASSUME KeyAssumption == KeyProviders # {}

VARIABLES
  keyFile,   \* KeyProviders -> "none", "torn" or "whole"
  listFile,  \* the providers credentials.json lists, none if it is torn
  known,     \* CredentialService.metadata
  inUse,     \* the providers in LLMRouter.providers, their variable in process.env
  running,   \* whether the application runs
  keyCall,   \* KeyCalls -> what a call is about and the await it is at
  removed    \* the keys whose removal succeeded with no other call about them

keyVars == <<keyFile, listFile, known, inUse, running, keyCall, removed>>

\* A call holds the list as it was when the call began to write it.  "orphan"
\* writes to a file that was unlinked since the call opened it.
AtWork == {"open", "write", "orphan", "unlink", "openList", "writeList"}
KeyCall == [about : KeyProviders, sets : BOOLEAN, at : AtWork \cup {"idle"},
            list : SUBSET KeyProviders, alone : BOOLEAN]

KeyTypeOK ==
  /\ keyFile \in [KeyProviders -> {"none", "torn", "whole"}]
  /\ listFile \subseteq KeyProviders /\ known \subseteq KeyProviders
  /\ inUse \subseteq KeyProviders /\ running \in BOOLEAN
  /\ keyCall \in [KeyCalls -> KeyCall] /\ removed \subseteq KeyProviders

NoKeyCall == [about |-> CHOOSE p \in KeyProviders : TRUE, sets |-> FALSE, at |-> "idle",
              list |-> {}, alone |-> FALSE]
NoKeyCalls == [c \in KeyCalls |-> NoKeyCall]

KeyInit ==
  /\ keyFile = [p \in KeyProviders |-> "none"] /\ listFile = {}
  /\ known = {} /\ inUse = {}
  /\ running = FALSE /\ keyCall = NoKeyCalls /\ removed = {}

diskVars == <<keyFile, listFile>>

-----------------------------------------------------------------------------

\* initializeServices(): what the list names is read and put in the
\* environment, and the router takes its providers from there.
StartApplication ==
  /\ ~running /\ running' = TRUE
  /\ known' = listFile
  /\ inUse' = {p \in listFile : keyFile[p] = "whole"}
  /\ UNCHANGED <<diskVars, keyCall, removed>>

\* The application is quit or ends, wherever its calls are.
EndApplication ==
  /\ running /\ running' = FALSE
  /\ known' = {} /\ inUse' = {}
  /\ keyCall' = NoKeyCalls
  /\ UNCHANGED <<diskVars, removed>>

AreAbout(p) == {c \in KeyCalls : keyCall[c].at # "idle" /\ keyCall[c].about = p}

Begins(c, p, sets, at) ==
  /\ running /\ keyCall[c].at = "idle"
  /\ keyCall' = [d \in KeyCalls |->
       IF d = c THEN [about |-> p, sets |-> sets, at |-> at, list |-> {},
                      alone |-> \A o \in AreAbout(p) : ~keyCall[o].sets]
       ELSE IF sets /\ d \in AreAbout(p) THEN [keyCall[d] EXCEPT !.alone = FALSE]
       ELSE keyCall[d]]

SetApiKey(c, p) ==
  /\ Begins(c, p, TRUE, "open")
  /\ removed' = removed \ {p}
  /\ UNCHANGED <<diskVars, known, inUse, running>>

RemoveApiKey(c, p) ==
  /\ Begins(c, p, FALSE, "unlink")
  /\ UNCHANGED <<diskVars, known, inUse, running, removed>>

At(c, place) == keyCall[c].at = place
Moves(c, place) == keyCall' = [keyCall EXCEPT ![c].at = place]
Ends(c) == keyCall' = [keyCall EXCEPT ![c] = NoKeyCall]

OpensKeyFile(c) ==
  /\ At(c, "open") /\ Moves(c, "write")
  /\ keyFile' = [keyFile EXCEPT ![keyCall[c].about] = "torn"]
  /\ UNCHANGED <<listFile, known, inUse, running, removed>>

\* persistMetadata() takes the list as it is now.
BeginsList(c, calls, list) ==
  keyCall' = [calls EXCEPT ![c] = [@ EXCEPT !.at = "openList", !.list = list]]

\* Over what another call wrote since the file was opened, the result is
\* either whole or a mixture.
Written(before, clean, whole, torn) == IF before = clean THEN {whole} ELSE {whole, torn}

\* The rest of store() up to the write of the list.
WritesKeyFile(c) ==
  LET p == keyCall[c].about IN
  /\ \/ /\ At(c, "write")
        /\ \E f \in Written(keyFile[p], "torn", "whole", "torn") :
             keyFile' = [keyFile EXCEPT ![p] = f]
     \/ At(c, "orphan") /\ keyFile' = keyFile
  /\ known' = known \cup {p}
  /\ BeginsList(c, keyCall, known')
  /\ UNCHANGED <<listFile, inUse, running, removed>>

\* Mistake: the file stays, for it is not listed any more.
ForgetsKey(c) ==
  LET p == keyCall[c].about IN
  /\ At(c, "unlink")
  /\ known' = known \ {p}
  /\ BeginsList(c, keyCall, known')
  /\ UNCHANGED <<keyFile, listFile, inUse, running, removed>>

\* delete() up to the write of the list.
UnlinksKeyFile(c) ==
  LET p == keyCall[c].about
      orphans == {o \in AreAbout(p) : At(o, "write")}
  IN
  /\ At(c, "unlink")
  /\ keyFile' = [keyFile EXCEPT ![p] = "none"]
  /\ known' = known \ {p}
  /\ BeginsList(c, [o \in KeyCalls |-> IF o \in orphans THEN [keyCall[o] EXCEPT !.at = "orphan"]
                                       ELSE keyCall[o]], known')
  /\ UNCHANGED <<listFile, inUse, running, removed>>

OpensList(c) ==
  /\ At(c, "openList") /\ Moves(c, "writeList")
  /\ listFile' = {}
  /\ UNCHANGED <<keyFile, known, inUse, running, removed>>

\* The list is written, and the call goes on to its end: setApiKey() puts the
\* key to use, removeApiKey() takes it out of use.
WritesList(c) ==
  LET p == keyCall[c].about IN
  /\ At(c, "writeList") /\ Ends(c)
  /\ listFile' \in Written(listFile, {}, keyCall[c].list, {})
  /\ inUse' = IF keyCall[c].sets THEN inUse \cup {p} ELSE inUse \ {p}
  /\ removed' = IF keyCall[c].alone /\ ~keyCall[c].sets THEN removed \cup {p} ELSE removed
  /\ UNCHANGED <<keyFile, known, running>>

\* A write that fails ends the call with success: false; what it did stays.
KeyCallFails(c) ==
  /\ keyCall[c].at \in AtWork \ {"unlink"} /\ Ends(c)
  /\ UNCHANGED <<diskVars, known, inUse, running, removed>>

KeyNext ==
  \/ StartApplication \/ EndApplication
  \/ \E c \in KeyCalls :
       \/ \E p \in KeyProviders : SetApiKey(c, p) \/ RemoveApiKey(c, p)
       \/ OpensKeyFile(c) \/ WritesKeyFile(c) \/ UnlinksKeyFile(c)
       \/ OpensList(c) \/ WritesList(c) \/ KeyCallFails(c)

KeySpec == KeyInit /\ [][KeyNext]_keyVars

-----------------------------------------------------------------------------

\* A key whose removal was reported is out of use, and no restart brings it
\* back, whatever an end of the application or the write of another call that
\* was under way left in the list (credentials.ts:140-148, index.ts:169-190).
RemovedIsGone == removed \cap inUse = {}
===============================================================================
