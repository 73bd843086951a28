-------------------------- MODULE ReferenceLabProofs --------------------------
(***************************************************************************)
(* The credential service, for any number of calls, handles, groups and    *)
(* points and a clock without a relevant bound: first that its files and   *)
(* its table agree, then that an acknowledged revocation denies, and that  *)
(* it implements CredentialRegistry.  Then the request path of the lab,    *)
(* for any number of accesses, calls, stops and lost answers, which runs   *)
(* the service and adds no constant to it.                                 *)
(***************************************************************************)
EXTENDS ReferenceLab, CredentialServiceRefinement, TLAPS

Writing == {i \in IssueCall : issue[i].pc \in {"truncated", "written"}}
Truncated == {i \in IssueCall : issue[i].pc = "truncated"}
Written == {i \in IssueCall : issue[i].pc = "written"}

\* The lock is held by the thread that is writing its file, in a running service.
LockInv ==
    /\ \A i \in Writing : up = "up" /\ lock = {i}
    /\ lock # {} => \E i \in Writing : lock = {i}

\* A whole file is the record of an issue that got as far as writing it.
FileIsIssued(f) ==
    /\ issue[f.token].pc \in {"written", "done", "lost"}
    /\ f = RecordOf(f.token)

FilesInv ==
    /\ \A f \in files : FileIsIssued(f)
    /\ \A f, g \in files : f.body.handle = g.body.handle => f = g
    /\ \A i \in Truncated : \A f \in files : f.body.handle # issue[i].body.handle
    /\ \A i \in IssueCall : issue[i].pc \in {"written", "done"}
          => issue[i].body.handle \in torn \cup {f.body.handle : f \in files}
    /\ \A i \in Written : RecordOf(i) \in files

\* While the service runs, table and files differ by the record about to be stored,
\* and a file is torn only while it is written.
TableInv ==
    /\ up # "up" => records = {}
    /\ up = "up" => /\ torn \subseteq {issue[i].body.handle : i \in Truncated}
                    /\ Tokens(records) = Tokens(files) \ Written
    /\ \A x \in records : x.body = issue[x.token].body
    /\ \A x, y \in records : x.token = y.token => x = y

IInv == TypeOK /\ LockInv /\ FilesInv /\ TableInv

------------------------------------------------------------------------------
\* An access that goes on stays one: only the fields written differ.
LEMMA ThreadsGoOn ==
    ASSUME NEW t \in AccessThread, NEW pc \in {"idle", "asking", "snapshot", "active", "denied", "error"},
           NEW reason \in {"none", "unknown", "expired", "sender", "audience", "revoked"}
    PROVE  /\ [t EXCEPT !.pc = pc, !.reason = reason] \in AccessThread
           /\ \A found \in SUBSET Record : [t EXCEPT !.pc = pc, !.snapshot = found] \in AccessThread
<1>1. [t EXCEPT !.pc = pc, !.reason = reason] \in AccessThread
  BY DEF AccessThread
<1>2. \A found \in SUBSET Record : [t EXCEPT !.pc = pc, !.snapshot = found] \in AccessThread
  BY DEF AccessThread
<1>3. QED
  BY <1>1, <1>2

LEMMA ThreadsStartIdle ==
    /\ IdleIssue \in IssueThread
    /\ IdleRevoke \in RevokeThread
    /\ IdleAccess \in AccessThread
<1>1. PICK c \in IssueBody : TRUE
  BY CallAssumption
<1>2. (CHOOSE b \in IssueBody : TRUE) \in IssueBody
  BY <1>1
<1>3. c.group \in Group
  BY CallAssumption
<1>4. (CHOOSE g \in Group : TRUE) \in Group
  BY <1>3
<1>5. (CHOOSE q \in Question : TRUE) \in Question
  BY CallAssumption
<1>6. QED
  BY <1>2, <1>4, <1>5 DEF IdleIssue, IdleRevoke, IdleAccess, IssueThread, RevokeThread, AccessThread

LEMMA InitIInv == Init => IInv
<1> SUFFICES ASSUME Init PROVE IInv
  OBVIOUS
<1>1. TypeOK
  BY ThreadsStartIdle DEF Init, TypeOK
<1>2. \A i \in IssueCall : issue[i].pc = "idle"
  BY DEF Init, IdleIssue
<1>3. LockInv /\ FilesInv /\ TableInv
  BY <1>2 DEF Init, LockInv, FilesInv, TableInv, Writing, Truncated, Written, Tokens
<1>4. QED
  BY <1>1, <1>3 DEF IInv

------------------------------------------------------------------------------
LEMMA TypeStep == TypeOK /\ [Next]_vars => TypeOK'
<1> SUFFICES ASSUME TypeOK, [Next]_vars PROVE TypeOK'
  OBVIOUS
<1> USE DEF TypeOK
<1>1. ASSUME NEW i \in IssueCall, NEW b \in IssueBody, IssueBegin(i, b) PROVE TypeOK'
  <2>1. now + b.lifetime \in Nat
    BY CallAssumption
  <2>2. QED
    BY <1>1, <2>1 DEF IssueBegin, IssueThread, service, volume
<1>2. ASSUME NEW i \in IssueCall, IssueReplace(i) PROVE TypeOK'
  <2>1. issue[i].body.handle \in Handle
    BY CallAssumption DEF IssueThread
  <2>2. QED
    BY <1>2, <2>1 DEF IssueReplace, IssueThread
<1>3. ASSUME NEW i \in IssueCall PROVE RecordOf(i) \in Record
  BY DEF RecordOf, Record, IssueThread
<1>4. ASSUME NEW i \in IssueCall, IssueWrite(i) PROVE TypeOK'
  BY <1>3, <1>4 DEF IssueWrite, IssueThread, service
<1>5. ASSUME NEW i \in IssueCall, IssueStore(i) PROVE TypeOK'
  BY <1>3, <1>5 DEF IssueStore, IssueThread, volume
<1>6. ASSUME NEW r \in RevokeCall, NEW g \in Group, RevokeBegin(r, g) PROVE TypeOK'
  BY <1>6 DEF RevokeBegin, RevokeThread, service, volume
<1>7. ASSUME NEW r \in RevokeCall, RevokeApply(r) PROVE TypeOK'
  <2>1. ASSUME NEW x \in records PROVE Revoked(x, r) \in Record
    BY DEF Revoked, Record, RevokeThread
  <2>2. QED
    BY <1>7, <2>1 DEF RevokeApply, RevokeThread, volume
<1>8. ASSUME NEW a \in Access, NEW q \in Question, AskRead(a, q) PROVE TypeOK'
  <2>1. {f.token : f \in FilesOf(q.handle)} \subseteq IssueCall
    BY DEF FilesOf, Record
  <2>2. QED
    BY <1>8, <2>1, ThreadsStartIdle DEF AskRead, AccessThread, service, volume
<1>9. ASSUME NEW a \in Access, AskSnapshot(a) PROVE TypeOK'
  <2> DEFINE found == {x \in records : x.token \in access[a].token}
  <2>1. found \subseteq Record
    OBVIOUS
  <2>2. CASE found = {}
    <3>1. access' = [access EXCEPT ![a] = [@ EXCEPT !.pc = "denied", !.reason = "unknown"]]
      BY <1>9, <2>2 DEF AskSnapshot
    <3>2. access' \in [Access -> AccessThread]
      BY <3>1, ThreadsGoOn
    <3>3. QED
      BY <1>9, <3>2 DEF AskSnapshot, service, volume
  <2>3. CASE found # {}
    <3>1. access' = [access EXCEPT ![a] = [@ EXCEPT !.pc = "snapshot", !.snapshot = found]]
      BY <1>9, <2>3 DEF AskSnapshot
    <3>2. access' \in [Access -> AccessThread]
      BY <2>1, <3>1, ThreadsGoOn
    <3>3. QED
      BY <1>9, <3>2 DEF AskSnapshot, service, volume
  <2>4. QED
    BY <2>2, <2>3
<1>10. ASSUME NEW a \in Access, AskAnswer(a) PROVE TypeOK'
  <2>1. ASSUME NEW x, NEW q, NEW t
        PROVE  ReasonFor(x, q, t) \in {"none", "expired", "sender", "audience", "revoked"}
    BY DEF ReasonFor
  <2>2. PICK x \in access[a].snapshot :
          LET reason == ReasonFor(x, access[a].question, now)
          IN  access' = [access EXCEPT ![a] =
                           [@ EXCEPT !.pc = IF reason = "none" THEN "active" ELSE "denied",
                                     !.reason = reason, !.answered = now]]
    BY <1>10 DEF AskAnswer
  <2> DEFINE reason == ReasonFor(x, access[a].question, now)
             pc == IF reason = "none" THEN "active" ELSE "denied"
             thread == [access[a] EXCEPT !.pc = pc, !.reason = reason, !.answered = now]
  <2>3. reason \in {"none", "expired", "sender", "audience", "revoked"}
    BY <2>1
  <2> HIDE DEF reason
  <2>4. thread \in AccessThread
    <3>1. access[a] \in AccessThread /\ now \in Nat
      OBVIOUS
    <3>2. pc \in {"active", "denied"}
      OBVIOUS
    <3> HIDE DEF pc
    <3>3. reason \in {"none", "unknown", "expired", "sender", "audience", "revoked"}
          /\ pc \in {"idle", "asking", "snapshot", "active", "denied", "error"}
      BY <2>3, <3>2
    <3>4. ASSUME NEW t \in AccessThread PROVE [t EXCEPT !.pc = pc, !.reason = reason, !.answered = now] \in AccessThread
      BY <3>1, <3>3 DEF AccessThread
    <3>5. QED
      BY <3>1, <3>4
  <2>5. access' = [access EXCEPT ![a] = thread]
    BY <2>2 DEF reason
  <2>6. access' \in [Access -> AccessThread]
    BY <2>4, <2>5
  <2>7. QED
    BY <1>10, <2>6 DEF AskAnswer, service, volume
<1>11. ASSUME NEW a \in Access, AskLost(a) PROVE TypeOK'
  BY <1>11 DEF AskLost, AccessThread, service, volume
<1>12. ASSUME Stop PROVE TypeOK'
  <2>1. issue' \in [IssueCall -> IssueThread]
    <3>1. ASSUME NEW i \in IssueCall PROVE [issue[i] EXCEPT !.pc = "lost"] \in IssueThread
      BY DEF IssueThread
    <3>2. QED
      BY <1>12, <3>1 DEF Stop
  <2>2. revoke' \in [RevokeCall -> RevokeThread]
    <3>1. ASSUME NEW r \in RevokeCall
          PROVE  [revoke[r] EXCEPT !.pc = IF @ = "called" THEN "lost" ELSE @,
                                   !.owed = {}] \in RevokeThread
      BY DEF RevokeThread
    <3>2. QED
      BY <1>12, <3>1 DEF Stop
  <2>3. access' \in [Access -> AccessThread]
    <3>1. ASSUME NEW a \in Access PROVE [access[a] EXCEPT !.pc = "error"] \in AccessThread
      BY DEF AccessThread
    <3>2. QED
      BY <1>12, <3>1 DEF Stop
  <2>4. QED
    BY <1>12, <2>1, <2>2, <2>3 DEF Stop, volume
<1>13. ASSUME Start PROVE TypeOK'
  BY <1>13 DEF Start, volume, threads
<1>14. ASSUME Tick PROVE TypeOK'
  BY <1>14 DEF Tick, service, volume, threads
<1>15. ASSUME UNCHANGED vars PROVE TypeOK'
  BY <1>15 DEF vars, service, volume, threads
<1>16. QED
  BY <1>1, <1>2, <1>4, <1>5, <1>6, <1>7, <1>8, <1>9, <1>10, <1>11, <1>12, <1>13, <1>14, <1>15
  DEF Next, ServeIssue, ServeAccess

------------------------------------------------------------------------------
\* Steps of the clock, of revokes and of accesses leave issues and files alone.
LEMMA OthersKeepLockAndFiles ==
  ASSUME IInv, UNCHANGED <<up, lock, files, torn, issue>>
  PROVE  /\ LockInv' /\ FilesInv'
         /\ Truncated' = Truncated /\ Written' = Written
<1>1. Writing' = Writing /\ Truncated' = Truncated /\ Written' = Written
  BY DEF Writing, Truncated, Written
<1>2. LockInv'
  BY <1>1 DEF IInv, LockInv
<1>3. ASSUME NEW f \in files PROVE FileIsIssued(f)'
  BY DEF IInv, FilesInv, FileIsIssued, RecordOf
<1>4. ASSUME NEW i \in Written PROVE RecordOf(i)' \in files
  BY DEF IInv, FilesInv, RecordOf
<1>5. FilesInv'
  BY <1>1, <1>3, <1>4 DEF IInv, FilesInv
<1>6. QED
  BY <1>1, <1>2, <1>5

LEMMA IssueBeginPreserves ==
  ASSUME IInv, TypeOK', NEW i \in IssueCall, NEW b \in IssueBody, IssueBegin(i, b)
  PROVE  IInv'
<1> USE DEF IInv, TypeOK, IssueBegin, service, volume
<1>1. ASSUME NEW j \in IssueCall, j # i PROVE issue'[j] = issue[j]
  BY <1>1
<1>2. issue'[i].pc = "called" /\ issue[i].pc = "idle"
  OBVIOUS
<1>3. Writing' = Writing /\ Truncated' = Truncated /\ Written' = Written
  BY <1>1, <1>2 DEF Writing, Truncated, Written
<1>4. LockInv'
  BY <1>3 DEF LockInv
<1>5. i \notin Tokens(files)
  BY <1>2 DEF FilesInv, FileIsIssued, Tokens
<1>6. FilesInv'
  <2>1. ASSUME NEW f \in files PROVE FileIsIssued(f)'
    BY <1>1, <1>5 DEF FilesInv, FileIsIssued, RecordOf, Tokens, Record
  <2>2. ASSUME NEW j \in Written PROVE RecordOf(j)' \in files
    BY <1>1, <1>2 DEF FilesInv, RecordOf, Written
  <2>3. QED
    BY <1>1, <1>2, <1>3, <2>1, <2>2 DEF FilesInv, Truncated
<1>7. i \notin Tokens(records)
  BY <1>5 DEF TableInv, Tokens
<1>8. TableInv'
  BY <1>1, <1>2, <1>3, <1>7 DEF TableInv, Tokens, Record, Truncated
<1>9. QED
  BY <1>4, <1>6, <1>8

LEMMA IssueReplacePreserves ==
  ASSUME IInv, TypeOK', NEW i \in IssueCall, IssueReplace(i)
  PROVE  IInv'
<1> USE DEF IInv, TypeOK
<1> DEFINE h == issue[i].body.handle
           old == {f \in files : f.body.handle = h}
<1>1. /\ up = "up" /\ issue[i].pc = "called" /\ lock = {} /\ lock' = {i} /\ up' = up
      /\ records' = {x \in records : \A f \in old : f.token # x.token}
      /\ files' = files \ old /\ torn' = torn \cup {h}
      /\ issue' = [issue EXCEPT ![i].pc = "truncated"]
  BY DEF IssueReplace
<1>2. /\ \A j \in IssueCall : j # i => issue'[j] = issue[j]
      /\ issue'[i].pc = "truncated" /\ issue'[i].body = issue[i].body
      /\ issue'[i].expires = issue[i].expires
  BY <1>1 DEF IssueThread
<1>3. Writing = {}
  BY <1>1 DEF LockInv
<1>4. Truncated = {} /\ Written = {} /\ Truncated' = {i} /\ Written' = {} /\ Writing' = {i}
  BY <1>2, <1>3 DEF Writing, Truncated, Written
<1>5. LockInv'
  BY <1>1, <1>4 DEF LockInv
<1>6. i \notin Tokens(files)
  BY <1>1 DEF FilesInv, FileIsIssued, Tokens
<1>7. FilesInv'
  <2>1. ASSUME NEW f \in files' PROVE FileIsIssued(f)'
    BY <1>1, <1>2, <1>6 DEF FilesInv, FileIsIssued, RecordOf, Tokens, Record
  <2>2. \A j \in IssueCall : issue'[j].pc \in {"written", "done"}
          => issue'[j].body.handle \in torn' \cup {f.body.handle : f \in files'}
    BY <1>1, <1>2 DEF FilesInv
  <2>3. \A f \in files' : f.body.handle # issue'[i].body.handle
    BY <1>1, <1>2
  <2>4. QED
    BY <1>1, <1>4, <2>1, <2>2, <2>3 DEF FilesInv
<1>8. TableInv'
  <2>1. torn' \subseteq {issue'[j].body.handle : j \in Truncated'}
    BY <1>1, <1>2, <1>4 DEF TableInv
  <2>2. Tokens(records) = Tokens(files)
    BY <1>1, <1>4 DEF TableInv
  <2>3. \A f, g \in files : f.token = g.token => f = g
    BY DEF FilesInv, FileIsIssued, RecordOf
  <2>4. Tokens(records') = Tokens(files')
    <3>1. ASSUME NEW x \in records' PROVE x.token \in Tokens(files')
      <4>1. x.token \in Tokens(files) /\ \A f \in old : f.token # x.token
        BY <1>1, <2>2 DEF Tokens
      <4>2. QED
        BY <1>1, <4>1 DEF Tokens
    <3>2. ASSUME NEW f \in files' PROVE f.token \in Tokens(records')
      <4>1. f \in files /\ f \notin old
        BY <1>1
      <4>2. PICK x \in records : x.token = f.token
        BY <2>2, <4>1 DEF Tokens
      <4>3. x \in records'
        BY <1>1, <2>3, <4>1, <4>2
      <4>4. QED
        BY <4>2, <4>3 DEF Tokens
    <3>3. QED
      BY <3>1, <3>2 DEF Tokens
  <2>5. \A x \in records' : x.body = issue'[x.token].body
    BY <1>1, <1>2 DEF TableInv, Record
  <2>6. QED
    <3>1. \A x, y \in records' : x.token = y.token => x = y
      BY <1>1 DEF TableInv
    <3>2. up' = "up"
      BY <1>1
    <3>3. QED
      BY <1>4, <2>1, <2>4, <2>5, <3>1, <3>2 DEF TableInv
<1>9. QED
  BY <1>5, <1>7, <1>8

LEMMA IssueWritePreserves ==
  ASSUME IInv, TypeOK', NEW i \in IssueCall, IssueWrite(i)
  PROVE  IInv'
<1> USE DEF IInv, TypeOK
<1>1. /\ issue[i].pc = "truncated"
      /\ files' = files \cup {RecordOf(i)}
      /\ torn' = torn \ {issue[i].body.handle}
      /\ issue' = [issue EXCEPT ![i].pc = "written"]
      /\ UNCHANGED <<up, lock, records>>
  BY DEF IssueWrite, service
<1>2. /\ \A j \in IssueCall : j # i => issue'[j] = issue[j]
      /\ issue'[i].pc = "written" /\ issue'[i].body = issue[i].body
      /\ issue'[i].expires = issue[i].expires
  BY <1>1 DEF IssueThread
<1>3. i \in Writing /\ up = "up" /\ lock = {i} /\ Writing = {i}
  BY <1>1 DEF Writing, LockInv
<1>4. Truncated = {i} /\ Written = {} /\ Truncated' = {} /\ Written' = {i} /\ Writing' = {i}
  BY <1>1, <1>2, <1>3 DEF Writing, Truncated, Written
<1>5. LockInv'
  BY <1>1, <1>3, <1>4 DEF LockInv
<1>6. /\ RecordOf(i).token = i /\ RecordOf(i).body = issue[i].body
      /\ RecordOf(i)' = RecordOf(i)
  BY <1>2 DEF RecordOf
<1>7. i \notin Tokens(files)
  BY <1>1 DEF FilesInv, FileIsIssued, Tokens
<1>8. FilesInv'
  <2>1. ASSUME NEW f \in files' PROVE FileIsIssued(f)'
    <3>1. CASE f \in files
      BY <1>2, <1>7, <3>1 DEF FilesInv, FileIsIssued, RecordOf, Tokens, Record
    <3>2. CASE f = RecordOf(i)
      BY <1>2, <1>6, <3>2 DEF FileIsIssued
    <3>3. QED
      BY <1>1, <3>1, <3>2
  <2>2. \A f, g \in files' : f.body.handle = g.body.handle => f = g
    BY <1>1, <1>4, <1>6 DEF FilesInv
  <2>3. ASSUME NEW j \in IssueCall, issue'[j].pc \in {"written", "done"}
        PROVE  issue'[j].body.handle \in torn' \cup {f.body.handle : f \in files'}
    BY <1>1, <1>2, <1>6, <2>3 DEF FilesInv
  <2>4. \A j \in Written' : RecordOf(j)' \in files'
    BY <1>1, <1>4, <1>6
  <2>5. QED
    BY <1>4, <2>1, <2>2, <2>3, <2>4 DEF FilesInv
<1>9. TableInv'
  <2>1. torn' = {}
    BY <1>1, <1>3, <1>4 DEF TableInv
  <2>2. Tokens(files') = Tokens(files) \cup {i}
    BY <1>1, <1>6 DEF Tokens
  <2>3. Tokens(records') = Tokens(files') \ Written'
    <3>1. Tokens(records) = Tokens(files)
      BY <1>3, <1>4 DEF TableInv
    <3>2. records' = records
      BY <1>1
    <3>3. QED
      BY <1>4, <1>7, <2>2, <3>1, <3>2
  <2>4. \A x \in records' : x.body = issue'[x.token].body
    BY <1>1, <1>2 DEF TableInv, Record
  <2>5. QED
    BY <1>1, <1>3, <2>1, <2>3, <2>4 DEF TableInv
<1>10. QED
  BY <1>5, <1>8, <1>9

LEMMA IssueStorePreserves ==
  ASSUME IInv, TypeOK', NEW i \in IssueCall, IssueStore(i)
  PROVE  IInv'
<1> USE DEF IInv, TypeOK
<1>1. /\ issue[i].pc = "written"
      /\ records' = records \cup {RecordOf(i)} /\ lock' = {}
      /\ issue' = [issue EXCEPT ![i].pc = "done"]
      /\ UNCHANGED <<up, files, torn>>
  BY DEF IssueStore, volume
<1>2. /\ \A j \in IssueCall : j # i => issue'[j] = issue[j]
      /\ issue'[i].pc = "done" /\ issue'[i].body = issue[i].body
      /\ issue'[i].expires = issue[i].expires
  BY <1>1 DEF IssueThread
<1>3. i \in Writing /\ up = "up" /\ Writing = {i}
  BY <1>1 DEF Writing, LockInv
<1>4. Truncated = {} /\ Written = {i} /\ Truncated' = {} /\ Written' = {} /\ Writing' = {}
  BY <1>1, <1>2, <1>3 DEF Writing, Truncated, Written
<1>5. LockInv'
  BY <1>1, <1>4 DEF LockInv
<1>6. /\ RecordOf(i).token = i /\ RecordOf(i).body = issue[i].body
  BY DEF RecordOf
<1>7. FilesInv'
  <2>1. ASSUME NEW f \in files' PROVE FileIsIssued(f)'
    BY <1>1, <1>2 DEF FilesInv, FileIsIssued, RecordOf, Record
  <2>2. ASSUME NEW j \in IssueCall, issue'[j].pc \in {"written", "done"}
        PROVE  issue'[j].body.handle \in torn' \cup {f.body.handle : f \in files'}
    BY <1>1, <1>2, <2>2 DEF FilesInv
  <2>3. QED
    BY <1>1, <1>4, <2>1, <2>2 DEF FilesInv
<1>9. i \in Tokens(files)
  BY <1>4, <1>6 DEF FilesInv, Tokens
<1>10. TableInv'
  <2>1. Tokens(records') = Tokens(records) \cup {i}
    BY <1>1, <1>6 DEF Tokens
  <2>2. Tokens(records') = Tokens(files') \ Written'
    <3>1. Tokens(records) = Tokens(files) \ {i}
      BY <1>3, <1>4 DEF TableInv
    <3>2. files' = files
      BY <1>1
    <3>3. QED
      BY <1>4, <1>9, <2>1, <3>1, <3>2
  <2>3. i \notin Tokens(records)
    BY <1>3, <1>4 DEF TableInv
  <2>4. \A x \in records' : x.body = issue'[x.token].body
    BY <1>1, <1>2, <1>6 DEF TableInv, Record
  <2>5. \A x, y \in records' : x.token = y.token => x = y
    BY <1>1, <1>6, <2>3 DEF TableInv, Tokens
  <2>6. QED
    BY <1>1, <1>3, <1>4, <2>2, <2>4, <2>5 DEF TableInv
<1>11. QED
  BY <1>5, <1>7, <1>10

LEMMA RevokeApplyPreserves ==
  ASSUME IInv, TypeOK', NEW r \in RevokeCall, RevokeApply(r)
  PROVE  IInv'
<1> USE DEF IInv, TypeOK
<1>1. /\ records' = {Revoked(x, r) : x \in records}
      /\ UNCHANGED <<up, lock, files, torn, issue>>
  BY DEF RevokeApply, volume
<1>2. /\ LockInv' /\ FilesInv'
      /\ Truncated' = Truncated /\ Written' = Written
  BY <1>1, OthersKeepLockAndFiles
<1>3. ASSUME NEW x \in records
      PROVE  Revoked(x, r).token = x.token /\ Revoked(x, r).body = x.body
  BY DEF Revoked, Record
<1>4. Tokens(records') = Tokens(records)
  BY <1>1, <1>3 DEF Tokens
<1>5. \A x \in records' : x.body = issue'[x.token].body
  BY <1>1, <1>3 DEF TableInv
<1>6. \A x, y \in records' : x.token = y.token => x = y
  BY <1>1, <1>3 DEF TableInv
<1>7. records = {} => records' = {}
  BY <1>1
<1>8. TableInv'
  <2>1. up' # "up" => records' = {}
    BY <1>1, <1>7 DEF TableInv
  <2>2. up' = "up" => torn' \subseteq {issue'[i].body.handle : i \in Truncated'}
    BY <1>1, <1>2 DEF TableInv
  <2>3. up' = "up" => Tokens(records') = Tokens(files') \ Written'
    BY <1>1, <1>2, <1>4 DEF TableInv
  <2>4. QED
    BY <1>5, <1>6, <2>1, <2>2, <2>3 DEF TableInv, Tokens
<1>9. QED
  BY <1>2, <1>8

LEMMA StopPreserves ==
  ASSUME IInv, TypeOK', Stop
  PROVE  IInv'
<1> USE DEF IInv, TypeOK
<1>1. up' = "down" /\ lock' = {} /\ records' = {} /\ files' = files /\ torn' = torn
  BY DEF Stop, volume
<1>2. ASSUME NEW i \in IssueCall
      PROVE  /\ issue'[i].body = issue[i].body /\ issue'[i].expires = issue[i].expires
             /\ issue'[i].pc = IF issue[i].pc \in {"called", "truncated", "written"}
                               THEN "lost" ELSE issue[i].pc
  <2>1. issue'[i] = IF issue[i].pc \in {"called", "truncated", "written"}
                    THEN [issue[i] EXCEPT !.pc = "lost"] ELSE issue[i]
    BY DEF Stop
  <2>2. QED
    BY <2>1 DEF IssueThread
<1>3. Writing' = {} /\ Truncated' = {} /\ Written' = {}
  BY <1>2 DEF Writing, Truncated, Written
<1>4. LockInv'
  BY <1>1, <1>3 DEF LockInv
<1>5. ASSUME NEW f \in files PROVE FileIsIssued(f)'
  <2>1. f.token \in IssueCall
    BY DEF Record
  <2>2. QED
    BY <1>2, <2>1 DEF FilesInv, FileIsIssued, RecordOf
<1>6. FilesInv'
  BY <1>1, <1>2, <1>3, <1>5 DEF FilesInv
<1>7. TableInv'
  BY <1>1 DEF TableInv
<1>8. QED
  BY <1>4, <1>6, <1>7

\* The table that is loaded from the files is the table of those files.
LEMMA StartPreserves ==
  ASSUME IInv, TypeOK', Start
  PROVE  IInv'
<1> USE DEF IInv, TypeOK
<1>1. /\ UNCHANGED <<lock, files, torn, issue>> /\ up = "down"
      /\ IF torn = {} THEN up' = "up" /\ records' = files
                      ELSE up' = "failed" /\ records' = records
  BY DEF Start, volume, threads
<1>2. Writing = {} /\ Truncated = {} /\ Written = {}
  <2>1. Writing = {}
    BY <1>1 DEF LockInv
  <2>2. QED
    BY <2>1 DEF Writing, Truncated, Written
<1>3. Writing' = {} /\ Truncated' = {} /\ Written' = {}
  BY <1>1, <1>2 DEF Writing, Truncated, Written
<1>4. LockInv'
  BY <1>1, <1>2, <1>3 DEF LockInv
<1>5. ASSUME NEW f \in files PROVE FileIsIssued(f)'
  BY <1>1 DEF FilesInv, FileIsIssued, RecordOf
<1>6. FilesInv'
  BY <1>1, <1>3, <1>5 DEF FilesInv
<1>7. TableInv'
  <2>1. CASE torn = {}
    <3>1. \A x \in files : x = RecordOf(x.token)
      BY DEF FilesInv, FileIsIssued
    <3>2. \A x \in files : x.body = issue[x.token].body
      BY <3>1 DEF RecordOf
    <3>3. \A x, y \in files : x.token = y.token => x = y
      BY <3>1
    <3>4. QED
      BY <1>1, <1>3, <2>1, <3>2, <3>3 DEF TableInv
  <2>2. CASE torn # {}
    BY <1>1, <2>2 DEF TableInv
  <2>3. QED
    BY <2>1, <2>2
<1>8. QED
  BY <1>4, <1>6, <1>7

LEMMA OthersPreserve ==
  ASSUME IInv, TypeOK', UNCHANGED <<service, volume, issue>>
  PROVE  IInv'
<1>1. UNCHANGED <<up, lock, records, files, torn, issue>>
  BY DEF service, volume
<1>2. /\ LockInv' /\ FilesInv'
      /\ Truncated' = Truncated /\ Written' = Written
  BY <1>1, OthersKeepLockAndFiles
<1>3. TableInv'
  BY <1>1, <1>2 DEF IInv, TableInv, Tokens
<1>4. QED
  BY <1>2, <1>3 DEF IInv

LEMMA StepIInv == IInv /\ [Next]_vars => IInv'
<1> SUFFICES ASSUME IInv, [Next]_vars PROVE IInv'
  OBVIOUS
<1>1. TypeOK'
  BY TypeStep DEF IInv
<1>2. ASSUME NEW i \in IssueCall, NEW b \in IssueBody, IssueBegin(i, b) PROVE IInv'
  BY <1>1, <1>2, IssueBeginPreserves
<1>3. ASSUME NEW i \in IssueCall, ServeIssue(i) PROVE IInv'
  BY <1>1, <1>3, IssueReplacePreserves, IssueWritePreserves, IssueStorePreserves
  DEF ServeIssue
<1>4. ASSUME NEW r \in RevokeCall, RevokeApply(r) PROVE IInv'
  BY <1>1, <1>4, RevokeApplyPreserves
<1>5. ASSUME NEW r \in RevokeCall, NEW g \in Group, RevokeBegin(r, g) PROVE IInv'
  BY <1>1, <1>5, OthersPreserve DEF RevokeBegin
<1>6. ASSUME NEW a \in Access,
             (\E q \in Question : AskRead(a, q)) \/ ServeAccess(a) \/ AskLost(a)
      PROVE  IInv'
  <2>1. UNCHANGED <<service, volume, issue>>
    BY <1>6 DEF AskRead, ServeAccess, AskSnapshot, AskAnswer, AskLost
  <2>2. QED
    BY <1>1, <2>1, OthersPreserve
<1>7. CASE Stop
  BY <1>1, <1>7, StopPreserves
<1>8. CASE Start
  BY <1>1, <1>8, StartPreserves
<1>9. CASE Tick \/ UNCHANGED vars
  <2>1. UNCHANGED <<service, volume, issue>>
    BY <1>9 DEF Tick, threads, vars
  <2>2. QED
    BY <1>1, <2>1, OthersPreserve
<1>10. QED
  BY <1>2, <1>3, <1>4, <1>5, <1>6, <1>7, <1>8, <1>9 DEF Next

------------------------------------------------------------------------------
\* In every reachable state the lock, the secret files and the record table of the
\* credential service are consistent with the threads of service.py.
THEOREM Invariance == Spec => []IInv
<1>1. QED
  BY InitIInv, StepIInv, PTL DEF Spec

\* Every variable keeps its type through calls, stops and restarts.
THEOREM CredentialTypeCorrect == Spec => []TypeOK
<1>1. IInv => TypeOK
  BY DEF IInv
<1>2. QED
  BY Invariance, <1>1, PTL

\* For any number of concurrent /issue calls, stops and restarts: a service that can
\* be asked knows exactly the tokens in the files, one per handle (service.py:161-171).
THEOREM FilesAgree == Spec => []FilesAndTableAgree
<1>1. IInv => FilesAndTableAgree
  <2> SUFFICES ASSUME IInv, up = "up", lock = {}
               PROVE  /\ Tokens(files) = Tokens(records) /\ torn = {}
                      /\ \A x, y \in records : x.body.handle = y.body.handle => x = y
    BY DEF FilesAndTableAgree
  <2>1. Writing = {}
    BY DEF IInv, LockInv
  <2>2. Truncated = {} /\ Written = {}
    BY <2>1 DEF Writing, Truncated, Written
  <2>3. torn = {} /\ Tokens(files) = Tokens(records)
    BY <2>2 DEF IInv, TableInv
  <2>4. ASSUME NEW x \in records, NEW y \in records, x.body.handle = y.body.handle
        PROVE  x = y
    <3>1. PICK f \in files : f.token = x.token
      BY <2>3 DEF Tokens
    <3>2. PICK g \in files : g.token = y.token
      BY <2>3 DEF Tokens
    <3>3. f.body = issue[f.token].body /\ g.body = issue[g.token].body
      BY DEF IInv, FilesInv, FileIsIssued, RecordOf
    <3>4. x.body = issue[x.token].body /\ y.body = issue[y.token].body
      BY DEF IInv, TableInv
    <3>5. f = g
      BY <2>4, <3>1, <3>2, <3>3, <3>4 DEF IInv, FilesInv
    <3>6. QED
      BY <3>1, <3>2, <3>5 DEF IInv, TableInv
  <2>5. QED
    BY <2>3, <2>4
<1>2. QED
  BY Invariance, <1>1, PTL

\* For any number of concurrent /issue calls, stops and restarts: a handle whose issue
\* was acknowledged is known whenever the service can be asked (service.py:131-171).
THEOREM HandlesStayKnown == Spec => []AcknowledgedHandlesStayKnown
<1>1. IInv => AcknowledgedHandlesStayKnown
  <2> SUFFICES ASSUME IInv, up = "up", lock = {}, NEW i \in IssueCall, issue[i].pc = "done"
               PROVE  \E x \in records : x.body.handle = issue[i].body.handle
    BY DEF AcknowledgedHandlesStayKnown
  <2>1. Writing = {}
    BY DEF IInv, LockInv
  <2>2. Truncated = {} /\ Written = {}
    BY <2>1 DEF Writing, Truncated, Written
  <2>3. torn = {} /\ Tokens(files) = Tokens(records)
    BY <2>2 DEF IInv, TableInv
  <2>4. PICK f \in files : f.body.handle = issue[i].body.handle
    BY <2>3 DEF IInv, FilesInv
  <2>5. PICK x \in records : x.token = f.token
    BY <2>3, <2>4 DEF Tokens
  <2>6. f.body = issue[f.token].body
    BY <2>4 DEF IInv, FilesInv, FileIsIssued, RecordOf
  <2>7. x.body = issue[x.token].body
    BY <2>5 DEF IInv, TableInv
  <2>8. QED
    BY <2>4, <2>5, <2>6, <2>7
<1>2. QED
  BY Invariance, <1>1, PTL

------------------------------------------------------------------------------
(***************************************************************************)
(* An acknowledged revocation denies, for any number of issues, revokes,   *)
(* questions, stops and starts.                                            *)
(***************************************************************************)

\* What a revoke is owed was acknowledged, and by the process that runs.
OwedInv ==
    \A r \in RevokeCall :
        /\ \A i \in revoke[r].owed : issue[i].pc = "done"
        /\ up # "up" => revoke[r].owed = {}

\* A mark on a record is the epoch of an applied revoke of its group.
MarkIsApplied(x) == x.revoked \subseteq Epochs(x.body.group)

\* A record is marked if the revoke r was owed it.
Marked(x, r) ==
    x.token \in revoke[r].owed /\ x.body.group = revoke[r].group => x.revoked # {}

MarksInv ==
    \A x \in records :
        /\ MarkIsApplied(x)
        /\ \A r \in RevokeCall : revoke[r].pc = "done" => Marked(x, r)

\* A question is about one token and one record, and its answer looked at every mark.
AccessIsCurrent(a) ==
    /\ \A s, t \in access[a].token : s = t
    /\ \A x, y \in access[a].snapshot : x = y
    /\ \A r \in access[a].after : revoke[r].pc = "done"
    /\ \A x \in access[a].snapshot :
         /\ MarkIsApplied(x)
         /\ \A r \in access[a].after : Marked(x, r)
         /\ access[a].pc = "active" =>
              \A e \in x.revoked : access[a].answered < e + Delay[access[a].question.point]

RInv == OwedInv /\ MarksInv /\ (\A a \in Access : AccessIsCurrent(a))

------------------------------------------------------------------------------
\* No step takes back what a thread has finished.
LEMMA DoneStays ==
  ASSUME TypeOK, [Next]_vars
  PROVE  /\ \A i \in IssueCall : issue[i].pc = "done" => issue'[i].pc = "done"
         /\ \A r \in RevokeCall :
              revoke[r].pc = "done" =>
                /\ revoke'[r].pc = "done" /\ revoke'[r].group = revoke[r].group
                /\ revoke'[r].epoch = revoke[r].epoch
                /\ revoke'[r].owed \subseteq revoke[r].owed
<1> USE DEF TypeOK
<1> DEFINE Kept == /\ \A i \in IssueCall : issue[i].pc = "done" => issue'[i].pc = "done"
                   /\ \A r \in RevokeCall :
                        revoke[r].pc = "done" =>
                          /\ revoke'[r].pc = "done" /\ revoke'[r].group = revoke[r].group
                          /\ revoke'[r].epoch = revoke[r].epoch
                          /\ revoke'[r].owed \subseteq revoke[r].owed
<1>1. ASSUME UNCHANGED revoke, NEW i \in IssueCall, issue[i].pc # "done",
             \A j \in IssueCall : j # i => issue'[j] = issue[j]
      PROVE  Kept
  BY <1>1
<1>2. ASSUME NEW i \in IssueCall, NEW b \in IssueBody, IssueBegin(i, b) PROVE Kept
  BY <1>1, <1>2 DEF IssueBegin
<1>3. ASSUME NEW i \in IssueCall, ServeIssue(i) PROVE Kept
  <2>1. /\ UNCHANGED revoke /\ issue[i].pc # "done"
        /\ \A j \in IssueCall : j # i => issue'[j] = issue[j]
    BY <1>3 DEF ServeIssue, IssueReplace, IssueWrite, IssueStore
  <2>2. QED
    BY <1>1, <2>1
<1>4. ASSUME UNCHANGED issue, NEW r \in RevokeCall, revoke[r].pc # "done",
             \A s \in RevokeCall : s # r => revoke'[s] = revoke[s]
      PROVE  Kept
  BY <1>4
<1>5. ASSUME NEW r \in RevokeCall, NEW g \in Group, RevokeBegin(r, g) PROVE Kept
  BY <1>4, <1>5 DEF RevokeBegin
<1>6. ASSUME NEW r \in RevokeCall, RevokeApply(r) PROVE Kept
  BY <1>4, <1>6 DEF RevokeApply
<1>7. CASE Stop
  <2>1. ASSUME NEW i \in IssueCall, issue[i].pc = "done" PROVE issue'[i].pc = "done"
    BY <1>7, <2>1 DEF Stop
  <2>2. ASSUME NEW r \in RevokeCall, revoke[r].pc = "done"
        PROVE  /\ revoke'[r].pc = "done" /\ revoke'[r].group = revoke[r].group
               /\ revoke'[r].epoch = revoke[r].epoch /\ revoke'[r].owed = {}
    <3>1. revoke'[r] = [revoke[r] EXCEPT !.pc = IF @ = "called" THEN "lost" ELSE @, !.owed = {}]
      BY <1>7 DEF Stop
    <3>2. QED
      BY <2>2, <3>1 DEF RevokeThread
  <2>3. QED
    BY <2>1, <2>2
<1>8. ASSUME UNCHANGED <<issue, revoke>> PROVE Kept
  BY <1>8
<1>9. ASSUME NEW a \in Access,
             (\E q \in Question : AskRead(a, q)) \/ ServeAccess(a) \/ AskLost(a)
      PROVE  Kept
  BY <1>8, <1>9 DEF AskRead, ServeAccess, AskSnapshot, AskAnswer, AskLost
<1>10. CASE Start \/ Tick \/ UNCHANGED vars
  BY <1>8, <1>10 DEF Start, Tick, vars, threads
<1>11. QED
  BY <1>2, <1>3, <1>5, <1>6, <1>7, <1>9, <1>10 DEF Next

\* Therefore the epochs of a group only grow, and a mark stays that of an applied revoke.
LEMMA EpochsGrow ==
  ASSUME TypeOK, [Next]_vars, NEW x, MarkIsApplied(x)
  PROVE  MarkIsApplied(x)'
<1>1. ASSUME NEW e \in Epochs(x.body.group) PROVE e \in Epochs(x.body.group)'
  <2>1. PICK r \in RevokeCall :
           revoke[r].pc = "done" /\ revoke[r].group = x.body.group /\ e = revoke[r].epoch
    BY DEF Epochs
  <2>2. revoke'[r].pc = "done" /\ revoke'[r].group = x.body.group /\ e = revoke'[r].epoch
    BY <2>1, DoneStays
  <2>3. QED
    BY <2>2 DEF Epochs
<1>2. QED
  BY <1>1 DEF MarkIsApplied

\* A question that does not move stays current whatever the others do.
LEMMA QuietAccessStaysCurrent ==
  ASSUME TypeOK, [Next]_vars, NEW a \in Access, AccessIsCurrent(a), access'[a] = access[a]
  PROVE  AccessIsCurrent(a)'
<1>1. access[a].after \subseteq RevokeCall
  BY DEF TypeOK, AccessThread
<1>2. ASSUME NEW r \in access[a].after PROVE revoke'[r].pc = "done"
  BY <1>1, DoneStays DEF AccessIsCurrent
<1>3. ASSUME NEW x \in access[a].snapshot PROVE MarkIsApplied(x)'
  BY EpochsGrow DEF AccessIsCurrent
<1>4. ASSUME NEW x \in access[a].snapshot, NEW r \in access[a].after PROVE Marked(x, r)'
  <2>1. revoke'[r].owed \subseteq revoke[r].owed /\ revoke'[r].group = revoke[r].group
    BY <1>1, DoneStays DEF AccessIsCurrent
  <2>2. Marked(x, r)
    BY DEF AccessIsCurrent
  <2>3. QED
    BY <2>1, <2>2 DEF Marked
<1>5. QED
  BY <1>2, <1>3, <1>4 DEF AccessIsCurrent

------------------------------------------------------------------------------
LEMMA OwedStep ==
  ASSUME IInv, OwedInv, [Next]_vars
  PROVE  OwedInv'
<1> USE DEF IInv, TypeOK
<1> DEFINE Owes(r) == /\ \A i \in revoke'[r].owed : issue'[i].pc = "done"
                      /\ up' # "up" => revoke'[r].owed = {}
<1> SUFFICES ASSUME NEW r \in RevokeCall PROVE Owes(r)
  BY DEF OwedInv
<1>1. \A i \in IssueCall : issue[i].pc = "done" => issue'[i].pc = "done"
  BY DoneStays
<1>2. revoke[r].owed \subseteq IssueCall
  BY DEF RevokeThread
<1>3. ASSUME revoke'[r].owed = revoke[r].owed, up' = up PROVE Owes(r)
  BY <1>1, <1>2, <1>3 DEF OwedInv
<1>4. CASE up' = up /\ UNCHANGED revoke
  BY <1>3, <1>4
<1>5. ASSUME NEW s \in RevokeCall, NEW g \in Group, RevokeBegin(s, g) PROVE Owes(r)
  <2>1. up = "up" /\ up' = "up" /\ UNCHANGED issue
    BY <1>5 DEF RevokeBegin, service
  <2>2. CASE r = s
    <3>1. revoke'[r].owed = {i \in IssueCall : issue[i].pc = "done"}
      BY <1>5, <2>2 DEF RevokeBegin
    <3>2. QED
      BY <2>1, <3>1
  <2>3. CASE r # s
    <3>1. revoke'[r] = revoke[r]
      BY <1>5, <2>3 DEF RevokeBegin
    <3>2. QED
      BY <1>3, <2>1, <3>1
  <2>4. QED
    BY <2>2, <2>3
<1>6. ASSUME NEW s \in RevokeCall, RevokeApply(s) PROVE Owes(r)
  <2>1. up' = up /\ revoke'[r].owed = revoke[r].owed
    BY <1>6 DEF RevokeApply, RevokeThread
  <2>2. QED
    BY <1>3, <2>1
<1>7. CASE Stop
  <2>1. revoke'[r] = [revoke[r] EXCEPT !.pc = IF @ = "called" THEN "lost" ELSE @, !.owed = {}]
    BY <1>7 DEF Stop
  <2>2. revoke'[r].owed = {}
    BY <2>1 DEF RevokeThread
  <2>3. QED
    BY <2>2
<1>8. CASE Start
  <2>1. up # "up" /\ UNCHANGED <<issue, revoke>>
    BY <1>8 DEF Start, threads
  <2>2. revoke'[r].owed = {}
    BY <2>1 DEF OwedInv
  <2>3. QED
    BY <2>2
<1>9. ASSUME NEW i \in IssueCall, (\E b \in IssueBody : IssueBegin(i, b)) \/ ServeIssue(i)
      PROVE  Owes(r)
  BY <1>4, <1>9 DEF IssueBegin, ServeIssue, IssueReplace, IssueWrite, IssueStore, service
<1>10. ASSUME NEW a \in Access,
              (\E q \in Question : AskRead(a, q)) \/ ServeAccess(a) \/ AskLost(a)
       PROVE  Owes(r)
  BY <1>4, <1>10 DEF AskRead, ServeAccess, AskSnapshot, AskAnswer, AskLost, service
<1>11. CASE Tick \/ UNCHANGED vars
  BY <1>4, <1>11 DEF Tick, vars, threads, service
<1>12. QED
  BY <1>5, <1>6, <1>7, <1>8, <1>9, <1>10, <1>11 DEF Next

\* The record of an issue that is not acknowledged is owed to no revoke.
LEMMA MarksStep ==
  ASSUME IInv, OwedInv, MarksInv, [Next]_vars
  PROVE  MarksInv'
<1> USE DEF IInv, TypeOK
<1> DEFINE MarksOf(x) == /\ MarkIsApplied(x)'
                         /\ \A r \in RevokeCall : revoke'[r].pc = "done" => Marked(x, r)'
<1> SUFFICES ASSUME NEW x \in records' PROVE MarksOf(x)
  BY DEF MarksInv
<1>1. ASSUME x \in records,
             \A r \in RevokeCall : revoke'[r].pc = "done" => revoke[r].pc = "done"
      PROVE  MarksOf(x)
  <2>1. MarkIsApplied(x)'
    BY <1>1, EpochsGrow DEF MarksInv
  <2>2. ASSUME NEW r \in RevokeCall, revoke'[r].pc = "done" PROVE Marked(x, r)'
    <3>1. revoke[r].pc = "done" /\ Marked(x, r)
      BY <1>1, <2>2 DEF MarksInv
    <3>2. revoke'[r].owed \subseteq revoke[r].owed /\ revoke'[r].group = revoke[r].group
      BY <3>1, DoneStays
    <3>3. QED
      BY <3>1, <3>2 DEF Marked
  <2>3. QED
    BY <2>1, <2>2
<1>2. CASE records' \subseteq records /\ UNCHANGED revoke
  BY <1>1, <1>2
<1>3. ASSUME NEW i \in IssueCall, IssueStore(i) PROVE MarksOf(x)
  <2>1. issue[i].pc = "written" /\ records' = records \cup {RecordOf(i)} /\ UNCHANGED revoke
    BY <1>3 DEF IssueStore
  <2>2. CASE x \in records
    BY <1>1, <2>1, <2>2
  <2>3. CASE x = RecordOf(i)
    <3>1. x.token = i /\ x.revoked = {}
      BY <2>3 DEF RecordOf
    <3>2. \A r \in RevokeCall : i \notin revoke'[r].owed
      BY <2>1 DEF OwedInv
    <3>3. QED
      BY <3>1, <3>2 DEF MarkIsApplied, Marked
  <2>4. QED
    BY <2>1, <2>2, <2>3
<1>4. ASSUME NEW s \in RevokeCall, RevokeApply(s) PROVE MarksOf(x)
  <2>1. /\ records' = {Revoked(y, s) : y \in records}
        /\ revoke[s].pc = "called" /\ revoke' = [revoke EXCEPT ![s].pc = "done"]
    BY <1>4 DEF RevokeApply
  <2>2. PICK y \in records : x = Revoked(y, s)
    BY <2>1
  <2>3. \A r \in RevokeCall : r # s => revoke'[r] = revoke[r]
    BY <2>1
  <2>4. /\ revoke'[s].pc = "done" /\ revoke'[s].group = revoke[s].group
        /\ revoke'[s].epoch = revoke[s].epoch /\ revoke'[s].owed = revoke[s].owed
    BY <2>1 DEF RevokeThread
  <2>5. CASE y.body.group = revoke[s].group
    <3>1. x.body = y.body /\ x.revoked = {revoke[s].epoch}
      BY <2>2, <2>5 DEF Revoked, Record
    <3>2. revoke[s].epoch \in Epochs(x.body.group)'
      BY <2>4, <2>5, <3>1 DEF Epochs
    <3>3. QED
      BY <3>1, <3>2 DEF MarkIsApplied, Marked
  <2>6. CASE y.body.group # revoke[s].group
    <3>1. x = y
      BY <2>2, <2>6 DEF Revoked
    <3>2. MarkIsApplied(x)'
      BY <3>1, EpochsGrow DEF MarksInv
    <3>3. ASSUME NEW r \in RevokeCall, revoke'[r].pc = "done" PROVE Marked(x, r)'
      BY <2>3, <2>4, <2>6, <3>1, <3>3 DEF MarksInv, Marked
    <3>4. QED
      BY <3>2, <3>3
  <2>7. QED
    BY <2>5, <2>6
<1>5. ASSUME NEW s \in RevokeCall, NEW g \in Group, RevokeBegin(s, g) PROVE MarksOf(x)
  <2>1. records' = records /\ \A r \in RevokeCall : r # s => revoke'[r] = revoke[r]
    BY <1>5 DEF RevokeBegin, service
  <2>2. revoke'[s].pc = "called"
    BY <1>5 DEF RevokeBegin
  <2>3. QED
    BY <1>1, <2>1, <2>2
<1>6. CASE Stop
  BY <1>6 DEF Stop
<1>7. CASE Start
  <2>1. /\ up = "down" /\ UNCHANGED <<revoke, issue>>
        /\ records' = files \/ records' = records
    BY <1>7 DEF Start, threads
  <2>2. CASE x \in records
    BY <1>1, <2>1, <2>2
  <2>3. CASE x \in files
    <3>1. x.revoked = {}
      BY <2>3 DEF FilesInv, FileIsIssued, RecordOf
    <3>2. \A r \in RevokeCall : revoke'[r].owed = {}
      BY <2>1 DEF OwedInv
    <3>3. QED
      BY <3>1, <3>2 DEF MarkIsApplied, Marked
  <2>4. QED
    BY <2>1, <2>2, <2>3
<1>8. ASSUME NEW i \in IssueCall,
             (\E b \in IssueBody : IssueBegin(i, b)) \/ IssueReplace(i) \/ IssueWrite(i)
      PROVE  MarksOf(x)
  BY <1>2, <1>8 DEF IssueBegin, IssueReplace, IssueWrite, service
<1>9. ASSUME NEW a \in Access,
             (\E q \in Question : AskRead(a, q)) \/ ServeAccess(a) \/ AskLost(a)
      PROVE  MarksOf(x)
  BY <1>2, <1>9 DEF AskRead, ServeAccess, AskSnapshot, AskAnswer, AskLost, service
<1>10. CASE Tick \/ UNCHANGED vars
  BY <1>2, <1>10 DEF Tick, vars, threads, service
<1>11. QED
  BY <1>3, <1>4, <1>5, <1>6, <1>7, <1>8, <1>9, <1>10 DEF Next, ServeIssue

LEMMA AccessStep ==
  ASSUME IInv, MarksInv, \A a \in Access : AccessIsCurrent(a), [Next]_vars, NEW b \in Access
  PROVE  AccessIsCurrent(b)'
<1> USE DEF IInv, TypeOK
<1>1. CASE access'[b] = access[b]
  BY <1>1, QuietAccessStaysCurrent
<1>2. ASSUME NEW a \in Access,
             (\E q \in Question : AskRead(a, q)) \/ ServeAccess(a) \/ AskLost(a),
             a # b
      PROVE  AccessIsCurrent(b)'
  <2>1. access'[b] = access[b]
    BY <1>2 DEF AskRead, ServeAccess, AskSnapshot, AskAnswer, AskLost
  <2>2. QED
    BY <1>1, <2>1
<1>3. ASSUME NEW q \in Question, AskRead(b, q) PROVE AccessIsCurrent(b)'
  <2>1. /\ access'[b].token = {f.token : f \in FilesOf(q.handle)}
        /\ access'[b].snapshot = {}
        /\ access'[b].after = {r \in RevokeCall : revoke[r].pc = "done"}
        /\ UNCHANGED revoke
    BY <1>3, ThreadsStartIdle DEF AskRead, IdleAccess, AccessThread
  <2>2. \A f, g \in FilesOf(q.handle) : f = g
    BY DEF FilesOf, FilesInv
  <2>3. \A s, t \in access'[b].token : s = t
    BY <2>1, <2>2
  <2>4. QED
    BY <2>1, <2>3 DEF AccessIsCurrent
<1>4. CASE AskSnapshot(b)
  <2> DEFINE found == {x \in records : x.token \in access[b].token}
  <2>1. /\ access'[b].token = access[b].token /\ access'[b].after = access[b].after
        /\ access'[b].pc # "active" \/ access'[b].snapshot = {}
        /\ access'[b].snapshot \subseteq found \/ access'[b].snapshot = access[b].snapshot
        /\ UNCHANGED <<records, revoke>>
    <3>1. CASE found = {}
      <4>1. access' = [access EXCEPT ![b] = [@ EXCEPT !.pc = "denied", !.reason = "unknown"]]
            /\ UNCHANGED <<records, revoke>>
        BY <1>4, <3>1 DEF AskSnapshot, service
      <4>2. QED
        BY <4>1 DEF AccessThread
    <3>2. CASE found # {}
      <4>1. access' = [access EXCEPT ![b] = [@ EXCEPT !.pc = "snapshot", !.snapshot = found]]
            /\ UNCHANGED <<records, revoke>>
        BY <1>4, <3>2 DEF AskSnapshot, service
      <4>2. QED
        BY <4>1 DEF AccessThread
    <3>3. QED
      BY <3>1, <3>2
  <2>2. \A x, y \in found : x = y
    BY DEF AccessIsCurrent, TableInv
  <2>3. access[b].after \subseteq RevokeCall
    BY DEF AccessThread
  <2>4. ASSUME NEW x \in found
        PROVE  MarkIsApplied(x) /\ \A r \in access[b].after : Marked(x, r)
    BY <2>3 DEF MarksInv, AccessIsCurrent
  <2>5. ASSUME NEW x \in access'[b].snapshot
        PROVE  MarkIsApplied(x) /\ \A r \in access[b].after : Marked(x, r)
    BY <2>1, <2>4 DEF AccessIsCurrent
  <2>6. ASSUME NEW x \in access'[b].snapshot
        PROVE  MarkIsApplied(x)' /\ \A r \in access[b].after : Marked(x, r)'
    BY <2>1, <2>5 DEF MarkIsApplied, Marked, Epochs
  <2>7. QED
    BY <2>1, <2>2, <2>6 DEF AccessIsCurrent
<1>5. CASE AskAnswer(b)
  <2>1. PICK x \in access[b].snapshot :
          LET reason == ReasonFor(x, access[b].question, now)
          IN  access' = [access EXCEPT ![b] =
                           [@ EXCEPT !.pc = IF reason = "none" THEN "active" ELSE "denied",
                                     !.reason = reason, !.answered = now]]
    BY <1>5 DEF AskAnswer
  <2>2. /\ access'[b].token = access[b].token /\ access'[b].after = access[b].after
        /\ access'[b].snapshot = access[b].snapshot
        /\ access'[b].question = access[b].question /\ access'[b].answered = now
        /\ access'[b].pc = "active" => ReasonFor(x, access[b].question, now) = "none"
    BY <2>1 DEF AccessThread
  <2>3. UNCHANGED revoke
    BY <1>5 DEF AskAnswer
  <2>4. \A y \in access[b].snapshot : y = x
    BY DEF AccessIsCurrent
  <2>5. x \in Record /\ access[b].question \in Question
    BY DEF AccessThread
  <2>6. ASSUME access'[b].pc = "active", NEW e \in x.revoked
        PROVE  now < e + Delay[access[b].question.point]
    <3>1. e \in Nat
      BY <2>5 DEF Record
    <3>2. Delay[access[b].question.point] \in Nat
      BY <2>5, CallAssumption, TimeAssumption
    <3>3. ~ (now >= e + Delay[access[b].question.point])
      BY <2>2, <2>6 DEF ReasonFor
    <3>4. QED
      BY <3>1, <3>2, <3>3
  <2>7. ASSUME NEW y \in access[b].snapshot
        PROVE  MarkIsApplied(y)' /\ \A r \in access[b].after : Marked(y, r)'
    BY <2>3 DEF AccessIsCurrent, MarkIsApplied, Marked, Epochs
  <2>8. QED
    BY <2>2, <2>3, <2>4, <2>6, <2>7 DEF AccessIsCurrent
<1>6. CASE AskLost(b)
  <2>1. /\ access'[b].token = access[b].token /\ access'[b].after = access[b].after
        /\ access'[b].snapshot = access[b].snapshot /\ access'[b].pc = "error"
        /\ UNCHANGED revoke
    BY <1>6 DEF AskLost, AccessThread
  <2>2. ASSUME NEW y \in access[b].snapshot
        PROVE  MarkIsApplied(y)' /\ \A r \in access[b].after : Marked(y, r)'
    BY <2>1 DEF AccessIsCurrent, MarkIsApplied, Marked, Epochs
  <2>3. QED
    BY <2>1, <2>2 DEF AccessIsCurrent
<1>7. CASE Stop
  <2>1. access'[b] = [access[b] EXCEPT !.pc = "error"] \/ access'[b] = access[b]
    BY <1>7 DEF Stop
  <2>2. CASE access'[b] = [access[b] EXCEPT !.pc = "error"]
    <3>1. /\ access'[b].token = access[b].token /\ access'[b].after = access[b].after
          /\ access'[b].snapshot = access[b].snapshot /\ access'[b].pc = "error"
      BY <2>2 DEF AccessThread
    <3>2. access[b].after \subseteq RevokeCall
      BY DEF AccessThread
    <3>3. ASSUME NEW r \in access[b].after
          PROVE  /\ revoke'[r].pc = "done" /\ revoke'[r].owed \subseteq revoke[r].owed
                 /\ revoke'[r].group = revoke[r].group
      BY <3>2, DoneStays DEF AccessIsCurrent
    <3>4. ASSUME NEW x \in access[b].snapshot
          PROVE  MarkIsApplied(x)' /\ \A r \in access[b].after : Marked(x, r)'
      <4>1. MarkIsApplied(x)'
        BY EpochsGrow DEF AccessIsCurrent
      <4>2. QED
        BY <3>3, <4>1 DEF AccessIsCurrent, Marked
    <3>5. QED
      BY <3>1, <3>3, <3>4 DEF AccessIsCurrent
  <2>3. QED
    BY <1>1, <2>1, <2>2
<1>8. CASE UNCHANGED access
  BY <1>1, <1>8
<1>9. ASSUME NEW i \in IssueCall, (\E c \in IssueBody : IssueBegin(i, c)) \/ ServeIssue(i)
      PROVE  UNCHANGED access
  BY <1>9 DEF IssueBegin, ServeIssue, IssueReplace, IssueWrite, IssueStore
<1>10. ASSUME NEW r \in RevokeCall, (\E g \in Group : RevokeBegin(r, g)) \/ RevokeApply(r)
       PROVE  UNCHANGED access
  BY <1>10 DEF RevokeBegin, RevokeApply
<1>11. CASE Start \/ Tick \/ UNCHANGED vars
  BY <1>8, <1>11 DEF Start, Tick, vars, threads
<1>12. ASSUME NEW a \in Access,
              (\E q \in Question : AskRead(a, q)) \/ ServeAccess(a) \/ AskLost(a)
       PROVE  AccessIsCurrent(b)'
  BY <1>2, <1>3, <1>4, <1>5, <1>6, <1>12 DEF ServeAccess
<1>13. QED
  BY <1>7, <1>8, <1>9, <1>10, <1>11, <1>12 DEF Next

------------------------------------------------------------------------------
\* In every reachable state the marks on the records, what the revokes are owed and the
\* copies the askers hold fit together (service.py:174-217).
THEOREM RevocationInvariance == Spec => []RInv
<1>1. IInv /\ Init => RInv
  <2> SUFFICES ASSUME Init PROVE RInv
    OBVIOUS
  <2>1. \A r \in RevokeCall : revoke[r].owed = {} /\ revoke[r].pc = "idle"
    BY DEF Init, IdleRevoke
  <2>2. \A a \in Access : access[a].token = {} /\ access[a].snapshot = {} /\ access[a].after = {}
    BY DEF Init, IdleAccess
  <2>3. QED
    BY <2>1, <2>2 DEF Init, RInv, OwedInv, MarksInv, AccessIsCurrent
<1>2. IInv /\ RInv /\ [Next]_vars => RInv'
  BY OwedStep, MarksStep, AccessStep DEF RInv
<1>3. QED
  BY Invariance, <1>1, <1>2, PTL DEF Spec

\* For any number of concurrent issues, revokes, questions, stops and restarts: what was
\* acknowledged as revoked is not active once the latest revoke of its group is visible
\* at the point (service.py:174-217).
THEOREM RevocationDenies == Spec => []AcknowledgedRevocationDenies
<1>1. IInv /\ RInv => AcknowledgedRevocationDenies
  <2> SUFFICES ASSUME RInv, NEW a \in Access, NEW x \in access[a].snapshot,
                      NEW r \in access[a].after, access[a].pc = "active",
                      x.token \in revoke[r].owed, x.body.group = revoke[r].group
               PROVE  \E e \in Epochs(x.body.group) :
                         access[a].answered < e + Delay[access[a].question.point]
    BY DEF AcknowledgedRevocationDenies
  <2>1. x.revoked # {} /\ x.revoked \subseteq Epochs(x.body.group)
    BY DEF RInv, AccessIsCurrent, Marked, MarkIsApplied
  <2>2. \A e \in x.revoked : access[a].answered < e + Delay[access[a].question.point]
    BY DEF RInv, AccessIsCurrent
  <2>3. QED
    BY <2>1, <2>2
<1>2. QED
  BY Invariance, RevocationInvariance, <1>1, PTL

------------------------------------------------------------------------------
(***************************************************************************)
(* The service implements the registry.  What is held and what the files   *)
(* of a running service say differ by the marks and by the one entry that  *)
(* is being made, so a stop forgets the marks and may lose that entry.     *)
(***************************************************************************)

RegistryInv ==
    /\ now \in 0..MaxTime /\ \A r \in RevokeCall : revoke[r].epoch \in 0..MaxTime
    /\ \A i \in Truncated : issue[i].body.handle \in torn
    /\ \A x \in records : x.expires = issue[x.token].expires
    /\ \A a \in Access : access[a].pc \in {"idle", "asking"} => access[a].snapshot = {}

LEMMA RegistryInvInitially == IInv /\ Init => RegistryInv
<1> SUFFICES ASSUME IInv, Init PROVE RegistryInv
  OBVIOUS
<1>1. now = 0 /\ records = {} /\ Truncated = {}
  BY DEF Init, Truncated, IdleIssue
<1>2. \A r \in RevokeCall : revoke[r].epoch = 0
  BY DEF Init, IdleRevoke
<1>3. \A a \in Access : access[a].snapshot = {}
  BY DEF Init, IdleAccess
<1>4. QED
  BY <1>1, <1>2, <1>3, TimeAssumption DEF RegistryInv

\* A step that leaves an issue's body and lifetime leaves its record.
LEMMA SameRecord ==
  ASSUME NEW i \in IssueCall, issue'[i].body = issue[i].body, issue'[i].expires = issue[i].expires
  PROVE  RecordOf(i)' = RecordOf(i)
BY DEF RecordOf

\* Every issue but one that is just called keeps its body and its lifetime.
LEMMA IssuesKeepTheirRecord ==
  ASSUME TypeOK, [Next]_vars, NEW i \in IssueCall, issue[i].pc # "idle"
  PROVE  issue'[i].body = issue[i].body /\ issue'[i].expires = issue[i].expires
<1> USE DEF TypeOK, IssueThread
<1>1. ASSUME NEW j \in IssueCall, NEW b \in IssueBody, IssueBegin(j, b)
      PROVE  issue'[i].body = issue[i].body /\ issue'[i].expires = issue[i].expires
  BY <1>1 DEF IssueBegin
<1>2. ASSUME NEW j \in IssueCall, ServeIssue(j)
      PROVE  issue'[i].body = issue[i].body /\ issue'[i].expires = issue[i].expires
  BY <1>2 DEF ServeIssue, IssueReplace, IssueWrite, IssueStore
<1>3. CASE Stop
  BY <1>3 DEF Stop
<1>4. CASE UNCHANGED issue
  BY <1>4
<1>5. QED
  BY <1>1, <1>2, <1>3, <1>4 DEF Next, RevokeBegin, RevokeApply, AskRead, ServeAccess, AskSnapshot,
    AskAnswer, AskLost, Start, Tick, threads, vars

\* What is on record was issued.
LEMMA RecordsAreIssued ==
  ASSUME IInv
  PROVE  /\ \A f \in files : f.token \in IssueCall /\ issue[f.token].pc \in {"written", "done", "lost"}
         /\ \A x \in records : x.token \in IssueCall /\ issue[x.token].pc \in {"written", "done", "lost"}
<1>1. \A f \in files : f.token \in IssueCall /\ issue[f.token].pc \in {"written", "done", "lost"}
  BY DEF IInv, TypeOK, FilesInv, FileIsIssued, Record
<1>2. ASSUME NEW x \in records
      PROVE  x.token \in IssueCall /\ issue[x.token].pc \in {"written", "done", "lost"}
  <2>1. up = "up"
    BY <1>2 DEF IInv, TypeOK, TableInv
  <2>2. PICK f \in files : f.token = x.token
    BY <1>2, <2>1 DEF IInv, TableInv, Tokens
  <2>3. QED
    BY <1>1, <2>2
<1>3. QED
  BY <1>1, <1>2

LEMMA RegistryInvStep == IInv /\ RegistryInv /\ [Next]_vars => RegistryInv'
<1> SUFFICES ASSUME IInv, RegistryInv, [Next]_vars PROVE RegistryInv'
  OBVIOUS
<1>0. TypeOK /\ TypeOK'
  BY TypeStep DEF IInv
<1>1. now' \in 0..MaxTime
  <2>1. now' = now \/ Tick
    BY DEF Next, IssueBegin, ServeIssue, IssueReplace, IssueWrite, IssueStore, RevokeBegin, RevokeApply,
      AskRead, ServeAccess, AskSnapshot, AskAnswer, AskLost, Stop, Start, vars
  <2>2. QED
    BY <2>1, TimeAssumption DEF Tick, RegistryInv
<1>2. ASSUME NEW r \in RevokeCall PROVE revoke'[r].epoch \in 0..MaxTime
  <2> USE DEF TypeOK, RevokeThread, RegistryInv
  <2>1. ASSUME NEW s \in RevokeCall, NEW g \in Group, RevokeBegin(s, g)
        PROVE  revoke'[r].epoch \in 0..MaxTime
    BY <1>0, <2>1 DEF RevokeBegin
  <2>2. ASSUME NEW s \in RevokeCall, RevokeApply(s)
        PROVE  revoke'[r].epoch \in 0..MaxTime
    BY <1>0, <2>2 DEF RevokeApply
  <2>3. CASE Stop
    BY <1>0, <2>3 DEF Stop
  <2>4. CASE UNCHANGED revoke
    BY <2>4
  <2>5. QED
    BY <2>1, <2>2, <2>3, <2>4 DEF Next, IssueBegin, ServeIssue, IssueReplace, IssueWrite, IssueStore,
      AskRead, ServeAccess, AskSnapshot, AskAnswer, AskLost, Start, Tick, threads, vars
<1>3. ASSUME NEW i \in IssueCall, issue'[i].pc = "truncated" PROVE issue'[i].body.handle \in torn'
  <2> USE DEF TypeOK, IssueThread
  <2>1. ASSUME NEW j \in IssueCall, NEW b \in IssueBody, IssueBegin(j, b)
        PROVE  issue'[i].body.handle \in torn'
    <3>1. issue'[i] = issue[i] /\ torn' = torn
      BY <1>0, <1>3, <2>1 DEF IssueBegin, volume
    <3>2. QED
      BY <1>3, <3>1 DEF RegistryInv, Truncated
  <2>2. ASSUME NEW j \in IssueCall, ServeIssue(j)
        PROVE  issue'[i].body.handle \in torn'
    <3>1. CASE IssueReplace(j)
      <4>1. CASE i = j
        BY <1>0, <3>1, <4>1 DEF IssueReplace
      <4>2. CASE i # j
        BY <1>0, <1>3, <3>1, <4>2 DEF IssueReplace, RegistryInv, Truncated
      <4>3. QED
        BY <4>1, <4>2
    <3>2. CASE IssueWrite(j)
      <4>1. i # j /\ issue[i].pc = "truncated"
        BY <1>0, <1>3, <3>2 DEF IssueWrite
      <4>2. lock = {j} /\ lock = {i}
        BY <3>2, <4>1 DEF IssueWrite, IInv, LockInv, Writing
      <4>3. QED
        BY <4>1, <4>2
    <3>3. CASE IssueStore(j)
      <4>1. issue'[i] = issue[i] /\ torn' = torn
        BY <1>0, <1>3, <3>3 DEF IssueStore, volume
      <4>2. QED
        BY <1>3, <4>1 DEF RegistryInv, Truncated
    <3>4. QED
      BY <2>2, <3>1, <3>2, <3>3 DEF ServeIssue
  <2>3. CASE Stop
    <3>1. issue'[i] = IF issue[i].pc \in {"called", "truncated", "written"}
                      THEN [issue[i] EXCEPT !.pc = "lost"] ELSE issue[i]
      BY <2>3 DEF Stop
    <3>2. issue'[i].pc # "truncated"
      BY <1>0, <3>1
    <3>3. QED
      BY <1>3, <3>2
  <2>4. CASE UNCHANGED <<issue, torn>>
    BY <1>3, <2>4 DEF RegistryInv, Truncated
  <2>5. QED
    BY <2>1, <2>2, <2>3, <2>4 DEF Next, RevokeBegin, RevokeApply, AskRead, ServeAccess, AskSnapshot,
      AskAnswer, AskLost, Start, Tick, threads, volume, vars
<1>4. ASSUME NEW x \in records' PROVE x.expires = issue'[x.token].expires
  <2>1. ASSUME x \in records PROVE x.expires = issue'[x.token].expires
    <3>1. x.token \in IssueCall /\ issue[x.token].pc # "idle"
      BY <2>1, RecordsAreIssued
    <3>2. QED
      BY <1>0, <2>1, <3>1, IssuesKeepTheirRecord DEF RegistryInv
  <2>2. ASSUME NEW i \in IssueCall, IssueStore(i) PROVE x.expires = issue'[x.token].expires
    <3>1. CASE x = RecordOf(i)
      <4>1. x.token = i /\ x.expires = issue[i].expires /\ issue[i].pc # "idle"
        BY <2>2, <3>1 DEF RecordOf, IssueStore
      <4>2. QED
        BY <1>0, <4>1, IssuesKeepTheirRecord
    <3>2. QED
      BY <2>1, <2>2, <3>1 DEF IssueStore
  <2>3. ASSUME NEW r \in RevokeCall, RevokeApply(r) PROVE x.expires = issue'[x.token].expires
    <3>1. PICK y \in records : x = Revoked(y, r)
      BY <2>3 DEF RevokeApply
    <3>2. y.token \in IssueCall /\ issue'[y.token] = issue[y.token]
      BY <2>3, <3>1, RecordsAreIssued DEF RevokeApply
    <3>3. x.token = y.token /\ x.expires = y.expires
      BY <1>0, <3>1 DEF Revoked, TypeOK, Record
    <3>4. QED
      BY <3>1, <3>2, <3>3 DEF RegistryInv
  <2>4. CASE Start
    <3>1. x \in files \/ x \in records
      BY <2>4 DEF Start
    <3>2. ASSUME x \in files PROVE x.expires = issue'[x.token].expires
      BY <2>4, <3>2 DEF Start, threads, IInv, FilesInv, FileIsIssued, RecordOf
    <3>3. QED
      BY <2>1, <3>1, <3>2
  <2>5. CASE records' \subseteq records
    BY <2>1, <2>5
  <2>6. QED
    BY <2>2, <2>3, <2>4, <2>5 DEF Next, IssueBegin, ServeIssue, IssueReplace, IssueWrite, RevokeBegin,
      AskRead, ServeAccess, AskSnapshot, AskAnswer, AskLost, Stop, Tick, service, vars
<1>5. ASSUME NEW a \in Access, access'[a].pc \in {"idle", "asking"} PROVE access'[a].snapshot = {}
  <2> USE DEF TypeOK, AccessThread
  <2>1. ASSUME NEW b \in Access, NEW q \in Question, AskRead(b, q) PROVE access'[a].snapshot = {}
    <3>1. CASE a = b
      BY <1>0, <2>1, <3>1 DEF AskRead, IdleAccess
    <3>2. CASE a # b
      BY <1>0, <1>5, <2>1, <3>2 DEF AskRead, RegistryInv
    <3>3. QED
      BY <3>1, <3>2
  <2>2. ASSUME NEW b \in Access, ServeAccess(b) \/ AskLost(b) PROVE access'[a].snapshot = {}
    <3>1. CASE a # b
      BY <1>0, <1>5, <2>2, <3>1 DEF ServeAccess, AskSnapshot, AskAnswer, AskLost, RegistryInv
    <3>2. ASSUME AskSnapshot(b) PROVE access'[b].pc \in {"denied", "snapshot"}
      <4> DEFINE found == {x \in records : x.token \in access[b].token}
      <4>1. CASE found = {}
        <5>1. access' = [access EXCEPT ![b] = [@ EXCEPT !.pc = "denied", !.reason = "unknown"]]
          BY <3>2, <4>1 DEF AskSnapshot
        <5>2. QED
          BY <1>0, <5>1
      <4>2. CASE found # {}
        <5>1. access' = [access EXCEPT ![b] = [@ EXCEPT !.pc = "snapshot", !.snapshot = found]]
          BY <3>2, <4>2 DEF AskSnapshot
        <5> HIDE DEF found
        <5>2. QED
          BY <1>0, <5>1
      <4>3. QED
        BY <4>1, <4>2
    <3>3. CASE a = b /\ AskAnswer(b)
      BY <1>0, <1>5, <3>3 DEF AskAnswer
    <3>4. CASE a = b /\ AskLost(b)
      BY <1>0, <1>5, <3>4 DEF AskLost
    <3>5. QED
      BY <1>5, <2>2, <3>1, <3>2, <3>3, <3>4 DEF ServeAccess
  <2>3. CASE Stop
    <3>0. access'[a] = IF access[a].pc = "snapshot" THEN [access[a] EXCEPT !.pc = "error"] ELSE access[a]
      BY <2>3 DEF Stop
    <3>1. access'[a] = access[a] \/ access'[a].pc = "error"
      BY <1>0, <3>0
    <3>2. QED
      BY <1>5, <3>1 DEF RegistryInv
  <2>4. CASE UNCHANGED access
    BY <1>5, <2>4 DEF RegistryInv
  <2>5. QED
    BY <2>1, <2>2, <2>3, <2>4 DEF Next, IssueBegin, ServeIssue, IssueReplace, IssueWrite, IssueStore,
      RevokeBegin, RevokeApply, Start, Tick, threads, vars
<1>6. Truncated' = {i \in IssueCall : issue'[i].pc = "truncated"}
  BY DEF Truncated
<1>7. QED
  BY <1>1, <1>2, <1>3, <1>4, <1>5, <1>6 DEF RegistryInv

THEOREM RegistryInvariance == Spec => []RegistryInv
<1>1. QED
  BY Invariance, RegistryInvInitially, RegistryInvStep, PTL DEF Spec

\* While the service runs, a file is an unmarked record, or that of the entry being made.
LEMMA FilesAreUnmarked ==
  ASSUME IInv, RegistryInv, up = "up"
  PROVE  files = {Registry!Unmarked(x) : x \in records} \cup {RecordOf(i) : i \in Written}
<1>1. Tokens(records) = Tokens(files) \ Written
  BY DEF IInv, TableInv
<1>2. \A f \in files : f = RecordOf(f.token)
  BY DEF IInv, FilesInv, FileIsIssued
<1>3. ASSUME NEW x \in records PROVE Registry!Unmarked(x) = RecordOf(x.token)
  <2>1. x.body = issue[x.token].body /\ x.expires = issue[x.token].expires
    BY DEF IInv, TableInv, RegistryInv
  <2>2. x \in Record
    BY DEF IInv, TypeOK
  <2>3. QED
    BY <2>1, <2>2 DEF Registry!Unmarked, RecordOf, Record
<1>4. ASSUME NEW f \in files
      PROVE  f \in {Registry!Unmarked(x) : x \in records} \cup {RecordOf(i) : i \in Written}
  <2>1. CASE f.token \in Written
    BY <1>2, <2>1
  <2>2. CASE f.token \notin Written
    <3>1. PICK x \in records : x.token = f.token
      BY <1>1, <2>2 DEF Tokens
    <3>2. f = Registry!Unmarked(x)
      BY <1>2, <1>3, <3>1
    <3>3. QED
      BY <3>2
  <2>3. QED
    BY <2>1, <2>2
<1>5. ASSUME NEW x \in records PROVE Registry!Unmarked(x) \in files
  <2>1. PICK f \in files : f.token = x.token
    BY <1>1 DEF Tokens
  <2>2. QED
    BY <1>2, <1>3, <2>1
<1>6. \A i \in Written : RecordOf(i) \in files
  BY DEF IInv, FilesInv
<1>7. QED
  BY <1>4, <1>5, <1>6

LEMMA ReplaceEnters ==
  ASSUME IInv, NEW i \in IssueCall, IssueReplace(i)
  PROVE  Registry!Enter(RecordOf(i)) /\ RecordOf(i) \in Held' \ Held
<1> DEFINE c == RecordOf(i)
           h == issue[i].body.handle
           old == {f \in files : f.body.handle = h}
<1>1. /\ up = "up" /\ up' = "up" /\ lock = {} /\ lock' = {i} /\ issue[i].pc = "called"
      /\ records' = {x \in records : \A f \in old : f.token # x.token}
      /\ access' = access
  BY DEF IssueReplace
<1>2. issue' = [issue EXCEPT ![i].pc = "truncated"]
  BY DEF IssueReplace
<1>3. RecordOf(i)' = c
  BY <1>2 DEF IInv, TypeOK, IssueThread, RecordOf
<1>4. Held = records
  BY <1>1 DEF Held
<1>5. Held' = records' \cup {c}
  BY <1>1, <1>3 DEF Held
<1>6. Tokens(files) = Tokens(records)
  BY <1>1 DEF IInv, LockInv, TableInv, Writing, Written
<1>7. \A f \in files : f.body = issue[f.token].body
  BY DEF IInv, FilesInv, FileIsIssued, RecordOf
<1>8. ASSUME NEW x \in records
      PROVE  (\A f \in old : f.token # x.token) <=> ~Registry!Displaces(c, x)
  <2>1. x.body = issue[x.token].body
    BY DEF IInv, TableInv
  <2>2. PICK f \in files : f.token = x.token
    BY <1>6 DEF Tokens
  <2>3. Registry!Displaces(c, x) <=> x.body.handle = h
    BY DEF Registry!Displaces, RecordOf
  <2>4. \A g \in old : g.token = x.token => x.body.handle = h
    BY <1>7, <2>1
  <2>5. x.body.handle = h => f \in old
    BY <1>7, <2>1, <2>2
  <2>6. QED
    BY <2>2, <2>3, <2>4, <2>5
<1>9. Held' = {x \in Held : ~Registry!Displaces(c, x)} \cup {c}
  BY <1>1, <1>4, <1>5, <1>8
<1>10. c \notin Held
  <2>1. c.token = i
    BY DEF RecordOf
  <2>2. QED
    BY <1>1, <1>4, <2>1, RecordsAreIssued
<1>11. c.token = i /\ c.revoked = {} /\ i \notin Used
  BY <1>1 DEF RecordOf, Used
<1>12. Used' = Used \cup {i}
  <2>1. \A j \in IssueCall : j # i => issue'[j] = issue[j]
    BY <1>2 DEF IInv, TypeOK
  <2>2. issue'[i].pc = "truncated"
    BY <1>2 DEF IInv, TypeOK, IssueThread
  <2>3. Used' = {j \in IssueCall : issue'[j].pc \notin {"idle", "called"}}
    BY DEF Used
  <2>4. QED
    BY <2>1, <2>2, <2>3 DEF Used
<1>13. Status = "open" /\ Status' = "open" /\ View' = View
  BY <1>1 DEF Status, View
<1>14. QED
  BY <1>5, <1>9, <1>10, <1>11, <1>12, <1>13 DEF Registry!Enter

\* What else a thread of an issue does nobody can tell.
LEMMA WriteAndStoreShowNothing ==
  ASSUME IInv, NEW i \in IssueCall, IssueWrite(i) \/ IssueStore(i)
  PROVE  UNCHANGED <<Status, Held, Used, View>>
<1>1. issue[i].pc \in {"truncated", "written"}
  BY DEF IssueWrite, IssueStore
<1>2. up = "up" /\ lock = {i}
  BY <1>1 DEF IInv, LockInv, Writing
<1>3. up' = "up" /\ access' = access
  BY <1>2 DEF IssueWrite, IssueStore, service
<1>4. RecordOf(i)' = RecordOf(i)
  BY DEF IssueWrite, IssueStore, RecordOf, IInv, TypeOK, IssueThread
<1>5. Held' = Held
  <2>1. CASE IssueWrite(i)
    <3>1. records' = records /\ lock' = {i}
      BY <1>2, <2>1 DEF IssueWrite, service
    <3>2. QED
      BY <1>2, <1>3, <1>4, <3>1 DEF Held
  <2>2. CASE IssueStore(i)
    <3>1. records' = records \cup {RecordOf(i)} /\ lock' = {}
      BY <2>2 DEF IssueStore
    <3>2. QED
      BY <1>2, <1>3, <3>1 DEF Held
  <2>3. QED
    BY <2>1, <2>2
<1>6. \A j \in IssueCall : issue'[j].pc \notin {"idle", "called"} <=> issue[j].pc \notin {"idle", "called"}
  BY <1>1 DEF IssueWrite, IssueStore, IInv, TypeOK, IssueThread
<1>7. Used' = Used
  BY <1>6 DEF Used
<1>8. QED
  BY <1>2, <1>3, <1>5, <1>7 DEF Status, View

LEMMA ApplyRevokes ==
  ASSUME IInv, NEW r \in RevokeCall, RevokeApply(r)
  PROVE  Registry!Revoke(revoke[r].group, revoke[r].epoch)
<1>1. /\ up = "up" /\ up' = "up" /\ lock = {} /\ lock' = {} /\ access' = access /\ issue' = issue
      /\ records' = {Revoked(x, r) : x \in records}
  BY DEF RevokeApply
<1>2. Held = records /\ Held' = records'
  BY <1>1 DEF Held
<1>3. Status = "open" /\ Status' = Status /\ View' = View /\ Used' = Used
  BY <1>1 DEF Status, View, Used
<1>4. QED
  BY <1>1, <1>2, <1>3 DEF Registry!Revoke, Revoked

LEMMA SnapshotLooks ==
  ASSUME IInv, RInv, RegistryInv, NEW a \in Access, AskSnapshot(a)
  PROVE  \/ \E c \in Held : Registry!Look(a, c)
         \/ UNCHANGED <<Status, Held, Used, View>>
<1> DEFINE found == {x \in records : x.token \in access[a].token}
<1>1. /\ up = "up" /\ access[a].pc = "asking" /\ lock = {}
      /\ UNCHANGED <<up, lock, records, files, torn, issue>>
  BY DEF AskSnapshot, service, volume
<1>2. UNCHANGED <<Status, Held, Used>>
  BY <1>1 DEF Status, Held, Used, RecordOf
<1>3. access[a].snapshot = {}
  BY <1>1 DEF RegistryInv
<1>4. CASE found = {}
  <2>1. \A b \in Access : access'[b].snapshot = access[b].snapshot
    BY <1>4 DEF AskSnapshot, IInv, TypeOK, AccessThread
  <2>2. QED
    BY <1>2, <2>1 DEF View
<1>5. CASE found # {}
  <2>1. PICK c \in found : TRUE
    BY <1>5
  <2>2. \A x \in found : x = c
    BY <2>1 DEF RInv, AccessIsCurrent, IInv, TableInv
  <2>3. found = {c}
    BY <2>1, <2>2
  <2>4. \A b \in Access : access'[b].snapshot = IF b = a THEN {c} ELSE access[b].snapshot
    BY <1>5, <2>3 DEF AskSnapshot, IInv, TypeOK, AccessThread
  <2>5. View' = [View EXCEPT ![a] = {c}]
    BY <2>4 DEF View
  <2>6. c \in Held /\ Status = "open" /\ View[a] = {}
    BY <1>1, <1>3, <2>1 DEF Held, Status, View
  <2>7. QED
    BY <1>2, <2>5, <2>6 DEF Registry!Look
<1>6. QED
  BY <1>4, <1>5

LEMMA StopCloses ==
  ASSUME IInv, RegistryInv, Stop
  PROVE  Registry!Close
<1>1. up = "up" /\ up' = "down" /\ UNCHANGED <<files, torn>>
  BY DEF Stop, volume
<1>2. Status = "open" /\ Status' = (IF torn = {} THEN "closed" ELSE "broken") /\ Held' = files
  BY <1>1 DEF Status, Held
<1>3. Used \subseteq Used'
  <2>1. \A i \in IssueCall : issue[i].pc \notin {"idle", "called"} => issue'[i].pc \notin {"idle", "called"}
    BY DEF Stop, IInv, TypeOK, IssueThread
  <2>2. QED
    BY <2>1 DEF Used
<1>4. View' = View
  <2>1. \A a \in Access : access'[a].snapshot = access[a].snapshot
    BY DEF Stop, IInv, TypeOK, AccessThread
  <2>2. QED
    BY <2>1 DEF View
<1>5. files = {Registry!Unmarked(x) : x \in records} \cup {RecordOf(i) : i \in Written}
  BY <1>1, FilesAreUnmarked
<1>6. Held = records \cup {RecordOf(i) : i \in lock}
  BY <1>1 DEF Held
<1>7. \A i : Registry!Unmarked(RecordOf(i)) = RecordOf(i)
  BY DEF Registry!Unmarked, RecordOf
<1>8. CASE torn = {}
  <2>1. Truncated = {}
    BY <1>8 DEF RegistryInv, Truncated
  <2>2. lock = Written
    BY <2>1 DEF IInv, LockInv, Writing, Written, Truncated
  <2>3. files = {Registry!Unmarked(x) : x \in Held}
    BY <1>5, <1>6, <1>7, <2>2
  <2>4. QED
    BY <1>2, <1>3, <1>4, <1>8, <2>3 DEF Registry!Close
<1>9. CASE torn # {}
  <2>1. PICK i \in Truncated : TRUE
    BY <1>1, <1>9 DEF IInv, TableInv
  <2>2. i \in IssueCall /\ issue[i].pc = "truncated" /\ lock = {i}
    BY <2>1 DEF IInv, LockInv, Writing, Truncated
  <2>3. Written = {}
    BY <2>2 DEF IInv, LockInv, Writing, Written
  <2>4. RecordOf(i) \notin records
    <3>1. RecordOf(i).token = i
      BY DEF RecordOf
    <3>2. QED
      BY <2>2, <3>1, RecordsAreIssued
  <2>5. RecordOf(i) \in Held /\ Held \ {RecordOf(i)} = records
    BY <1>6, <2>2, <2>4
  <2>6. files = {Registry!Unmarked(x) : x \in Held \ {RecordOf(i)}}
    BY <1>5, <2>3, <2>5
  <2>7. QED
    BY <1>2, <1>3, <1>4, <1>9, <2>5, <2>6 DEF Registry!Close
<1>10. QED
  BY <1>8, <1>9

LEMMA StartOpens ==
  ASSUME IInv, Start
  PROVE  Registry!Open \/ UNCHANGED <<Status, Held, Used, View>>
<1>1. up = "down" /\ UNCHANGED <<lock, files, torn, issue, access>>
  BY DEF Start, volume, threads
<1>2. lock = {}
  BY <1>1 DEF IInv, LockInv
<1>3. Used' = Used /\ View' = View
  BY <1>1 DEF Used, View
<1>4. CASE torn = {}
  <2>1. up' = "up" /\ records' = files
    BY <1>4 DEF Start
  <2>2. Held' = Held
    BY <1>1, <1>2, <2>1 DEF Held
  <2>3. Status = "closed" /\ Status' = "open"
    BY <1>1, <1>4, <2>1 DEF Status
  <2>4. QED
    BY <1>3, <2>2, <2>3 DEF Registry!Open
<1>5. CASE torn # {}
  <2>1. up' = "failed"
    BY <1>5 DEF Start
  <2>2. QED
    BY <1>1, <1>3, <1>5, <2>1 DEF Held, Status
<1>6. QED
  BY <1>4, <1>5

\* The steps that concern neither what is held nor who looks at it.
LEMMA OthersShowNothing ==
  ASSUME IInv, RegistryInv,
         \/ \E i \in IssueCall, b \in IssueBody : IssueBegin(i, b)
         \/ \E r \in RevokeCall, g \in Group : RevokeBegin(r, g)
         \/ \E a \in Access, q \in Question : AskRead(a, q)
         \/ \E a \in Access : AskAnswer(a) \/ AskLost(a)
         \/ Tick \/ UNCHANGED vars
  PROVE  UNCHANGED <<Status, Held, Used, View>>
<1>1. UNCHANGED <<up, lock, records, files, torn>>
  BY DEF IssueBegin, RevokeBegin, AskRead, AskAnswer, AskLost, Tick, vars, service, volume
<1>2. Status' = Status
  BY <1>1 DEF Status
<1>3. Used' = Used /\ \A i \in lock : RecordOf(i)' = RecordOf(i)
  <2>1. ASSUME NEW i \in IssueCall, NEW b \in IssueBody, IssueBegin(i, b)
        PROVE  Used' = Used /\ \A j \in lock : RecordOf(j)' = RecordOf(j)
    <3>1. issue[i].pc = "idle" /\ issue'[i].pc = "called"
      BY <2>1 DEF IssueBegin, IInv, TypeOK
    <3>2. \A j \in IssueCall : j # i => issue'[j] = issue[j]
      BY <2>1 DEF IssueBegin, IInv, TypeOK
    <3>3. i \notin lock /\ lock \subseteq IssueCall
      BY <3>1 DEF IInv, LockInv, Writing, TypeOK
    <3>4. Used' = {j \in IssueCall : issue'[j].pc \notin {"idle", "called"}}
      BY DEF Used
    <3>5. QED
      BY <3>1, <3>2, <3>3, <3>4 DEF Used, RecordOf
  <2>2. CASE UNCHANGED issue
    BY <2>2 DEF Used, RecordOf
  <2>3. QED
    BY <2>1, <2>2 DEF RevokeBegin, AskRead, AskAnswer, AskLost, Tick, vars, threads
<1>4. Held' = Held
  BY <1>1, <1>3 DEF Held
<1>5. View' = View
  <2>1. ASSUME NEW a \in Access, NEW q \in Question, AskRead(a, q) PROVE View' = View
    <3>1. access[a].snapshot = {} /\ access'[a].snapshot = {}
      BY <2>1 DEF AskRead, RegistryInv, IInv, TypeOK, AccessThread, IdleAccess
    <3>2. \A b \in Access : b # a => access'[b] = access[b]
      BY <2>1 DEF AskRead, IInv, TypeOK
    <3>3. \A b \in Access : access'[b].snapshot = access[b].snapshot
      BY <3>1, <3>2
    <3>4. QED
      BY <3>3 DEF View
  <2>2. ASSUME NEW a \in Access, AskAnswer(a) \/ AskLost(a) PROVE View' = View
    <3>1. \A b \in Access : access'[b].snapshot = access[b].snapshot
      <4> USE DEF IInv, TypeOK, AccessThread
      <4>1. CASE AskAnswer(a)
        <5>1. PICK x \in access[a].snapshot :
                access' = [access EXCEPT ![a] =
                  [@ EXCEPT !.pc = IF ReasonFor(x, access[a].question, now) = "none"
                                   THEN "active" ELSE "denied",
                            !.reason = ReasonFor(x, access[a].question, now), !.answered = now]]
          BY <4>1 DEF AskAnswer
        <5>2. QED
          BY <5>1
      <4>2. CASE AskLost(a)
        BY <4>2 DEF AskLost
      <4>3. QED
        BY <2>2, <4>1, <4>2
    <3>2. QED
      BY <3>1 DEF View
  <2>3. CASE UNCHANGED access
    BY <2>3 DEF View
  <2>4. QED
    BY <2>1, <2>2, <2>3 DEF IssueBegin, RevokeBegin, Tick, vars, threads
<1>6. QED
  BY <1>2, <1>3, <1>4, <1>5

LEMMA StepIsARegistryStep ==
  IInv /\ RInv /\ RegistryInv /\ [Next]_vars => [Registry!Next]_(Registry!registryVars)
<1> SUFFICES ASSUME IInv, RInv, RegistryInv, [Next]_vars PROVE [Registry!Next]_(Registry!registryVars)
  OBVIOUS
<1>1. ASSUME UNCHANGED <<Status, Held, Used, View>> PROVE UNCHANGED Registry!registryVars
  BY <1>1 DEF Registry!registryVars
<1>2. ASSUME NEW i \in IssueCall, ServeIssue(i) PROVE [Registry!Next]_(Registry!registryVars)
  BY <1>1, <1>2, ReplaceEnters, WriteAndStoreShowNothing DEF ServeIssue, Registry!Next
<1>3. ASSUME NEW r \in RevokeCall, RevokeApply(r) PROVE [Registry!Next]_(Registry!registryVars)
  <2>1. revoke[r].group \in Group /\ revoke[r].epoch \in 0..MaxTime
    BY DEF IInv, TypeOK, RevokeThread, RegistryInv
  <2>2. QED
    BY <1>3, <2>1, ApplyRevokes DEF Registry!Next
<1>4. ASSUME NEW a \in Access, AskSnapshot(a) PROVE [Registry!Next]_(Registry!registryVars)
  BY <1>1, <1>4, SnapshotLooks DEF Registry!Next
<1>5. CASE Stop
  BY <1>5, StopCloses DEF Registry!Next
<1>6. CASE Start
  BY <1>1, <1>6, StartOpens DEF Registry!Next
<1>7. QED
  BY <1>1, <1>2, <1>3, <1>4, <1>5, <1>6, OthersShowNothing DEF Next, ServeAccess

\* Threads, the lock and the two stores show as little as a registry of one piece: for
\* any number of calls, handles, groups, stops and starts (service.py:131-217).
THEOREM ServiceImplementsRegistry == Spec => ImplementsRegistry
<1>1. Init => Registry!Init
  <2> SUFFICES ASSUME Init PROVE Registry!Init
    OBVIOUS
  <2>1. Used = {}
    BY DEF Init, Used, IdleIssue
  <2>2. View = [a \in Access |-> {}]
    BY DEF Init, View, IdleAccess
  <2>3. QED
    BY <2>1, <2>2 DEF Init, Registry!Init, Status, Held
<1>2. QED
  BY Invariance, RevocationInvariance, RegistryInvariance, StepIsARegistryStep, <1>1, PTL
  DEF Spec, ImplementsRegistry, Registry!Spec

------------------------------------------------------------------------------
(***************************************************************************)
(* The request path.  An access is nobody else's business: the inductive   *)
(* invariant speaks of one access, and says for each place its handler     *)
(* waits at what the calls before that place have left behind.  The        *)
(* credential service takes an access only from a question it waits for,   *)
(* so what an active answer allowed stays true.                            *)
(***************************************************************************)

LabFunctions ==
  /\ gate \in [Access -> {"idle", "credential", "policy", "audit", "target", "baseline", "answered"}]
  /\ auditCall \in [Access -> {"none", "sent", "recorded", "lost"}]
  /\ targetCall \in [Access -> {"none", "sent", "pending", "applied"}]
  /\ reply \in [Access -> Reply]

\* Before it answers, a gateway has replied nothing and asked the target nothing, until
\* its record was made.
PlaceOK(a) ==
  /\ gate[a] \in {"idle", "baseline"} => access[a].pc = "idle"
  /\ gate[a] \in {"idle", "credential", "policy", "audit"} => targetCall[a] = "none"
  /\ gate[a] = "credential" => access[a].pc # "idle"
  /\ gate[a] = "policy" => access[a].pc = "active"
  /\ gate[a] = "audit" => access[a].pc = "active" /\ PolicyAllows(a)
  /\ gate[a] # "answered" => reply[a].decision = "none"

CallOK(a) ==
  access[a].pc # "idle" /\ targetCall[a] # "none"
    => access[a].pc = "active" /\ PolicyAllows(a) /\ auditCall[a] = "recorded"

ReplyOK(a) ==
  /\ reply[a].decision \in {"deny", "error"} /\ reply[a].dependency # "target" => targetCall[a] = "none"
  /\ gate[a] \in {"target", "baseline"} => reply[a].decision = "none"

AccessOK(a) == PlaceOK(a) /\ CallOK(a) /\ ReplyOK(a)

LabInv ==
  /\ TypeOK /\ LabFunctions
  /\ \A a \in effects : targetCall[a] = "applied"
  /\ \A a \in Access : AccessOK(a)

------------------------------------------------------------------------------
(* The composition: every step of the lab is a step of the service, or none. *)

LEMMA LabStepIsAServiceStep == [LabNext]_allVars => [Next]_vars
<1> SUFFICES ASSUME [LabNext]_allVars PROVE [Next]_vars
  OBVIOUS
<1>1. CASE CredentialNext
  BY <1>1 DEF CredentialNext, Next
<1>2. CASE \E a \in Access, q \in Question : GatewayBegin(a, q)
  BY <1>2 DEF GatewayBegin, Next
<1>3. CASE \E a \in Access : GatewayStep(a)
  BY <1>3 DEF GatewayStep, AfterIntrospection, PolicyAnswers, PolicyLost, AuditAnswers, AuditLost,
              TargetAnswers, TargetLost
<1>4. CASE \E a \in Access : BaselineBegin(a) \/ AuditRecord(a) \/ TargetPending(a) \/ TargetApply(a)
  BY <1>4 DEF BaselineBegin, AuditRecord, TargetPending, TargetApply
<1>5. CASE PolicyStopOrStart \/ AuditStop \/ AuditStart \/ UNCHANGED allVars
  BY <1>5 DEF PolicyStopOrStart, AuditStop, AuditStart, allVars
<1>6. QED
  BY <1>1, <1>2, <1>3, <1>4, <1>5 DEF LabNext

\* The lab adds gateways to the credential service and changes nothing of how it
\* behaves, so what is proved of the service holds in the lab (service.py, run.py).
THEOREM LabRunsTheService == LabSpec => Spec
<1>1. LabInit => Init
  BY DEF LabInit
<1>2. QED
  BY <1>1, LabStepIsAServiceStep, PTL DEF LabSpec, Spec

\* A gateway's host meets the registry too, whatever the other containers do
\* (service.py:131-217, run.py).
COROLLARY LabImplementsRegistry == LabSpec => ImplementsRegistry
BY LabRunsTheService, ServiceImplementsRegistry

------------------------------------------------------------------------------
(* The inductive invariant. *)

\* The service moves an access only on from a question that waits for its answer.
LEMMA ServiceMovesWaitingOnly ==
  ASSUME TypeOK, CredentialNext, NEW a \in Access
  PROVE  \/ access'[a] = access[a]
         \/ access[a].pc \in {"asking", "snapshot"} /\ access'[a].pc # "idle"
<1>1. CASE \E b \in Access : AskSnapshot(b)
  BY <1>1 DEF AskSnapshot, TypeOK, AccessThread
<1>2. CASE \E b \in Access : AskAnswer(b)
  BY <1>2 DEF AskAnswer, TypeOK, AccessThread
<1>3. CASE \E b \in Access : AskLost(b)
  BY <1>3 DEF AskLost, TypeOK, AccessThread
<1>4. CASE Stop
  BY <1>4 DEF Stop, TypeOK, AccessThread
<1>5. CASE Start \/ Tick
  BY <1>5 DEF Start, Tick, threads
<1>6. CASE \E i \in IssueCall : (\E b \in IssueBody : IssueBegin(i, b)) \/ ServeIssue(i)
  BY <1>6 DEF IssueBegin, ServeIssue, IssueReplace, IssueWrite, IssueStore
<1>7. CASE \E r \in RevokeCall : (\E g \in Group : RevokeBegin(r, g)) \/ RevokeApply(r)
  BY <1>7 DEF RevokeBegin, RevokeApply
<1>8. QED
  BY <1>1, <1>2, <1>3, <1>4, <1>5, <1>6, <1>7 DEF CredentialNext, ServeAccess

LEMMA ServiceKeepsAccesses ==
  ASSUME LabInv, CredentialNext, NEW a \in Access
  PROVE  AccessOK(a)'
<1>1. /\ UNCHANGED <<gate, auditCall, targetCall, reply>>
      /\ AccessOK(a)
      /\ gate[a] \in {"idle", "credential", "policy", "audit", "target", "baseline", "answered"}
  BY DEF LabInv, LabFunctions, CredentialNext, labVars, calls
<1>2. CASE access'[a] = access[a]
  BY <1>1, <1>2 DEF AccessOK, PlaceOK, CallOK, ReplyOK, PolicyAllows
<1>3. CASE access[a].pc \in {"asking", "snapshot"} /\ access'[a].pc # "idle"
  BY <1>1, <1>3 DEF AccessOK, PlaceOK, CallOK, ReplyOK
<1>4. QED
  BY <1>2, <1>3, ServiceMovesWaitingOnly DEF LabInv

LEMMA GatewayKeepsInv ==
  ASSUME LabInv, NEW b \in Access,
         (\E q \in Question : GatewayBegin(b, q)) \/ GatewayStep(b) \/ BaselineBegin(b)
  PROVE  /\ LabFunctions' /\ effects' = effects
         /\ \A a \in effects : targetCall'[a] = "applied"
         /\ \A a \in Access : AccessOK(a)'
<1> USE DEF LabInv, LabFunctions
<1>1. CASE \E q \in Question : GatewayBegin(b, q)
  <2>1. PICK q \in Question : GatewayBegin(b, q)
    BY <1>1
  <2>2. /\ gate' = [gate EXCEPT ![b] = "credential"]
        /\ UNCHANGED <<auditCall, targetCall, reply, effects>>
        /\ gate[b] = "idle"
    BY <2>1 DEF GatewayBegin, Proceed, stores, calls
  <2>3. access'[b].pc # "idle" /\ \A a \in Access \ {b} : access'[a] = access[a]
    BY <2>1 DEF GatewayBegin, AskRead, TypeOK, IdleAccess
  <2>4. \A a \in Access : AccessOK(a)'
    BY <2>2, <2>3 DEF AccessOK, PlaceOK, CallOK, ReplyOK, PolicyAllows
  <2>5. QED
    BY <2>2, <2>4
<1>2. CASE GatewayStep(b) \/ BaselineBegin(b)
  <2>1. access' = access /\ effects' = effects
    BY <1>2 DEF GatewayStep, BaselineBegin, AfterIntrospection, PolicyAnswers, PolicyLost, AuditAnswers,
                AuditLost, TargetAnswers, TargetLost, vars, threads, stores
  <2>2. /\ AccessOK(b)
        /\ NoReply \in Reply /\ Allow \in Reply /\ Deny \in Reply
        /\ \A d \in Dependency : FailedClosed(d) \in Reply
        /\ Allow.decision = "allow" /\ Deny.decision = "deny" /\ NoReply.decision = "none"
        /\ \A d \in Dependency : FailedClosed(d).decision = "error" /\ FailedClosed(d).dependency = d
    BY DEF NoReply, Reply, Allow, Deny, FailedClosed, Dependency
  <2>3. CASE AfterIntrospection(b) \/ PolicyLost(b) \/ TargetAnswers(b) \/ TargetLost(b)
    <3>1. UNCHANGED calls
      BY <2>3 DEF AfterIntrospection, PolicyLost, TargetAnswers, TargetLost
    <3>2. LabFunctions'
      BY <2>2, <2>3, <3>1 DEF AfterIntrospection, PolicyLost, TargetAnswers, TargetLost, Answer, Proceed,
                              calls, Dependency
    <3>3. \A a \in Access : AccessOK(a)'
      BY <2>1, <2>2, <2>3, <3>1 DEF AfterIntrospection, PolicyLost, TargetAnswers, TargetLost, Answer, Proceed,
                              calls, AccessOK, PlaceOK, CallOK, ReplyOK, PolicyAllows, Dependency
    <3>4. QED
      BY <2>1, <3>1, <3>2, <3>3 DEF calls
  <2>4. CASE PolicyAnswers(b)
    <3>1. LabFunctions' /\ targetCall' = targetCall
      BY <2>2, <2>4 DEF PolicyAnswers, Answer, Proceed
    <3>2. \A a \in Access : AccessOK(a)'
      BY <2>1, <2>2, <2>4, <3>1 DEF PolicyAnswers, Answer, Proceed,
                              AccessOK, PlaceOK, CallOK, ReplyOK, PolicyAllows
    <3>3. QED
      BY <2>1, <3>1, <3>2
  <2>5. CASE AuditLost(b)
    <3>1. LabFunctions' /\ targetCall' = targetCall
      BY <2>2, <2>5 DEF AuditLost, Answer, Dependency
    <3>2. \A a \in Access : AccessOK(a)'
      BY <2>1, <2>2, <2>5, <3>1 DEF AuditLost, Answer, AccessOK, PlaceOK, CallOK, ReplyOK, PolicyAllows, Dependency
    <3>3. QED
      BY <2>1, <3>1, <3>2
  <2>6. CASE AuditAnswers(b)
    <3>1. LabFunctions' /\ targetCall[b] = "none"
      BY <2>2, <2>6 DEF AuditAnswers, Proceed, AccessOK, PlaceOK
    <3>2. \A a \in Access : AccessOK(a)'
      BY <2>1, <2>2, <2>6, <3>1 DEF AuditAnswers, Proceed, AccessOK, PlaceOK, CallOK, ReplyOK, PolicyAllows
    <3>3. QED
      BY <2>1, <2>6, <3>1, <3>2 DEF AuditAnswers
  <2>7. CASE BaselineBegin(b)
    <3>1. LabFunctions' /\ targetCall[b] = "none"
      BY <2>2, <2>7 DEF BaselineBegin, Proceed, AccessOK, PlaceOK
    <3>2. \A a \in Access : AccessOK(a)'
      BY <2>1, <2>2, <2>7, <3>1 DEF BaselineBegin, Proceed, AccessOK, PlaceOK, CallOK, ReplyOK, PolicyAllows
    <3>3. QED
      BY <2>1, <2>7, <3>1, <3>2 DEF BaselineBegin
  <2>8. QED
    BY <1>2, <2>3, <2>4, <2>5, <2>6, <2>7 DEF GatewayStep
<1>3. QED
  BY <1>1, <1>2

\* The handlers of the audit service and of the target, and the containers.
LEMMA CalledKeepsInv ==
  ASSUME LabInv,
         \/ \E b \in Access : AuditRecord(b) \/ TargetPending(b) \/ TargetApply(b)
         \/ PolicyStopOrStart \/ AuditStop \/ AuditStart \/ UNCHANGED allVars
  PROVE  /\ LabFunctions'
         /\ \A a \in effects' : targetCall'[a] = "applied"
         /\ \A a \in Access : AccessOK(a)'
<1> USE DEF LabInv, LabFunctions
<1>1. UNCHANGED <<access, gate, reply>>
  BY DEF AuditRecord, TargetPending, TargetApply, PolicyStopOrStart, AuditStop, AuditStart,
         allVars, vars, threads, labVars
<1>2. CASE \E b \in Access : AuditRecord(b)
  BY <1>1, <1>2 DEF AuditRecord, AccessOK, PlaceOK, CallOK, ReplyOK, PolicyAllows
<1>3. CASE \E b \in Access : TargetPending(b) \/ TargetApply(b)
  <2>1. PICK b \in Access : TargetPending(b) \/ TargetApply(b)
    BY <1>3
  <2>2. /\ targetCall[b] \in {"sent", "pending"} /\ auditCall' = auditCall
        /\ targetCall' \in [Access -> {"none", "sent", "pending", "applied"}]
        /\ targetCall'[b] # "none" /\ \A a \in Access \ {b} : targetCall'[a] = targetCall[a]
    <3>1. CASE TargetPending(b)
      BY <3>1 DEF TargetPending
    <3>2. CASE TargetApply(b)
      BY <3>2 DEF TargetApply
    <3>3. QED
      BY <2>1, <3>1, <3>2
  <2>3. \A a \in effects' : targetCall'[a] = "applied"
    <3>1. CASE TargetPending(b)
      BY <3>1 DEF TargetPending, stores
    <3>2. CASE TargetApply(b)
      BY <3>2 DEF TargetApply
    <3>3. QED
      BY <2>1, <3>1, <3>2
  <2>4. \A a \in Access : AccessOK(a)'
    BY <1>1, <2>2 DEF AccessOK, PlaceOK, CallOK, ReplyOK, PolicyAllows
  <2>5. QED
    BY <1>1, <2>2, <2>3, <2>4
<1>4. CASE PolicyStopOrStart \/ AuditStart \/ UNCHANGED allVars
  BY <1>1, <1>4 DEF PolicyStopOrStart, AuditStart, allVars, labVars, calls, stores,
                    AccessOK, PlaceOK, CallOK, ReplyOK, PolicyAllows
<1>5. CASE AuditStop
  BY <1>1, <1>5 DEF AuditStop, AccessOK, PlaceOK, CallOK, ReplyOK, PolicyAllows
<1>6. QED
  BY <1>2, <1>3, <1>4, <1>5

LEMMA LabStepKeepsInv == LabInv /\ [LabNext]_allVars => LabInv'
<1> SUFFICES ASSUME LabInv, [LabNext]_allVars PROVE LabInv'
  OBVIOUS
<1>1. TypeOK'
  BY LabStepIsAServiceStep, TypeStep DEF LabInv
<1>2. CASE CredentialNext
  <2>1. UNCHANGED <<gate, auditCall, targetCall, reply, effects>>
    BY <1>2 DEF CredentialNext, labVars, calls, stores
  <2>2. \A a \in Access : AccessOK(a)'
    BY <1>2, ServiceKeepsAccesses
  <2>3. QED
    BY <1>1, <2>1, <2>2 DEF LabInv, LabFunctions
<1>3. CASE \E b \in Access : (\E q \in Question : GatewayBegin(b, q)) \/ GatewayStep(b) \/ BaselineBegin(b)
  BY <1>1, <1>3, GatewayKeepsInv DEF LabInv
<1>4. CASE \/ \E b \in Access : AuditRecord(b) \/ TargetPending(b) \/ TargetApply(b)
           \/ PolicyStopOrStart \/ AuditStop \/ AuditStart \/ UNCHANGED allVars
  BY <1>1, <1>4, CalledKeepsInv DEF LabInv
<1>5. QED
  BY <1>2, <1>3, <1>4 DEF LabNext

\* Every reachable state of the lab satisfies the inductive invariant.
THEOREM LabInvariance == LabSpec => []LabInv
<1>1. LabInit => LabInv
  <2> SUFFICES ASSUME LabInit PROVE LabInv
    OBVIOUS
  <2>1. TypeOK
    BY InitIInv DEF LabInit, IInv
  <2>2. NoReply \in Reply /\ NoReply.decision = "none"
    BY DEF NoReply, Reply
  <2>3. \A a \in Access : access[a].pc = "idle"
    BY DEF LabInit, Init, IdleAccess
  <2>4. QED
    BY <2>1, <2>2, <2>3 DEF LabInit, LabInv, LabFunctions, AccessOK, PlaceOK, CallOK, ReplyOK
<1>2. QED
  BY <1>1, LabStepKeepsInv, PTL DEF LabSpec

\* What a gateway caused was checked and audited before (service.py, GatewayHandler).
THEOREM EffectsAreCheckedAndAudited == LabSpec => []EffectIsCheckedAndAudited
<1>1. LabInv => EffectIsCheckedAndAudited
  BY DEF LabInv, AccessOK, CallOK, EffectIsCheckedAndAudited, Guarded
<1>2. QED
  BY <1>1, LabInvariance, PTL

\* A refusal, and a failure before the target was called, never has an effect
\* (service.py, GatewayHandler and BaselineHandler).
THEOREM RefusalsHaveNoEffect == LabSpec => []RefusalHasNoEffect
<1>1. LabInv => RefusalHasNoEffect
  BY DEF LabInv, AccessOK, ReplyOK, RefusalHasNoEffect
<1>2. QED
  BY <1>1, LabInvariance, PTL

\* The two together: effects and answers can be accounted for.
THEOREM EffectsStayAccountable == LabSpec => []EffectsAreAccountable
<1>1. EffectIsCheckedAndAudited /\ RefusalHasNoEffect => EffectsAreAccountable
  BY DEF EffectsAreAccountable
<1>2. QED
  BY <1>1, EffectsAreCheckedAndAudited, RefusalsHaveNoEffect, PTL
==============================================================================
