-------------------------- MODULE HeroWritesProofs ---------------------------
(***************************************************************************)
(* Proofs about HeroWrites, for any number of requests, records, callers   *)
(* and values; the last part is about what they leave behind, the events   *)
(* they published and the commits of their conditional writes, against the *)
(* log of each record.                                                     *)
(***************************************************************************)
EXTENDS HeroWrites, TLAPS

USE DEF Ids, Verbs, IfMatch, Places, Refusals, Answers, Flaws, NoId

(* Every request past its start carries one of the inputs, and one at its  *)
(* If-Match read is conditional.                                           *)
Carried ==
  \A s \in Slots :
    /\ pc[s] # "idle" => req[s] \in Inputs
    /\ pc[s] = "match" => IsConditional(req[s])

(* The sequence is ahead of every record.                                  *)
Allocated == \A i \in Ids : heroes[i] # Absent => i < nextId

Base == TypeOK /\ Carried /\ Allocated

-----------------------------------------------------------------------------
(* What one statement does, whichever action runs it.                      *)

(* A statement whose request is an input keeps the types of the table.     *)
LEMMA StatementType ==
  ASSUME Base, NEW s \in Slots, pc[s] # "idle", RunStatement(s)
  PROVE  /\ heroes' \in [Ids -> {Absent} \cup Row]
         /\ nextId' \in Nat
         /\ log' \in [Ids -> Seq(Commit)]
         /\ Allocated'
PROOF
<1> DEFINE q == req[s]  S == Targets(q)
<1>1. q \in Inputs /\ q \in Request /\ stamp[s] \in Nat /\ nextId \in Nat
  BY HeroWritesAssumption DEF Base, Carried, TypeOK
<1>2. ASSUME NEW i \in Ids, i \in S, q.verb = "create"
      PROVE  Created(q, stamp[s]) \in Row
  BY <1>1, <1>2, HeroWritesAssumption DEF Request, Created, Row
<1>3. ASSUME NEW i \in Ids, i \in S, q.verb # "create"
      PROVE  Written(heroes[i], q, stamp[s]) \in Row
  <2>1. heroes[i] \in Row
    BY <1>3 DEF Base, TypeOK, Targets, Matched
  <2>2. q.value \in Values \cup {Unset}
    BY <1>1 DEF Request
  <2> QED
    BY <1>1, <2>1, <2>2 DEF Written, Row
<1>4. heroes' \in [Ids -> {Absent} \cup Row]
  BY <1>2, <1>3 DEF RunStatement, Base, TypeOK
<1>5. nextId' \in Nat
  BY <1>1 DEF RunStatement
<1>6. log' \in [Ids -> Seq(Commit)]
  <2>1. [by |-> s, verb |-> q.verb, at |-> stamp[s]] \in Commit
    BY <1>1 DEF Commit, Request
  <2> QED
    BY <2>1 DEF RunStatement, Base, TypeOK
<1>7. Allocated'
  <2>1. CASE q.verb = "create"
    BY <1>1, <2>1 DEF RunStatement, Base, Allocated, Targets
  <2>2. CASE q.verb # "create"
    BY <1>1, <2>2 DEF RunStatement, Base, Allocated, Targets, Matched
  <2> QED
    BY <2>1, <2>2
<1> QED
  BY <1>4, <1>5, <1>6, <1>7

(* An action that leaves the table alone keeps Allocated.                  *)
LEMMA TableUnchanged ==
  ASSUME Base, UNCHANGED table
  PROVE  /\ heroes' \in [Ids -> {Absent} \cup Row]
         /\ nextId' \in Nat
         /\ log' \in [Ids -> Seq(Commit)]
         /\ Allocated'
PROOF
  BY DEF Base, TypeOK, Allocated, table

-----------------------------------------------------------------------------
(* Types.                                                                  *)

(* The first state is typed and carries nothing.                           *)
LEMMA BaseInit == Init => Base
PROOF
<1> SUFFICES ASSUME Init PROVE Base
  OBVIOUS
<1>1. heroes \in [Ids -> {Absent} \cup Row] /\ nextId \in Nat
  BY HeroWritesAssumption DEF Init
<1>2. log \in [Ids -> Seq(Commit)]
  <2>1. \A v \in Verbs : [by |-> Past, verb |-> v, at |-> 0] \in Commit
    BY DEF Commit
  <2> QED
    BY <1>1, <2>1 DEF Init
<1>3. Carried /\ Allocated
  BY DEF Init, Carried, Allocated
<1> QED
  BY <1>1, <1>2, <1>3 DEF Init, Base, TypeOK

(* Every step keeps types, and what a slot carries.                        *)
LEMMA BaseNext == Base /\ [Next]_vars => Base'
PROOF
<1> SUFFICES ASSUME Base, [Next]_vars PROVE Base'
  OBVIOUS
<1> USE DEF Base
<1>1. CASE UNCHANGED vars
  BY <1>1 DEF vars, TypeOK, Carried, Allocated
<1>2. ASSUME NEW s \in Slots, NEW q \in Inputs, Receive(s, q) PROVE Base'
  BY <1>2, TableUnchanged, ZenonT(40) DEF Receive, Respond, Resolve, Goto, TypeOK, Carried
<1>3. ASSUME NEW s \in Slots, EnforceIfMatch(s) PROVE Base'
  <2>1. req[s] \in Request
    BY <1>3, HeroWritesAssumption DEF EnforceIfMatch, Carried
  <2>2. seen' \in [Slots -> Nat]
    <3>1. req[s].id \in Ids
      BY <1>3, <2>1 DEF EnforceIfMatch, Carried, IsConditional, Request
    <3>2. Len(log[req[s].id]) \in Nat
      BY <3>1 DEF TypeOK
    <3> QED
      BY <1>3, <3>2 DEF EnforceIfMatch, TypeOK
  <2> QED
    BY <1>3, <2>2, TableUnchanged
    DEF EnforceIfMatch, Respond, Resolve, Goto, TypeOK, Carried
<1>4. ASSUME NEW s \in Slots, CountMatched(s) PROVE Base'
  BY <1>4, TableUnchanged DEF CountMatched, Respond, Goto, TypeOK, Carried
<1>5. ASSUME NEW s \in Slots, TakeStamp(s) PROVE Base'
  BY <1>5, TableUnchanged DEF TakeStamp, Goto, TypeOK, Carried
<1>6. ASSUME NEW s \in Slots, Execute(s) PROVE Base'
  <2>1. Targets(req[s]) \subseteq Ids
    BY <1>6 DEF Execute, Targets, Matched, RunStatement
  <2> QED
    BY <1>6, <2>1, StatementType
    DEF Execute, Returned, Respond, Goto, TypeOK, Carried
<1>7. ASSUME NEW s \in Slots, ExecuteFails(s) PROVE Base'
  BY <1>7, StatementType, TableUnchanged
  DEF ExecuteFails, Respond, Goto, TypeOK, Carried
<1>8. ASSUME NEW s \in Slots, Publish(s) PROVE Base'
  <2>1. req[s].verb \in Verbs /\ hit[s] \in SUBSET Ids
    BY <1>8, HeroWritesAssumption DEF Publish, Carried, TypeOK, Request
  <2>2. <<s, req[s].verb, hit[s]>> \in Slots \X Verbs \X SUBSET Ids
    BY <2>1
  <2>3. events' \in SUBSET (Slots \X Verbs \X SUBSET Ids)
    BY <1>8, <2>2 DEF Publish, TypeOK
  <2> QED
    BY <1>8, <2>3, TableUnchanged DEF Publish, Respond, Goto, TypeOK, Carried
<1>9. ASSUME NEW s \in Slots, Drop(s) PROVE Base'
  BY <1>9, TableUnchanged DEF Drop, Goto, TypeOK, Carried
<1>10. ASSUME NEW s \in Slots, OrphanExecute(s) PROVE Base'
  BY <1>10, StatementType DEF OrphanExecute, Goto, TypeOK, Carried
<1> QED
  BY <1>1, <1>2, <1>3, <1>4, <1>5, <1>6, <1>7, <1>8, <1>9, <1>10 DEF Next

(* Base holds throughout.                                                  *)
LEMMA BaseInvariant == Spec => []Base
PROOF
  BY BaseInit, BaseNext, PTL DEF Spec

(* Every variable of the write handlers keeps its type; a statement writes *)
(* whole rows, and an update that leaves a field out writes no gap.        *)
THEOREM TypeCorrect == Spec => []TypeOK
PROOF
<1>1. Base => TypeOK
  BY DEF Base
<1> QED
  BY <1>1, BaseInvariant, PTL

-----------------------------------------------------------------------------
(* Checks come before the write, and a refusal is never after it.          *)

Passed == {"match", "count", "write", "execute", "publish", "orphan"}

BeforeWrite == {"idle", "match", "count", "write", "execute", "orphan"}

(* A request past its checks passed them.                                  *)
Cleared ==
  \A s \in Slots :
    pc[s] \in Passed =>
      req[s].role \in RolesFor(req[s]) /\ req[s].flaw = "none"

(* A request that has not written has no commit, and only a finished one   *)
(* has an answer.                                                          *)
Untouched ==
  \A s \in Slots :
    /\ pc[s] \in BeforeWrite => \A i \in Ids : CommitsOf(s, i) = {}
    /\ answer[s] # "none" => pc[s] = "done"

(* A record somebody wrote is there.                                       *)
WrittenExist ==
  \A s \in Slots, i \in Ids : CommitsOf(s, i) # {} => heroes[i] # Absent

ChecksInv ==
  /\ Cleared
  /\ Untouched
  /\ WrittenExist
  /\ OnlyAuthorisedWrites
  /\ RefusedLeavesNoTrace

(* A statement keeps the owner of every record and gives its own subject   *)
(* to each record it writes.                                               *)
LEMMA StatementOwners ==
  ASSUME Base, NEW s \in Slots, pc[s] # "idle", RunStatement(s), NEW i \in Ids
  PROVE  /\ heroes[i] # Absent =>
              heroes'[i] # Absent /\ heroes'[i].owner = heroes[i].owner
         /\ i \in Targets(req[s]) =>
              heroes'[i] # Absent /\ heroes'[i].owner = req[s].sub
PROOF
<1> DEFINE q == req[s]  S == Targets(q)
<1>0. q \in Request /\ stamp[s] \in Nat /\ heroes[i] \in {Absent} \cup Row
  BY HeroWritesAssumption DEF Base, Carried, TypeOK
<1>1. heroes'[i] = IF i \notin S THEN heroes[i]
                   ELSE IF q.verb = "create" THEN Created(q, stamp[s])
                   ELSE Written(heroes[i], q, stamp[s])
  BY DEF RunStatement
<1>2. heroes'[i] \in {Absent} \cup Row
  BY StatementType
<1>3. CASE i \notin S
  BY <1>1, <1>3
<1>4. CASE i \in S /\ q.verb = "create"
  <2>1. heroes[i] = Absent
    BY <1>4 DEF Base, Allocated, Targets, TypeOK
  <2>2. Created(q, stamp[s]).owner = q.sub /\ Created(q, stamp[s]) \in Row
    BY <1>0, <1>4, HeroWritesAssumption
    DEF Created, Row, Request, Base, Carried
  <2> QED
    BY <1>1, <1>4, <2>1, <2>2, HeroWritesAssumption
<1>5. CASE i \in S /\ q.verb # "create"
  <2>1. heroes[i] \in Row /\ heroes[i].owner = q.sub
    BY <1>0, <1>5 DEF Targets, Matched
  <2>2. /\ Written(heroes[i], q, stamp[s]) \in Row
        /\ Written(heroes[i], q, stamp[s]).owner = heroes[i].owner
    BY <1>0, <2>1 DEF Written, Row, Request
  <2> QED
    BY <1>1, <1>5, <2>1, <2>2, HeroWritesAssumption
<1> QED
  BY <1>3, <1>4, <1>5

(* A statement adds a commit of its own to each record it writes, and no   *)
(* other.                                                                  *)
LEMMA StatementCommits ==
  ASSUME Base, NEW s \in Slots, pc[s] # "idle", RunStatement(s),
         NEW r \in Slots, NEW i \in Ids
  PROVE  CommitsOf(r, i)' # {} =>
           CommitsOf(r, i) # {} \/ (r = s /\ i \in Targets(req[s]))
PROOF
<1> DEFINE c == [by |-> s, verb |-> req[s].verb, at |-> stamp[s]]
<1>1. log[i] \in Seq(Commit) /\ c \in Commit
  BY HeroWritesAssumption, ZenonT(40) DEF Base, Carried, TypeOK, Commit, Request
<1>2. CASE i \notin Targets(req[s])
  BY <1>2 DEF RunStatement, CommitsOf
<1>3. CASE i \in Targets(req[s])
  <2>1. log'[i] = Append(log[i], c)
    BY <1>3 DEF RunStatement
  <2>2. \A k \in DOMAIN log'[i] : k \in DOMAIN log[i] => log'[i][k] = log[i][k]
    BY <1>1, <2>1
  <2>3. \A k \in DOMAIN log'[i] : k \notin DOMAIN log[i] => log'[i][k] = c
    BY <1>1, <2>1
  <2> QED
    BY <1>3, <2>2, <2>3 DEF CommitsOf
<1> QED
  BY <1>2, <1>3

(* At first no request is past a check and nothing is logged.              *)
LEMMA ChecksInit == Init => ChecksInv
PROOF
<1> SUFFICES ASSUME Init PROVE ChecksInv
  OBVIOUS
<1>1. \A s \in Slots, i \in Ids : CommitsOf(s, i) = {}
  BY HeroWritesAssumption DEF Init, CommitsOf
<1> QED
  BY <1>1 DEF Init, ChecksInv, Cleared, Untouched, WrittenExist, Passed,
              OnlyAuthorisedWrites, RefusedLeavesNoTrace

(* A step that leaves the table alone changes nobody's commits.            *)
LEMMA SameCommits ==
  ASSUME UNCHANGED table, NEW r \in Slots, NEW i \in Ids
  PROVE  CommitsOf(r, i)' = CommitsOf(r, i) /\ heroes'[i] = heroes[i]
PROOF
  BY DEF CommitsOf, table

(* A statement of a cleared request keeps the parts about records.         *)
LEMMA StatementAuthorised ==
  ASSUME Base, ChecksInv, NEW s \in Slots, pc[s] \in {"execute", "orphan"},
         RunStatement(s), UNCHANGED req
  PROVE  WrittenExist' /\ OnlyAuthorisedWrites'
PROOF
<1>1. pc[s] # "idle" /\ pc[s] \in Passed
  BY DEF Passed
<1>2. ASSUME NEW r \in Slots, NEW i \in Ids, CommitsOf(r, i)' # {}
      PROVE  /\ heroes'[i] # Absent
             /\ req[r].role \in RolesFor(req[r])
             /\ req[r].flaw = "none"
             /\ heroes'[i].owner = req[r].sub
  <2>1. CASE CommitsOf(r, i) # {}
    BY <1>1, <2>1, StatementOwners
    DEF ChecksInv, WrittenExist, OnlyAuthorisedWrites
  <2>2. CASE r = s /\ i \in Targets(req[s])
    BY <1>1, <2>2, StatementOwners DEF ChecksInv, Cleared
  <2> QED
    BY <1>1, <1>2, <2>1, <2>2, StatementCommits
<1> QED
  BY <1>2 DEF WrittenExist, OnlyAuthorisedWrites, RolesFor

(* Every step keeps what requests have been checked for.                   *)
LEMMA ChecksNext == Base /\ ChecksInv /\ [Next]_vars => ChecksInv'
PROOF
<1> SUFFICES ASSUME Base, ChecksInv, [Next]_vars PROVE ChecksInv'
  OBVIOUS
<1> USE DEF BeforeWrite
<1>0. pc \in [Slots -> Places] /\ answer \in [Slots -> Answers]
      /\ req \in [Slots -> {NoRequest} \cup Inputs]
  BY DEF Base, TypeOK
<1>1. CASE UNCHANGED vars
  BY <1>1 DEF vars, ChecksInv, Cleared, Untouched, WrittenExist, CommitsOf,
              OnlyAuthorisedWrites, RefusedLeavesNoTrace, RolesFor
<1>2. ASSUME NEW s \in Slots, NEW q \in Inputs, Receive(s, q)
      PROVE  ChecksInv'
  <2>1. \A i \in Ids : CommitsOf(s, i) = {}
    BY <1>2 DEF Receive, ChecksInv, Untouched
  <2>2. UNCHANGED table /\ req' = [req EXCEPT ![s] = q] /\ pc[s] = "idle"
    BY <1>2 DEF Receive
  <2>3. Cleared'
    BY <1>0, <1>2 DEF Receive, Respond, Resolve, Goto, ChecksInv, Cleared,
                      Passed, RolesFor, Extracted, Admitted
  <2>4. Untouched'
    BY <1>0, <1>2, <2>1, <2>2, SameCommits
    DEF Receive, Respond, Resolve, Goto, ChecksInv, Untouched
  <2>5. WrittenExist' /\ OnlyAuthorisedWrites'
    BY <1>0, <2>1, <2>2, SameCommits
    DEF ChecksInv, WrittenExist, OnlyAuthorisedWrites, RolesFor
  <2>6. RefusedLeavesNoTrace'
    BY <1>0, <1>2, <2>1, <2>2, SameCommits
    DEF Receive, Respond, Resolve, Goto, ChecksInv, RefusedLeavesNoTrace
  <2> QED
    BY <2>3, <2>4, <2>5, <2>6 DEF ChecksInv
<1>3. ASSUME NEW s \in Slots,
             EnforceIfMatch(s) \/ CountMatched(s) \/ TakeStamp(s) \/ Drop(s)
      PROVE  ChecksInv'
  <2>1. /\ UNCHANGED <<table, req>>
        /\ pc' \in [Slots -> Places] /\ answer' \in [Slots -> Answers]
        /\ pc[s] \in Passed
        /\ \A r \in Slots \ {s} : pc'[r] = pc[r] /\ answer'[r] = answer[r]
        /\ pc[s] = "publish" => pc'[s] = "dropped"
        /\ answer'[s] # "none" => pc'[s] = "done" \/ answer'[s] = answer[s]
        /\ answer[s] = "none"
    BY <1>0, <1>3 DEF EnforceIfMatch, CountMatched, TakeStamp, Drop, Respond,
                      Resolve, Goto, Passed, ChecksInv, Untouched
  <2>2. pc[s] # "publish" => \A i \in Ids : CommitsOf(s, i) = {}
    BY <2>1 DEF ChecksInv, Untouched, Passed
  <2>3. pc[s] = "publish" => answer'[s] = answer[s]
    BY <1>3 DEF EnforceIfMatch, CountMatched, TakeStamp, Drop
  <2>4. Cleared'
    BY <2>1 DEF ChecksInv, Cleared, Passed, RolesFor
  <2>5. Untouched'
    BY <2>1, <2>2, SameCommits DEF ChecksInv, Untouched
  <2>6. WrittenExist' /\ OnlyAuthorisedWrites'
    BY <2>1, SameCommits DEF ChecksInv, WrittenExist, OnlyAuthorisedWrites, RolesFor
  <2>7. RefusedLeavesNoTrace'
    BY <2>1, <2>2, <2>3, SameCommits DEF ChecksInv, RefusedLeavesNoTrace
  <2> QED
    BY <2>4, <2>5, <2>6, <2>7 DEF ChecksInv
<1>4. ASSUME NEW s \in Slots, Publish(s) PROVE ChecksInv'
  <2>1. /\ UNCHANGED <<table, req>>
        /\ pc[s] = "publish" /\ pc' = [pc EXCEPT ![s] = "done"]
        /\ answer' \in [Slots -> Answers] /\ answer'[s] \in {"ok", "500"}
        /\ \A r \in Slots \ {s} : answer'[r] = answer[r]
    BY <1>0, <1>4 DEF Publish, Respond, Goto
  <2>2. Cleared' /\ Untouched'
    BY <1>0, <2>1, SameCommits DEF ChecksInv, Cleared, Untouched, Passed, RolesFor
  <2>3. WrittenExist' /\ OnlyAuthorisedWrites' /\ RefusedLeavesNoTrace'
    BY <2>1, SameCommits
    DEF ChecksInv, WrittenExist, OnlyAuthorisedWrites, RefusedLeavesNoTrace, RolesFor
  <2> QED
    BY <2>2, <2>3 DEF ChecksInv
<1>5. ASSUME NEW s \in Slots, Execute(s) \/ ExecuteFails(s) \/ OrphanExecute(s)
      PROVE  ChecksInv'
  <2>1. /\ pc[s] \in {"execute", "orphan"} /\ UNCHANGED req
        /\ pc' \in [Slots -> Places] /\ answer' \in [Slots -> Answers]
        /\ pc'[s] \in {"publish", "done", "dropped"}
        /\ \A r \in Slots \ {s} : pc'[r] = pc[r] /\ answer'[r] = answer[r]
        /\ answer'[s] # "none" => pc'[s] = "done"
        /\ RunStatement(s) \/ UNCHANGED table
    BY <1>0, <1>5 DEF Execute, ExecuteFails, OrphanExecute, Respond, Goto,
                      ChecksInv, Untouched
  <2>2. \A i \in Ids : CommitsOf(s, i) = {}
    BY <2>1 DEF ChecksInv, Untouched
  <2>3. answer'[s] \in Refusals => Targets(req[s]) = {} /\ RunStatement(s)
    BY <1>0, <1>5, <2>1 DEF Execute, ExecuteFails, OrphanExecute, Respond, Goto,
                            NotFound, ChecksInv, Untouched
  <2>4. Cleared'
    BY <2>1 DEF ChecksInv, Cleared, Passed, RolesFor
  <2>5. \A r \in Slots \ {s}, i \in Ids :
          CommitsOf(r, i)' # {} => CommitsOf(r, i) # {}
    BY <2>1, StatementCommits, SameCommits
  <2>6. Untouched'
    BY <2>1, <2>5 DEF ChecksInv, Untouched
  <2>7. WrittenExist' /\ OnlyAuthorisedWrites'
    <3>1. CASE RunStatement(s)
      BY <2>1, <3>1, StatementAuthorised
    <3>2. CASE UNCHANGED table
      BY <2>1, <3>2, SameCommits
      DEF ChecksInv, WrittenExist, OnlyAuthorisedWrites, RolesFor
    <3> QED
      BY <2>1, <3>1, <3>2
  <2>8. ASSUME NEW r \in Slots, NEW i \in Ids, answer'[r] \in Refusals
        PROVE  CommitsOf(r, i)' = {}
    <3>1. CASE r = s
      BY <2>1, <2>2, <2>3, <2>8, <3>1, StatementCommits
    <3>2. CASE r # s
      BY <2>1, <2>5, <2>8, <3>2 DEF ChecksInv, RefusedLeavesNoTrace
    <3> QED
      BY <3>1, <3>2
  <2>9. RefusedLeavesNoTrace'
    BY <2>8 DEF RefusedLeavesNoTrace
  <2> QED
    BY <2>4, <2>6, <2>7, <2>9 DEF ChecksInv
<1> QED
  BY <1>1, <1>2, <1>3, <1>4, <1>5 DEF Next

(* ChecksInv holds throughout.                                             *)
LEMMA ChecksInvariant == Spec => []ChecksInv
PROOF
  BY BaseInvariant, ChecksInit, ChecksNext, PTL DEF Spec

(* No record is written except by a request that passed every check, and   *)
(* only by its owner: the WHERE clause carries the owner in the statement  *)
(* that writes, so nothing depends on what was read before.                *)
THEOREM AuthorisedWrites == Spec => []OnlyAuthorisedWrites
PROOF
<1>1. ChecksInv => OnlyAuthorisedWrites
  BY DEF ChecksInv
<1> QED
  BY <1>1, ChecksInvariant, PTL

(* A refused request changed nothing, at whichever step it was refused and *)
(* whatever ran in between.                                                *)
THEOREM NoTraceOfRefused == Spec => []RefusedLeavesNoTrace
PROOF
<1>1. ChecksInv => RefusedLeavesNoTrace
  BY DEF ChecksInv
<1> QED
  BY <1>1, ChecksInvariant, PTL

-----------------------------------------------------------------------------
(* Version stamps.                                                         *)

Pending(s) == pc[s] \in {"execute", "orphan"}

(* A statement on its way carries a stamp of the past, its own, that no    *)
(* commit has.                                                             *)
StampsFresh ==
  \A s \in Slots :
    Pending(s) =>
      /\ stamp[s] <= clock
      /\ \A r \in Slots : Pending(r) /\ stamp[r] = stamp[s] => r = s
      /\ \A i \in Ids : \A k \in DOMAIN log[i] : log[i][k].at # stamp[s]

(* No commit is of the future, and a record that is not there has none.    *)
CommitsPast ==
  \A i \in Ids :
    /\ \A k \in DOMAIN log[i] : log[i][k].at <= clock
    /\ (heroes[i] = Absent) <=> (log[i] = <<>>)

TagsInv == StampsFresh /\ CommitsPast /\ TagsIdentifyVersions

(* What the entries of the log are made of.                                *)
LEMMA CommitTypes ==
  ASSUME Base, NEW i \in Ids, NEW k \in DOMAIN log[i]
  PROVE  log[i][k].at \in Nat
PROOF
<1>1. log[i] \in Seq(Commit)
  BY DEF Base, TypeOK
<1>2. log[i][k] \in Commit
  BY <1>1
<1> QED
  BY <1>2 DEF Commit

(* How a statement moves one record and its commits.                       *)
LEMMA StatementRestamps ==
  ASSUME Base, NEW s \in Slots, pc[s] # "idle", RunStatement(s), NEW i \in Ids
  PROVE  \/ heroes'[i] = heroes[i] /\ log'[i] = log[i]
         \/ /\ i \in Targets(req[s])
            /\ heroes'[i] # Absent /\ heroes'[i].updated = stamp[s]
            /\ Len(log'[i]) = Len(log[i]) + 1
            /\ log'[i][Len(log'[i])].at = stamp[s]
            /\ \A k \in DOMAIN log[i] : log'[i][k] = log[i][k]
            /\ DOMAIN log'[i] = DOMAIN log[i] \cup {Len(log'[i])}
            /\ Len(log'[i]) \notin DOMAIN log[i]
            /\ log'[i] # <<>>
PROOF
<1> DEFINE q == req[s]  S == Targets(q)
           c == [by |-> s, verb |-> q.verb, at |-> stamp[s]]
<1>0. /\ q \in Request /\ stamp[s] \in Nat /\ heroes[i] \in {Absent} \cup Row
      /\ log[i] \in Seq(Commit) /\ c \in Commit
  BY HeroWritesAssumption DEF Base, Carried, TypeOK, Commit, Request
<1>1. CASE i \notin S
  BY <1>1 DEF RunStatement
<1>2. CASE i \in S
  <2>1. log'[i] = Append(log[i], c)
    BY <1>2 DEF RunStatement
  <2>2. heroes'[i].updated = stamp[s]
    <3>1. CASE q.verb = "create"
      BY <1>2, <3>1 DEF RunStatement, Created
    <3>2. CASE q.verb # "create"
      <4>1. heroes[i] \in Row
        BY <1>0, <1>2, <3>2 DEF Targets, Matched
      <4> QED
        BY <1>2, <3>2, <4>1 DEF RunStatement, Written, Row
    <3> QED
      BY <3>1, <3>2
  <2>3. heroes'[i] # Absent
    BY <1>2, StatementOwners
  <2>4. /\ Len(log'[i]) = Len(log[i]) + 1
        /\ log'[i][Len(log'[i])] = c
        /\ \A k \in DOMAIN log[i] : log'[i][k] = log[i][k]
        /\ DOMAIN log'[i] = DOMAIN log[i] \cup {Len(log'[i])}
        /\ Len(log'[i]) \notin DOMAIN log[i]
        /\ log'[i] # <<>>
    BY <1>0, <2>1
  <2> QED
    BY <1>2, <2>2, <2>3, <2>4
<1> QED
  BY <1>1, <1>2

(* At first no stamp is pending or committed.                              *)
LEMMA TagsInit == Init => TagsInv
PROOF
<1> SUFFICES ASSUME Init PROVE TagsInv
  OBVIOUS
<1>1. StampsFresh
  BY DEF Init, StampsFresh, Pending
<1>2. CommitsPast
  BY DEF Init, CommitsPast
<1>3. TagsIdentifyVersions
  <2>1. \A i \in Ids : heroes[i] # Absent => heroes[i].updated = 0
    BY HeroWritesAssumption DEF Init
  <2> QED
    BY <2>1 DEF Init, TagsIdentifyVersions
<1> QED
  BY <1>1, <1>2, <1>3 DEF TagsInv

(* Every step keeps stamps apart and behind the clock.                     *)
LEMMA TagsNext == Base /\ TagsInv /\ [Next]_vars => TagsInv'
PROOF
<1> SUFFICES ASSUME Base, TagsInv, [Next]_vars PROVE TagsInv'
  OBVIOUS
<1>0. /\ pc \in [Slots -> Places] /\ clock \in Nat /\ stamp \in [Slots -> Nat]
      /\ log \in [Ids -> Seq(Commit)]
  BY DEF Base, TypeOK
<1>1. ASSUME UNCHANGED <<table, clock, stamp>>,
             \A r \in Slots : Pending(r)' => Pending(r)
      PROVE  TagsInv'
  BY <1>1 DEF TagsInv, StampsFresh, CommitsPast, TagsIdentifyVersions, table
<1>2. ASSUME NEW s \in Slots, TakeStamp(s) PROVE TagsInv'
  <2>1. /\ UNCHANGED table /\ clock' = clock + 1 /\ stamp'[s] = clock + 1
        /\ \A r \in Slots \ {s} : stamp'[r] = stamp[r] /\ pc'[r] = pc[r]
    BY <1>0, <1>2 DEF TakeStamp, Goto
  <2>2. CommitsPast'
    <3>1. \A i \in Ids : \A k \in DOMAIN log[i] : log[i][k].at \in Nat
      BY CommitTypes
    <3> QED
      BY <1>0, <2>1, <3>1 DEF TagsInv, CommitsPast, table
  <2>3. StampsFresh'
    <3>1. ASSUME NEW r \in Slots, Pending(r)'
          PROVE  /\ stamp'[r] <= clock'
                 /\ \A u \in Slots : Pending(u)' /\ stamp'[u] = stamp'[r] => u = r
                 /\ \A i \in Ids : \A k \in DOMAIN log[i] : log[i][k].at # stamp'[r]
      <4>1. \A u \in Slots \ {s} : Pending(u)' => Pending(u) /\ stamp'[u] <= clock
        BY <2>1 DEF TagsInv, StampsFresh, Pending
      <4>2. \A i \in Ids : \A k \in DOMAIN log[i] :
              log[i][k].at \in Nat /\ log[i][k].at <= clock
        BY CommitTypes DEF TagsInv, CommitsPast
      <4>3. \A u \in Slots : stamp'[u] \in Nat
        BY <1>0, <2>1
      <4>4. CASE r = s
        BY <1>0, <2>1, <4>1, <4>2, <4>3, <4>4
      <4>5. CASE r # s
        <5>1. Pending(r) /\ stamp'[r] = stamp[r] /\ stamp[r] <= clock
          BY <2>1, <3>1, <4>1, <4>5
        <5>2. \A u \in Slots : Pending(u)' /\ stamp'[u] = stamp'[r] => u = r
          BY <1>0, <2>1, <4>1, <4>3, <5>1 DEF TagsInv, StampsFresh
        <5> QED
          BY <1>0, <2>1, <5>1, <5>2 DEF TagsInv, StampsFresh
      <4> QED
        BY <4>4, <4>5
    <3> QED
      BY <2>1, <3>1 DEF StampsFresh, table
  <2>4. TagsIdentifyVersions'
    BY <2>1 DEF TagsInv, TagsIdentifyVersions, table
  <2> QED
    BY <2>2, <2>3, <2>4 DEF TagsInv
<1>3. ASSUME NEW s \in Slots, Pending(s), RunStatement(s), ~Pending(s)',
             UNCHANGED <<clock, stamp>>,
             \A r \in Slots \ {s} : pc'[r] = pc[r]
      PROVE  TagsInv'
  <2>1. pc[s] # "idle" /\ stamp[s] \in Nat /\ stamp[s] <= clock
    BY <1>0, <1>3 DEF Pending, TagsInv, StampsFresh
  <2>2. CommitsPast'
    BY <1>0, <1>3, <2>1, StatementRestamps DEF TagsInv, CommitsPast
  <2>3. StampsFresh'
    <3>1. ASSUME NEW r \in Slots, Pending(r)',
                 NEW i \in Ids, NEW k \in DOMAIN log'[i]
          PROVE  log'[i][k].at # stamp[r]
      <4>1. r # s /\ Pending(r) /\ stamp[r] # stamp[s]
        BY <1>3, <3>1 DEF Pending, TagsInv, StampsFresh
      <4>2. CASE log'[i] = log[i]
        BY <3>1, <4>1, <4>2 DEF TagsInv, StampsFresh
      <4>3. CASE k = Len(log'[i]) /\ log'[i][k].at = stamp[s]
        BY <4>1, <4>3
      <4>4. CASE k \in DOMAIN log[i] /\ log'[i][k] = log[i][k]
        BY <4>1, <4>4 DEF TagsInv, StampsFresh
      <4> QED
        BY <1>3, <2>1, <4>2, <4>3, <4>4, StatementRestamps
    <3>2. \A r \in Slots : Pending(r)' => Pending(r)
      BY <1>3 DEF Pending
    <3> QED
      BY <1>3, <3>1, <3>2 DEF TagsInv, StampsFresh
  <2>4. TagsIdentifyVersions'
    <3>1. \A i \in Ids : \A k \in DOMAIN log[i] : log[i][k].at # stamp[s]
      BY <1>3 DEF TagsInv, StampsFresh
    <3>2. ASSUME NEW i \in Ids
          PROVE  /\ \A j, k \in DOMAIN log'[i] :
                      log'[i][j].at = log'[i][k].at => j = k
                 /\ heroes'[i] # Absent =>
                      heroes'[i].updated = log'[i][Len(log'[i])].at
      <4>1. CASE heroes'[i] = heroes[i] /\ log'[i] = log[i]
        BY <4>1 DEF TagsInv, TagsIdentifyVersions
      <4> DEFINE n == Len(log'[i])
      <4>2. CASE /\ heroes'[i].updated = stamp[s]
                 /\ log'[i][n].at = stamp[s] /\ n \notin DOMAIN log[i]
                 /\ \A k \in DOMAIN log[i] : log'[i][k] = log[i][k]
                 /\ DOMAIN log'[i] = DOMAIN log[i] \cup {n}
        BY <3>1, <4>2 DEF TagsInv, TagsIdentifyVersions
      <4> HIDE DEF n
      <4> QED
        BY <1>3, <2>1, <4>1, <4>2, StatementRestamps DEF n
    <3> QED
      BY <3>2 DEF TagsIdentifyVersions
  <2> QED
    BY <2>2, <2>3, <2>4 DEF TagsInv
<1>4. CASE UNCHANGED vars
  BY <1>1, <1>4 DEF vars, table, Pending
<1>5. ASSUME NEW s \in Slots,
             \/ \E q \in Inputs : Receive(s, q)
             \/ EnforceIfMatch(s) \/ CountMatched(s) \/ Publish(s) \/ Drop(s)
      PROVE  TagsInv'
  <2>1. UNCHANGED <<table, clock, stamp>>
    BY <1>5 DEF Receive, EnforceIfMatch, CountMatched, Publish, Drop
  <2>2. \A r \in Slots : Pending(r)' => Pending(r)
    BY <1>0, <1>5 DEF Receive, EnforceIfMatch, CountMatched, Publish, Drop,
                      Respond, Resolve, Goto, Pending
  <2> QED
    BY <1>1, <2>1, <2>2
<1>6. ASSUME NEW s \in Slots, Execute(s) \/ ExecuteFails(s) \/ OrphanExecute(s)
      PROVE  TagsInv'
  <2>1. /\ Pending(s) /\ ~Pending(s)' /\ UNCHANGED <<clock, stamp>>
        /\ \A r \in Slots \ {s} : pc'[r] = pc[r]
        /\ RunStatement(s) \/ UNCHANGED table
    BY <1>0, <1>6 DEF Execute, ExecuteFails, OrphanExecute, Respond, Goto, Pending
  <2>2. \A r \in Slots : Pending(r)' => Pending(r)
    BY <2>1 DEF Pending
  <2> QED
    BY <1>1, <1>3, <2>1, <2>2
<1> QED
  BY <1>2, <1>4, <1>5, <1>6 DEF Next

(* TagsInv holds throughout.                                               *)
LEMMA TagsInvariant == Spec => []TagsInv
PROOF
  BY BaseInvariant, TagsInit, TagsNext, PTL DEF Spec

(* A strong tag names one version of a record, whatever the order in which *)
(* stamps are taken and statements run: updated_at may go back in time,    *)
(* and still never returns to a value it had.                              *)
THEOREM TagsAreVersions == Spec => []TagsIdentifyVersions
PROOF
<1>1. TagsInv => TagsIdentifyVersions
  BY DEF TagsInv
<1> QED
  BY <1>1, TagsInvariant, PTL

-----------------------------------------------------------------------------
(* HeroWrites implements HeroStore.                                        *)

(* What a statement about to be announced returned is still committed, and *)
(* still archived if it was a delete: nothing restores a record.           *)
HitsCommitted ==
  \A s \in Slots :
    pc[s] = "publish" =>
      \A i \in hit[s] :
        heroes[i] # Absent /\ (req[s].verb = "delete" => ~heroes[i].live)

(* A statement leaves an archived record as it is, and a delete archives   *)
(* what it writes.                                                         *)
LEMMA StatementArchives ==
  ASSUME Base, NEW s \in Slots, pc[s] # "idle", RunStatement(s), NEW i \in Ids
  PROVE  /\ heroes[i] # Absent /\ ~heroes[i].live => heroes'[i] = heroes[i]
         /\ i \in Targets(req[s]) /\ req[s].verb = "delete" => ~heroes'[i].live
PROOF
<1>1. req[s].verb = "create" => heroes[nextId] = Absent
  BY DEF Base, Allocated, TypeOK, RunStatement
<1>2. i \in Targets(req[s]) => heroes[i] = Absent \/ heroes[i].live
  BY <1>1 DEF Targets, Matched
<1>3. ASSUME i \in Targets(req[s]), req[s].verb = "delete"
      PROVE  ~heroes'[i].live
  <2>1. heroes[i] \in Row
    BY <1>3 DEF Targets, Matched, Base, TypeOK
  <2> QED
    BY <1>3, <2>1 DEF RunStatement, Written, Row
<1> QED
  BY <1>2, <1>3 DEF RunStatement

(* Every step keeps what the ids held by a slot stand for.                 *)
LEMMA HitsNext == Base /\ HitsCommitted /\ [Next]_vars => HitsCommitted'
PROOF
<1> SUFFICES ASSUME Base, HitsCommitted, [Next]_vars PROVE HitsCommitted'
  OBVIOUS
<1>0. /\ pc \in [Slots -> Places] /\ hit \in [Slots -> SUBSET Ids]
      /\ req \in [Slots -> {NoRequest} \cup Inputs]
  BY DEF Base, TypeOK
<1>1. ASSUME NEW s \in Slots, UNCHANGED <<heroes, hit>>,
             \A r \in Slots :
               pc'[r] = "publish" => pc[r] = "publish" /\ req'[r] = req[r]
      PROVE  HitsCommitted'
  BY <1>1 DEF HitsCommitted
<1>2. CASE UNCHANGED vars
  BY <1>2 DEF vars, table, HitsCommitted
<1>3. ASSUME NEW s \in Slots,
             \/ \E q \in Inputs : Receive(s, q)
             \/ EnforceIfMatch(s) \/ CountMatched(s) \/ TakeStamp(s)
             \/ Publish(s) \/ Drop(s)
      PROVE  HitsCommitted'
  <2>1. UNCHANGED <<heroes, hit>>
    BY <1>3 DEF Receive, EnforceIfMatch, CountMatched, TakeStamp, Publish,
                Drop, table
  <2>2. \A r \in Slots :
          pc'[r] = "publish" => pc[r] = "publish" /\ req'[r] = req[r]
    BY <1>0, <1>3 DEF Receive, EnforceIfMatch, CountMatched, TakeStamp,
                      Publish, Drop, Respond, Resolve, Goto
  <2> QED
    BY <1>1, <2>1, <2>2
<1>4. ASSUME NEW s \in Slots, Execute(s) \/ ExecuteFails(s) \/ OrphanExecute(s)
      PROVE  HitsCommitted'
  <2>1. /\ pc[s] \in {"execute", "orphan"} /\ UNCHANGED req
        /\ RunStatement(s) \/ UNCHANGED table
        /\ \A r \in Slots \ {s} : pc'[r] = pc[r] /\ hit'[r] = hit[r]
        /\ pc'[s] = "publish" => hit'[s] = Targets(req[s]) /\ RunStatement(s)
    BY <1>0, <1>4 DEF Execute, ExecuteFails, OrphanExecute, Respond, Goto,
                      Returned
  <2>2. ASSUME NEW r \in Slots, pc'[r] = "publish", NEW i \in hit'[r]
        PROVE  heroes'[i] # Absent /\ (req[r].verb = "delete" => ~heroes'[i].live)
    <3>1. CASE r = s
      <4>1. i \in Ids
        BY <2>1, <2>2, <3>1 DEF Targets, Matched, RunStatement
      <4> QED
        BY <2>1, <2>2, <3>1, <4>1, StatementArchives, StatementOwners
    <3>2. CASE r # s
      <4>1. /\ i \in Ids /\ heroes[i] # Absent
            /\ req[r].verb = "delete" => ~heroes[i].live
        BY <1>0, <2>1, <2>2, <3>2 DEF HitsCommitted
      <4> QED
        BY <2>1, <4>1, StatementArchives, StatementOwners DEF table
    <3> QED
      BY <3>1, <3>2
  <2> QED
    BY <2>1, <2>2 DEF HitsCommitted
<1> QED
  BY <1>2, <1>3, <1>4 DEF Next

(* HitsCommitted holds throughout.                                         *)
LEMMA HitsInvariant == Spec => []HitsCommitted
PROOF
<1>1. Init => HitsCommitted
  BY DEF Init, HitsCommitted
<1> QED
  BY <1>1, BaseInvariant, HitsNext, PTL DEF Spec

(* One statement is one step of the abstract store.                        *)
LEMMA StatementRefines ==
  ASSUME Base, TagsInv, NEW s \in Slots, Pending(s), RunStatement(s),
         UNCHANGED events
  PROVE  Store!Next
PROOF
<1> DEFINE q == req[s]  S == Targets(q)
<1>0. /\ pc[s] # "idle" /\ q \in Request /\ stamp[s] \in Nat
      /\ heroes \in [Ids -> {Absent} \cup Row]
      /\ heroes' \in [Ids -> {Absent} \cup Row]
  BY HeroWritesAssumption, StatementType DEF Pending, Base, Carried, TypeOK
<1>1. CASE q.verb = "create"
  <2>1. nextId \in Ids /\ heroes[nextId] = Absent
    BY <1>1 DEF RunStatement, Base, Allocated, TypeOK
  <2>2. heroes' = [i \in Ids |-> IF i # nextId THEN heroes[i]
                                 ELSE Created(q, stamp[s])]
    BY <1>1 DEF RunStatement, Targets
  <2>3. Created(q, stamp[s]) \in Row /\ Created(q, stamp[s]).live
    BY <1>0, <1>1, HeroWritesAssumption
    DEF Created, Row, Request, Base, Carried
  <2>4. heroes' = [heroes EXCEPT ![nextId] = heroes'[nextId]]
    BY <1>0, <2>1, <2>2
  <2>5. heroes'[nextId] \in Row /\ heroes'[nextId].live
    BY <2>1, <2>2, <2>3
  <2> QED
    BY <2>1, <2>4, <2>5 DEF Store!Next, Store!Create, Store!Exists, Store!Row, Row,
                       Store!Ids
<1>2. CASE q.verb # "create"
  <2>1. q.sub \in Subjects /\ S \in SUBSET Ids
    BY <1>0, <1>2 DEF Request, Targets, Matched
  <2>2. \A i \in Ids \ S : heroes'[i] = heroes[i]
    BY DEF RunStatement
  <2>3. ASSUME NEW i \in S
        PROVE  /\ heroes[i] # Absent /\ heroes[i].live /\ heroes[i].owner = q.sub
               /\ heroes'[i] # Absent /\ heroes'[i].owner = q.sub
               /\ heroes'[i].updated # heroes[i].updated
    <3>1. i \in Ids /\ heroes[i] # Absent /\ heroes[i].live
          /\ heroes[i].owner = q.sub
      BY <1>2, <2>3 DEF Targets, Matched
    <3>2. log[i] \in Seq(Commit) /\ log[i] # <<>>
      BY <3>1 DEF Base, TypeOK, TagsInv, CommitsPast
    <3>3. heroes[i].updated = log[i][Len(log[i])].at /\ Len(log[i]) \in DOMAIN log[i]
      BY <3>1, <3>2 DEF TagsInv, TagsIdentifyVersions
    <3>4. heroes[i].updated # stamp[s]
      BY <3>1, <3>3 DEF TagsInv, StampsFresh
    <3>5. heroes'[i].updated = stamp[s]
      <4>1. Written(heroes[i], q, stamp[s]).updated = stamp[s]
        BY <1>0, <3>1 DEF Written, Row
      <4> QED
        BY <1>2, <2>3, <3>1, <4>1 DEF RunStatement
    <3> QED
      BY <1>0, <2>3, <3>1, <3>4, <3>5, StatementOwners
  <2>4. Store!Change(S, q.sub)
    BY <1>0, <2>1, <2>2, <2>3
    DEF Store!Change, Store!OwnedLive, Store!Exists, Store!Row, Row, Store!Ids
  <2> QED
    BY <2>1, <2>4 DEF Store!Next, Store!Ids
<1> QED
  BY <1>1, <1>2

(* An event the bus accepts is one announcement of the abstract store.     *)
LEMMA PublishRefines ==
  ASSUME Base, HitsCommitted, NEW s \in Slots, Publish(s)
  PROVE  Store!Next \/ UNCHANGED Store!vars
PROOF
<1> DEFINE q == req[s]  e == <<s, q.verb, hit[s]>>
           Pairs(x) == {<<x[2], i>> : i \in x[3]}
           Ann(E) == UNION {Pairs(x) : x \in E}
<1>1. q.verb \in Verbs /\ hit[s] \in SUBSET Ids /\ pc[s] = "publish"
      /\ UNCHANGED heroes
  BY HeroWritesAssumption DEF Publish, Base, Carried, TypeOK, Request, table
<1>2. CASE events' = events
  BY <1>1, <1>2 DEF Store!vars
<1>3. CASE events' = events \cup {e}
  <2>1. Ann(events') = Ann(events) \cup {<<q.verb, i>> : i \in hit[s]}
    <3>1. Pairs(e) = {<<q.verb, i>> : i \in hit[s]}
      OBVIOUS
    <3> HIDE DEF Pairs, e
    <3>2. {Pairs(x) : x \in events \cup {e}} =
            {Pairs(x) : x \in events} \cup {Pairs(e)}
      OBVIOUS
    <3> QED
      BY <1>3, <3>1, <3>2
  <2>2. \A i \in hit[s] :
          heroes[i] # Absent /\ (q.verb = "delete" => ~heroes[i].live)
    BY <1>1 DEF HitsCommitted
  <2>3. /\ hit[s] \in SUBSET Store!Ids
        /\ q.verb \in {"create", "update", "delete"}
    BY <1>1 DEF Store!Ids
  <2>4. \E S \in SUBSET Store!Ids, action \in {"create", "update", "delete"} :
          Store!Announce(action, S)
    BY <1>1, <2>1, <2>2, <2>3, ZenonT(60) DEF Store!Announce, Store!Exists
  <2> QED
    BY <2>4 DEF Store!Next
<1> QED
  BY <1>2, <1>3 DEF Publish

(* The handlers, interleaved in any way and dropped anywhere, implement    *)
(* the store that changes in single authorised steps and announces only    *)
(* what it holds.                                                          *)
THEOREM Refinement == Spec => ImplementsStore
PROOF
<1>1. Init => Store!Init
  <2> SUFFICES ASSUME Init PROVE Store!Init
    OBVIOUS
  <2>1. heroes \in [Ids -> {Absent} \cup Row] /\ events = {}
    BY HeroWritesAssumption DEF Init
  <2> QED
    BY <2>1 DEF Store!Init, Store!Ids, Store!Row, Row
<1>2. Base /\ TagsInv /\ HitsCommitted /\ [Next]_vars
        => [Store!Next]_(Store!vars)
  <2> SUFFICES ASSUME Base, TagsInv, HitsCommitted, [Next]_vars
               PROVE  Store!Next \/ UNCHANGED Store!vars
    OBVIOUS
  <2>1. CASE UNCHANGED <<heroes, events>>
    BY <2>1 DEF Store!vars
  <2>2. CASE UNCHANGED vars
    BY <2>1, <2>2 DEF vars
  <2>3. ASSUME NEW s \in Slots,
               \/ \E q \in Inputs : Receive(s, q)
               \/ EnforceIfMatch(s) \/ CountMatched(s) \/ TakeStamp(s) \/ Drop(s)
        PROVE  Store!Next \/ UNCHANGED Store!vars
    BY <2>1, <2>3 DEF Receive, EnforceIfMatch, CountMatched, TakeStamp, Drop,
                      table
  <2>4. ASSUME NEW s \in Slots, Publish(s)
        PROVE  Store!Next \/ UNCHANGED Store!vars
    BY <2>4, PublishRefines
  <2>5. ASSUME NEW s \in Slots,
               Execute(s) \/ ExecuteFails(s) \/ OrphanExecute(s)
        PROVE  Store!Next \/ UNCHANGED Store!vars
    <3>1. Pending(s) /\ UNCHANGED events /\ (RunStatement(s) \/ UNCHANGED heroes)
      BY <2>5 DEF Execute, ExecuteFails, OrphanExecute, Pending, table
    <3> QED
      BY <2>1, <3>1, StatementRefines
  <2> QED
    BY <2>2, <2>3, <2>4, <2>5 DEF Next
<1> QED
  BY <1>1, <1>2, BaseInvariant, TagsInvariant, HitsInvariant, PTL
  DEF Spec, ImplementsStore, Store!Spec

-----------------------------------------------------------------------------
(* Events and conditional writes.                                          *)

(* The records a slot's statement changed under a verb.                    *)
CommittedUnder(s, v) ==
  {i \in Ids : \E k \in CommitsOf(s, i) : log[i][k].verb = v}

(* What a statement appends, and where.                                    *)
LEMMA StatementAppends ==
  ASSUME Base, NEW s \in Slots, pc[s] # "idle", RunStatement(s), NEW i \in Ids
  PROVE  \/ i \notin Targets(req[s]) /\ log'[i] = log[i]
         \/ /\ i \in Targets(req[s])
            /\ DOMAIN log'[i] = DOMAIN log[i] \cup {Len(log[i]) + 1}
            /\ Len(log[i]) + 1 \notin DOMAIN log[i]
            /\ \A k \in DOMAIN log[i] : log'[i][k] = log[i][k]
            /\ log'[i][Len(log[i]) + 1].by = s
            /\ log'[i][Len(log[i]) + 1].verb = req[s].verb
PROOF
<1> DEFINE c == [by |-> s, verb |-> req[s].verb, at |-> stamp[s]]
<1>1. log[i] \in Seq(Commit) /\ c \in Commit
  BY HeroWritesAssumption DEF Base, Carried, TypeOK, Commit, Request
<1>2. CASE i \notin Targets(req[s])
  BY <1>2 DEF RunStatement
<1>3. CASE i \in Targets(req[s])
  <2>1. log'[i] = Append(log[i], c)
    BY <1>3 DEF RunStatement
  <2>2. /\ DOMAIN log'[i] = DOMAIN log[i] \cup {Len(log[i]) + 1}
        /\ Len(log[i]) + 1 \notin DOMAIN log[i]
        /\ \A k \in DOMAIN log[i] : log'[i][k] = log[i][k]
        /\ log'[i][Len(log[i]) + 1] = c
    BY <1>1, <2>1
  <2> QED
    BY <1>3, <2>2
<1> QED
  BY <1>2, <1>3

(* A statement leaves the commits of every other slot where they are.      *)
LEMMA OthersCommits ==
  ASSUME Base, NEW s \in Slots, pc[s] # "idle", RunStatement(s),
         NEW r \in Slots, r # s, NEW i \in Ids
  PROVE  /\ CommitsOf(r, i)' = CommitsOf(r, i)
         /\ \A k \in CommitsOf(r, i) : log'[i][k] = log[i][k]
PROOF
  BY StatementAppends DEF CommitsOf

(* The first statement of a slot commits each of its targets once, and     *)
(* nothing else.                                                           *)
LEMMA OwnCommits ==
  ASSUME Base, NEW s \in Slots, pc[s] # "idle", RunStatement(s),
         \A i \in Ids : CommitsOf(s, i) = {}, NEW i \in Ids
  PROVE  /\ i \notin Targets(req[s]) => CommitsOf(s, i)' = {}
         /\ i \in Targets(req[s]) =>
              /\ CommitsOf(s, i)' = {Len(log[i]) + 1}
              /\ log'[i][Len(log[i]) + 1].verb = req[s].verb
PROOF
  BY StatementAppends DEF CommitsOf

-----------------------------------------------------------------------------
(* Events.                                                                 *)

(* A slot about to publish holds the ids it committed, and what was        *)
(* published stays true because the slot writes no more.                   *)
EventsInv ==
  /\ \A s \in Slots :
       pc[s] = "publish" => hit[s] = CommittedUnder(s, req[s].verb)
  /\ \A e \in events :
       e[1] \in Slots /\ pc[e[1]] = "done" /\ e[3] = CommittedUnder(e[1], e[2])

(* Every step keeps events, and slots about to publish, true.              *)
LEMMA EventsNext == Base /\ ChecksInv /\ EventsInv /\ [Next]_vars => EventsInv'
PROOF
<1> SUFFICES ASSUME Base, ChecksInv, EventsInv, [Next]_vars PROVE EventsInv'
  OBVIOUS
<1>0. /\ pc \in [Slots -> Places] /\ hit \in [Slots -> SUBSET Ids]
      /\ req \in [Slots -> {NoRequest} \cup Inputs]
  BY DEF Base, TypeOK
<1>1. CASE UNCHANGED vars
  BY <1>1 DEF vars, EventsInv, CommittedUnder, CommitsOf
<1>2. ASSUME NEW s \in Slots,
             \/ \E q \in Inputs : Receive(s, q)
             \/ EnforceIfMatch(s) \/ CountMatched(s) \/ TakeStamp(s) \/ Drop(s)
      PROVE  EventsInv'
  <2>1. UNCHANGED <<log, hit, events>>
    BY <1>2 DEF Receive, EnforceIfMatch, CountMatched, TakeStamp, Drop, table
  <2>2. \A r \in Slots :
          /\ pc'[r] = "publish" => pc[r] = "publish" /\ req'[r] = req[r]
          /\ pc[r] = "done" => pc'[r] = "done"
    BY <1>0, <1>2 DEF Receive, EnforceIfMatch, CountMatched, TakeStamp, Drop,
                      Respond, Resolve, Goto
  <2>3. \A r \in Slots, v \in Verbs : CommittedUnder(r, v)' = CommittedUnder(r, v)
    BY <2>1 DEF CommittedUnder, CommitsOf
  <2>4. \A e \in events : e[1] \in Slots /\ e[2] \in Verbs
    BY DEF Base, TypeOK
  <2>5. \A r \in Slots : pc[r] = "publish" => req[r].verb \in Verbs
    BY HeroWritesAssumption DEF Base, Carried, Request
  <2> QED
    BY <2>1, <2>2, <2>3, <2>4, <2>5 DEF EventsInv
<1>3. ASSUME NEW s \in Slots, Publish(s) PROVE EventsInv'
  <2> DEFINE e == <<s, req[s].verb, hit[s]>>
  <2>1. /\ UNCHANGED <<log, hit, req>> /\ events' \subseteq events \cup {e}
        /\ pc[s] = "publish" /\ pc' = [pc EXCEPT ![s] = "done"]
    BY <1>3 DEF Publish, Respond, Goto, table
  <2>2. \A r \in Slots, v \in Verbs : CommittedUnder(r, v)' = CommittedUnder(r, v)
    BY <2>1 DEF CommittedUnder, CommitsOf
  <2>3. \A x \in events : x[1] \in Slots /\ x[2] \in Verbs
    BY DEF Base, TypeOK
  <2>4. \A r \in Slots : pc[r] = "publish" => req[r].verb \in Verbs
    BY HeroWritesAssumption DEF Base, Carried, Request
  <2>5. hit[s] = CommittedUnder(s, req[s].verb)'
    BY <2>1, <2>2, <2>4 DEF EventsInv
  <2>6. \A x \in events' :
          x[1] \in Slots /\ pc'[x[1]] = "done"
          /\ x[3] = CommittedUnder(x[1], x[2])'
    <3>1. ASSUME NEW x \in events
          PROVE  x[1] \in Slots /\ pc'[x[1]] = "done"
                 /\ x[3] = CommittedUnder(x[1], x[2])'
      BY <1>0, <2>1, <2>2, <2>3 DEF EventsInv
    <3>2. e[1] = s /\ pc'[s] = "done" /\ e[3] = CommittedUnder(s, req[s].verb)'
      BY <1>0, <2>1, <2>5
    <3> QED
      BY <2>1, <3>1, <3>2
  <2>7. \A r \in Slots :
          pc'[r] = "publish" => hit'[r] = CommittedUnder(r, req[r].verb)'
    BY <1>0, <2>1, <2>2, <2>4 DEF EventsInv
  <2> QED
    BY <2>6, <2>7 DEF EventsInv
<1>4. ASSUME NEW s \in Slots, Execute(s) \/ ExecuteFails(s) \/ OrphanExecute(s)
      PROVE  EventsInv'
  <2>1. /\ pc[s] \in {"execute", "orphan"} /\ UNCHANGED <<req, events>>
        /\ \A r \in Slots \ {s} : pc'[r] = pc[r] /\ hit'[r] = hit[r]
        /\ RunStatement(s) \/ UNCHANGED log
        /\ pc'[s] = "publish" => hit'[s] = Targets(req[s]) /\ RunStatement(s)
    BY <1>0, <1>4 DEF Execute, ExecuteFails, OrphanExecute, Respond, Goto,
                      Returned, table
  <2>2. \A r \in Slots \ {s}, v \in Verbs :
          CommittedUnder(r, v)' = CommittedUnder(r, v)
    <3>1. CASE RunStatement(s)
      BY <2>1, <3>1, OthersCommits DEF CommittedUnder
    <3>2. CASE UNCHANGED log
      BY <3>2 DEF CommittedUnder, CommitsOf
    <3> QED
      BY <2>1, <3>1, <3>2
  <2>3. ASSUME pc'[s] = "publish"
        PROVE  Targets(req[s]) = CommittedUnder(s, req[s].verb)'
    <3>1. \A i \in Ids : CommitsOf(s, i) = {}
      BY <2>1 DEF ChecksInv, Untouched, BeforeWrite
    <3>2. Targets(req[s]) \subseteq Ids
      BY <2>1, <2>3 DEF Targets, Matched, RunStatement
    <3>3. ASSUME NEW i \in Ids
          PROVE  i \in Targets(req[s]) <=>
                   \E k \in CommitsOf(s, i)' : log'[i][k].verb = req[s].verb
      BY <2>1, <2>3, <3>1, OwnCommits
    <3> QED
      BY <2>1, <3>2, <3>3 DEF CommittedUnder
  <2>4. \A x \in events : x[1] \in Slots \ {s} /\ x[2] \in Verbs
    BY <2>1 DEF Base, TypeOK, EventsInv
  <2>5. \A r \in Slots : pc[r] = "publish" => req[r].verb \in Verbs
    BY HeroWritesAssumption DEF Base, Carried, Request
  <2>6. \A x \in events' :
          x[1] \in Slots /\ pc'[x[1]] = "done"
          /\ x[3] = CommittedUnder(x[1], x[2])'
    BY <2>1, <2>2, <2>4 DEF EventsInv
  <2>7. ASSUME NEW r \in Slots, pc'[r] = "publish"
        PROVE  hit'[r] = CommittedUnder(r, req[r].verb)'
    BY <2>1, <2>2, <2>3, <2>5, <2>7 DEF EventsInv
  <2> QED
    BY <2>6, <2>7 DEF EventsInv
<1> QED
  BY <1>1, <1>2, <1>3, <1>4 DEF Next

(* What the bus carried is what was committed: an event is published after *)
(* its statement ran and names every record the statement changed, and no  *)
(* other, also when the statement matched many, whatever runs in between.  *)
THEOREM EventsAreTrue == Spec => []EventsNameCommits
PROOF
<1>1. Init => EventsInv
  BY DEF Init, EventsInv
<1>2. EventsInv => EventsNameCommits
  BY DEF EventsInv, EventsNameCommits, CommittedUnder
<1> QED
  BY <1>1, <1>2, EventsNext, BaseInvariant, ChecksInvariant, PTL DEF Spec

-----------------------------------------------------------------------------
(* Conditional writes.                                                     *)

(* The version the slot's If-Match read saw is one its header accepts, and *)
(* is still in the log.                                                    *)
SawItsTag(s) ==
  LET q == req[s]  i == q.id IN
  /\ seen[s] \in 2..(Len(log[i]) + 1)
  /\ q.ifMatch.kind \in {"any", "strong"}
  /\ q.ifMatch.kind = "strong" => log[i][seen[s] - 1].at = q.ifMatch.at

(* A conditional request that has yet to write either saw no record, or    *)
(* addresses one that is archived by now, or saw what its header names.    *)
TagChecked ==
  \A s \in Slots :
    /\ pc[s] = "count" => ByFilter(req[s])
    /\ pc[s] \in {"write", "execute", "orphan"} /\ IsConditional(req[s]) =>
         \/ seen[s] = 1
         \/ heroes[req[s].id] # Absent /\ ~heroes[req[s].id].live
         \/ SawItsTag(s)

CurrentInv == TagChecked /\ ConditionalWriteWasCurrent

(* The read itself establishes what TagChecked asks for.                   *)
LEMMA MatchSees ==
  ASSUME Base, TagsInv, NEW s \in Slots, EnforceIfMatch(s), pc'[s] # "done"
  PROVE  /\ pc'[s] = "write"
         /\ \/ seen'[s] = 1
            \/ heroes'[req'[s].id] # Absent /\ ~heroes'[req'[s].id].live
            \/ SawItsTag(s)'
PROOF
<1> DEFINE q == req[s]  i == q.id  n == Len(log[i])
<1>1. /\ q \in Request /\ i \in Ids /\ q.id # NoId /\ q.ifMatch \in IfMatch
      /\ log[i] \in Seq(Commit) /\ heroes[i] \in {Absent} \cup Row
      /\ pc \in [Slots -> Places] /\ seen \in [Slots -> Nat]
  BY HeroWritesAssumption
  DEF EnforceIfMatch, Base, Carried, TypeOK, IsConditional, Request
<1>2. /\ UNCHANGED <<heroes, log, req>> /\ seen'[s] = 1 + n /\ n \in Nat
      /\ pc'[s] = "write"
      /\ ~Visible(heroes[i], q.includeArchived) \/ TagMatches(q, heroes[i])
  BY <1>1 DEF EnforceIfMatch, Resolve, Respond, Goto, ByFilter, table
<1>3. CASE heroes[i] = Absent
  <2>1. log[i] = <<>>
    BY <1>1, <1>3 DEF TagsInv, CommitsPast
  <2> QED
    BY <1>2, <2>1
<1>4. CASE heroes[i] # Absent /\ ~heroes[i].live
  BY <1>2, <1>4
<1>5. CASE heroes[i] # Absent /\ heroes[i].live
  <2>1. n \in 1..n /\ heroes[i].updated = log[i][n].at
    BY <1>1, <1>5 DEF TagsInv, CommitsPast, TagsIdentifyVersions
  <2>2. TagMatches(q, heroes[i])
    BY <1>2, <1>5 DEF Visible
  <2>3. q.ifMatch.kind \in {"any", "strong"}
        /\ (q.ifMatch.kind = "strong" => log[i][n].at = q.ifMatch.at)
    BY <2>1, <2>2 DEF TagMatches
  <2>4. seen'[s] \in 2..(n + 1) /\ seen'[s] - 1 = n
    BY <1>2, <2>1
  <2>5. SawItsTag(s)'
    BY <1>2, <2>3, <2>4 DEF SawItsTag
  <2> QED
    BY <1>2, <2>5
<1> QED
  BY <1>2, <1>3, <1>4, <1>5

(* A statement moves nobody else out of TagChecked: versions seen stay in  *)
(* the log and archived records stay archived.                             *)
LEMMA StatementKeepsTags ==
  ASSUME Base, NEW s \in Slots, pc[s] # "idle", RunStatement(s),
         UNCHANGED <<req, seen>>,
         NEW r \in Slots, IsConditional(req[r]), req[r] \in Inputs
  PROVE  /\ SawItsTag(r) => SawItsTag(r)'
         /\ heroes[req[r].id] # Absent /\ ~heroes[req[r].id].live =>
              heroes'[req[r].id] # Absent /\ ~heroes'[req[r].id].live
PROOF
<1> DEFINE i == req[r].id
<1>1. /\ i \in Ids /\ log[i] \in Seq(Commit) /\ log'[i] \in Seq(Commit)
      /\ seen[r] \in Nat
  <2>1. i \in 0..MaxId /\ i # NoId
    BY HeroWritesAssumption DEF IsConditional, Request
  <2>2. i \in Ids
    BY <2>1, HeroWritesAssumption
  <2>3. log' \in [Ids -> Seq(Commit)]
    BY StatementType
  <2> QED
    BY <2>2, <2>3 DEF Base, TypeOK
<1>2. /\ Len(log[i]) <= Len(log'[i])
      /\ \A k \in DOMAIN log[i] : log'[i][k] = log[i][k]
  BY <1>1, StatementRestamps
<1>3. SawItsTag(r) => SawItsTag(r)'
  <2>1. SUFFICES ASSUME SawItsTag(r) PROVE SawItsTag(r)'
    OBVIOUS
  <2>2. seen[r] \in 2..(Len(log[i]) + 1) /\ seen[r] - 1 \in DOMAIN log[i]
    BY <1>1, <2>1 DEF SawItsTag
  <2>3. seen[r] \in 2..(Len(log'[i]) + 1)
    BY <1>1, <1>2, <2>2, SMTT(40)
  <2>4. log'[i][seen[r] - 1] = log[i][seen[r] - 1]
    BY <1>2, <2>2
  <2> QED
    BY <2>1, <2>3, <2>4 DEF SawItsTag
<1> QED
  BY <1>1, <1>3, StatementArchives

(* The commits of a conditional request whose statement runs.              *)
LEMMA StatementWasCurrent ==
  ASSUME Base, TagChecked, NEW s \in Slots, pc[s] \in {"execute", "orphan"},
         RunStatement(s), UNCHANGED <<req, seen>>,
         \A i \in Ids : CommitsOf(s, i) = {},
         IsConditional(req[s]), seen[s] # 1,
         NEW i \in Ids, NEW k \in CommitsOf(s, i)'
  PROVE  /\ seen[s] \in 2..k
         /\ req[s].ifMatch.kind \in {"any", "strong"}
         /\ req[s].ifMatch.kind = "strong" =>
              log'[i][seen[s] - 1].at = req[s].ifMatch.at
PROOF
<1>1. i \in Targets(req[s]) /\ k = Len(log[i]) + 1
  BY OwnCommits
<1>2. i = req[s].id /\ heroes[i].live
  BY <1>1 DEF Targets, Matched, Addressed, IsConditional
<1>3. SawItsTag(s)
  BY <1>2 DEF TagChecked
<1>4. log[i] \in Seq(Commit) /\ seen[s] \in Nat
  BY DEF Base, TypeOK
<1>5. seen[s] - 1 \in DOMAIN log[i]
  BY <1>2, <1>3, <1>4 DEF SawItsTag
<1>6. log'[i][seen[s] - 1] = log[i][seen[s] - 1]
  BY <1>5, StatementAppends
<1> QED
  BY <1>1, <1>2, <1>3, <1>6 DEF SawItsTag

(* Every step keeps what a conditional request saw.                        *)
LEMMA CurrentNext ==
  Base /\ ChecksInv /\ TagsInv /\ CurrentInv /\ [Next]_vars => CurrentInv'
PROOF
<1> SUFFICES ASSUME Base, ChecksInv, TagsInv, CurrentInv, [Next]_vars
             PROVE  CurrentInv'
  OBVIOUS
<1>0. /\ pc \in [Slots -> Places] /\ seen \in [Slots -> Nat]
      /\ req \in [Slots -> {NoRequest} \cup Inputs]
  BY DEF Base, TypeOK
<1>1. ASSUME UNCHANGED table, NEW s \in Slots,
             \A r \in Slots \ {s} :
               pc'[r] = pc[r] /\ req'[r] = req[r] /\ seen'[r] = seen[r],
             \/ \A i \in Ids : CommitsOf(s, i) = {}
             \/ req'[s] = req[s] /\ seen'[s] = seen[s],
             \/ /\ pc'[s] = "count" => ByFilter(req'[s])
                /\ pc'[s] \in {"write", "execute", "orphan"}
                     /\ IsConditional(req'[s]) =>
                     \/ seen'[s] = 1
                     \/ heroes[req'[s].id] # Absent /\ ~heroes[req'[s].id].live
                     \/ SawItsTag(s)'
      PROVE  CurrentInv'
  <2>1. TagChecked'
    BY <1>1, ZenonT(40) DEF CurrentInv, TagChecked, SawItsTag, table
  <2>2. ConditionalWriteWasCurrent'
    BY <1>1, SameCommits DEF CurrentInv, ConditionalWriteWasCurrent, table
  <2> QED
    BY <2>1, <2>2 DEF CurrentInv
<1>2. CASE UNCHANGED vars
  BY <1>2 DEF vars, CurrentInv, TagChecked, SawItsTag, CommitsOf,
              ConditionalWriteWasCurrent
<1>3. ASSUME NEW s \in Slots, NEW q \in Inputs, Receive(s, q)
      PROVE  CurrentInv'
  <2>1. /\ UNCHANGED <<table, seen>> /\ req'[s] = q
        /\ \A r \in Slots \ {s} : pc'[r] = pc[r] /\ req'[r] = req[r]
        /\ \A i \in Ids : CommitsOf(s, i) = {}
    BY <1>0, <1>3 DEF Receive, Respond, Resolve, Goto, ChecksInv, Untouched,
                      BeforeWrite
  <2>2. /\ pc'[s] = "count" => ByFilter(q)
        /\ pc'[s] \in {"write", "execute", "orphan"} => ~IsConditional(q)
    BY <1>0, <1>3 DEF Receive, Respond, Resolve, Goto
  <2> QED
    BY <1>1, <2>1, <2>2
<1>4. ASSUME NEW s \in Slots, EnforceIfMatch(s) PROVE CurrentInv'
  <2>1. /\ UNCHANGED <<table, req>>
        /\ \A r \in Slots \ {s} : pc'[r] = pc[r] /\ seen'[r] = seen[r]
        /\ \A i \in Ids : CommitsOf(s, i) = {}
    BY <1>0, <1>4 DEF EnforceIfMatch, Respond, Resolve, Goto, ChecksInv,
                      Untouched, BeforeWrite
  <2>2. CASE pc'[s] = "done"
    BY <1>1, <2>1, <2>2
  <2>3. CASE pc'[s] # "done"
    BY <1>1, <1>4, <2>1, <2>3, MatchSees DEF table
  <2> QED
    BY <2>2, <2>3
<1>5. ASSUME NEW s \in Slots,
             CountMatched(s) \/ TakeStamp(s) \/ Publish(s) \/ Drop(s)
      PROVE  CurrentInv'
  <2>1. /\ UNCHANGED <<table, req, seen>>
        /\ \A r \in Slots \ {s} : pc'[r] = pc[r]
        /\ pc'[s] # "count"
        /\ pc'[s] \in {"write", "execute", "orphan"} =>
             pc[s] \in {"count", "write", "execute"}
    BY <1>0, <1>5 DEF CountMatched, TakeStamp, Publish, Drop, Respond, Goto
  <2>2. pc[s] = "count" => ~IsConditional(req[s])
    BY DEF CurrentInv, TagChecked, ByFilter, IsConditional
  <2>3. SawItsTag(s) => SawItsTag(s)'
    BY <2>1 DEF SawItsTag, table
  <2> QED
    BY <1>1, <2>1, <2>2, <2>3 DEF CurrentInv, TagChecked
<1>6. ASSUME NEW s \in Slots, Execute(s) \/ ExecuteFails(s) \/ OrphanExecute(s)
      PROVE  CurrentInv'
  <2>1. /\ pc[s] \in {"execute", "orphan"} /\ UNCHANGED <<req, seen>>
        /\ pc'[s] \in {"publish", "done", "dropped"}
        /\ \A r \in Slots \ {s} : pc'[r] = pc[r]
        /\ RunStatement(s) \/ UNCHANGED table
    BY <1>0, <1>6 DEF Execute, ExecuteFails, OrphanExecute, Respond, Goto
  <2>2. CASE UNCHANGED table
    BY <1>1, <2>1, <2>2
  <2>3. CASE RunStatement(s)
    <3>1. ASSUME NEW r \in Slots, pc'[r] \in {"write", "execute", "orphan"},
                 IsConditional(req[r])
          PROVE  \/ seen[r] = 1
                 \/ heroes'[req[r].id] # Absent /\ ~heroes'[req[r].id].live
                 \/ SawItsTag(r)'
      <4>1. pc[r] = pc'[r] /\ req[r] \in Inputs
        BY <2>1, <3>1 DEF Base, Carried
      <4> QED
        BY <2>1, <2>3, <3>1, <4>1, StatementKeepsTags DEF CurrentInv, TagChecked
    <3>2. TagChecked'
      BY <2>1, <3>1 DEF CurrentInv, TagChecked
    <3>3. ASSUME NEW r \in Slots, NEW i \in Ids, NEW k \in CommitsOf(r, i)',
                 IsConditional(req[r]), seen[r] # 1
          PROVE  /\ seen[r] \in 2..k
                 /\ req[r].ifMatch.kind \in {"any", "strong"}
                 /\ req[r].ifMatch.kind = "strong" =>
                      log'[i][seen[r] - 1].at = req[r].ifMatch.at
      <4>1. CASE r = s
        <5>1. \A j \in Ids : CommitsOf(s, j) = {}
          BY <2>1 DEF ChecksInv, Untouched, BeforeWrite
        <5> QED
          BY <2>1, <2>3, <3>3, <4>1, <5>1, StatementWasCurrent DEF CurrentInv
      <4>2. CASE r # s
        <5>1. k \in CommitsOf(r, i)
          BY <2>1, <2>3, <3>3, <4>2, OthersCommits
        <5>2. /\ seen[r] \in 2..k
              /\ req[r].ifMatch.kind \in {"any", "strong"}
              /\ req[r].ifMatch.kind = "strong" =>
                   log[i][seen[r] - 1].at = req[r].ifMatch.at
          BY <3>3, <5>1 DEF CurrentInv, ConditionalWriteWasCurrent
        <5>3. seen[r] - 1 \in DOMAIN log[i]
          <6>1. k \in DOMAIN log[i] /\ log[i] \in Seq(Commit) /\ seen[r] \in Nat
            BY <1>0, <5>1 DEF CommitsOf, Base, TypeOK
          <6> QED
            BY <5>2, <6>1
        <5>4. log'[i][seen[r] - 1] = log[i][seen[r] - 1]
          BY <2>1, <2>3, <5>3, StatementAppends
        <5> QED
          BY <5>2, <5>4
      <4> QED
        BY <4>1, <4>2
    <3>4. ConditionalWriteWasCurrent'
      BY <2>1, <3>3 DEF ConditionalWriteWasCurrent
    <3> QED
      BY <3>2, <3>4 DEF CurrentInv
  <2> QED
    BY <2>1, <2>2, <2>3
<1> QED
  BY <1>2, <1>3, <1>4, <1>5, <1>6 DEF Next

(* A write under If-Match changed only a record whose version the check    *)
(* found to be the one the header names, unless the check found no record  *)
(* at all: what can be lost is an update made between the check and the    *)
(* statement, never an older one.                                          *)
THEOREM ConditionalWrites == Spec => []ConditionalWriteWasCurrent
PROOF
<1>1. Init => CurrentInv
  <2> SUFFICES ASSUME Init PROVE CurrentInv
    OBVIOUS
  <2>1. \A s \in Slots, i \in Ids : CommitsOf(s, i) = {}
    BY HeroWritesAssumption DEF Init, CommitsOf
  <2> QED
    BY <2>1 DEF Init, CurrentInv, TagChecked, ConditionalWriteWasCurrent
<1>2. CurrentInv => ConditionalWriteWasCurrent
  BY DEF CurrentInv
<1> QED
  BY <1>1, <1>2, CurrentNext, BaseInvariant, ChecksInvariant, TagsInvariant, PTL
  DEF Spec
=============================================================================
