-------------------------- MODULE RunTriggerProofs --------------------------
(***************************************************************************)
(* Proofs about RunTrigger, for any number of processes, any triggers and  *)
(* any number of broken connections.  That commands run in order follows   *)
(* from what a trigger on its way says: some process that sends it has     *)
(* ended its command, with the success the trigger reports.                *)
(***************************************************************************)
EXTENDS RunTrigger, TLAPS

PendingTriggers == \A p \in Procs : pending[p] => Sends[p] # None

\* Some process that sends the trigger of m has ended its command as m reports.
Truthful(m) == \E q \in Procs : Sends[q] = m.trigger /\ Done(q) /\ success[q] = m.success

TriggersAreTrue == \A p \in Procs : \A n \in 1..Len(in[p]) : Truthful(in[p][n])

Reached(p) == pc[p] \in {"told", "running", "lingering", "ended"}

HeardOfTheEnd ==
  \A p \in Procs :
    Waits[p] # None /\ Reached(p)
      => \E q \in Procs : /\ Sends[q] = Waits[p] /\ Done(q)
                          /\ IF pc[p] = "told" THEN success[q] = heard[p]
                                               ELSE success[q] \/ p \in Always

IInv == TypeOK /\ PendingTriggers /\ TriggersAreTrue /\ HeardOfTheEnd
-----------------------------------------------------------------------------
(* Types *)

\* Reading the oldest trigger leaves a sequence of triggers.
LEMMA ReadType ==
  ASSUME TypeOK, NEW p \in Procs, in[p] # <<>>, Reads(p)
  PROVE  /\ in' \in [Procs -> Seq(Message)]
         /\ \A q \in Procs \ {p} : in'[q] = in[q]
         /\ in'[p] = Tail(in[p]) /\ Head(in[p]) = in[p][1] /\ 1 \in 1..Len(in[p])
         /\ Head(in[p]) \in Message
         /\ \A n \in 1..Len(in'[p]) : /\ n + 1 \in 1..Len(in[p])
                                      /\ in'[p][n] = in[p][n + 1]
<1>1. in \in [Procs -> Seq(Message)] /\ in[p] \in Seq(Message)
      BY DEF TypeOK
<1>2. /\ Tail(in[p]) \in Seq(Message) /\ Head(in[p]) \in Message
      /\ Len(Tail(in[p])) = Len(in[p]) - 1 /\ Len(in[p]) \in Nat \ {0}
      /\ Head(in[p]) = in[p][1]
      BY <1>1
<1>3. \A n \in 1..Len(Tail(in[p])) : Tail(in[p])[n] = in[p][n + 1]
      BY <1>1
<1>4. in'[p] = Tail(in[p]) /\ \A q \in Procs \ {p} : in'[q] = in[q]
      BY <1>1 DEF Reads
<1> QED BY <1>1, <1>2, <1>3, <1>4 DEF Reads

\* A trigger that is published stands last in the inbox of everybody who got it.
LEMMA PublishType ==
  ASSUME TypeOK, PendingTriggers, NEW p \in Procs, Publish(p)
  PROVE  /\ in' \in [Procs -> Seq(Message)]
         /\ \A q \in Procs : in'[q] # in[q] => Listens(q)
         /\ \A q \in Procs : \A n \in 1..Len(in'[q]) :
              \/ n \in 1..Len(in[q]) /\ in'[q][n] = in[q][n]
              \/ in'[q][n] = [trigger |-> Sends[p], success |-> success[p]]
<1> DEFINE m == [trigger |-> Sends[p], success |-> success[p]]
<1>1. m \in Message
      BY RunAssumption DEF Publish, PendingTriggers, TypeOK, Message
<1>2. ASSUME NEW q \in Procs
      PROVE  /\ in[q] \in Seq(Message) /\ Append(in[q], m) \in Seq(Message)
             /\ \A n \in 1..Len(Append(in[q], m)) :
                  \/ n \in 1..Len(in[q]) /\ Append(in[q], m)[n] = in[q][n]
                  \/ Append(in[q], m)[n] = m
  <2>1. in[q] \in Seq(Message)
        BY DEF TypeOK
  <2> QED BY <1>1, <2>1
<1>3. in' = [q \in Procs |-> IF q # p /\ up[q] /\ Listens(q)
                             THEN Append(in[q], m) ELSE in[q]]
      BY DEF Publish
<1> HIDE DEF m
<1>4. in' \in [Procs -> Seq(Message)]
      BY <1>2, <1>3
<1>5. ASSUME NEW q \in Procs
      PROVE  in'[q] = in[q] \/ (in'[q] = Append(in[q], m) /\ Listens(q))
  <2>1. in'[q] = IF q # p /\ up[q] /\ Listens(q) THEN Append(in[q], m) ELSE in[q]
        BY <1>3
  <2> QED BY <2>1
<1>6. \A q \in Procs : \A n \in 1..Len(in'[q]) :
        (n \in 1..Len(in[q]) /\ in'[q][n] = in[q][n]) \/ in'[q][n] = m
      BY <1>2, <1>5
<1> QED BY <1>4, <1>5, <1>6 DEF m

\* Every step keeps the types, and the pending triggers are triggers.
LEMMA TypeStep ==
  TypeOK /\ PendingTriggers /\ [Next]_vars => TypeOK' /\ PendingTriggers'
<1> SUFFICES ASSUME TypeOK, PendingTriggers, [Next]_vars
             PROVE  TypeOK' /\ PendingTriggers'
    OBVIOUS
<1> USE RunAssumption
<1>1. ASSUME NEW p \in Procs, Start(p) PROVE TypeOK' /\ PendingTriggers'
  <2>1. /\ pc' \in [Procs -> {"start", "testing", "waiting", "told", "running", "lingering",
                              "ended", "refused", "stopped"}]
        /\ up' \in [Procs -> BOOLEAN] /\ pc[p] = "start"
        /\ \A q \in Procs \ {p} : pc'[q] = pc[q]
        BY <1>1 DEF Start, Ready, Goto, TypeOK
  <2>2. ~pending[p] /\ in[p] = <<>>
        BY <2>1 DEF TypeOK, Listens
  <2> QED BY <1>1, <2>1, <2>2 DEF Start, TypeOK, PendingTriggers, Listens
<1>2. ASSUME NEW p \in Procs, Discard(p) PROVE TypeOK' /\ PendingTriggers'
  <2>1. in' \in [Procs -> Seq(Message)] /\ \A q \in Procs \ {p} : in'[q] = in[q]
        BY <1>2, ReadType DEF Discard
  <2> QED BY <1>2, <2>1 DEF Discard, TypeOK, PendingTriggers, Listens, linkVars
<1>3. ASSUME NEW p \in Procs, Accepted(p) PROVE TypeOK' /\ PendingTriggers'
      BY <1>3 DEF Accepted, Ready, Goto, TypeOK, PendingTriggers, Listens, linkVars
<1>4. ASSUME NEW p \in Procs, Rejected(p) PROVE TypeOK' /\ PendingTriggers'
      BY <1>4 DEF Rejected, Goto, TypeOK, PendingTriggers, Listens, linkVars
<1>5. ASSUME NEW p \in Procs, Hear(p) PROVE TypeOK' /\ PendingTriggers'
  <2>1. CASE Head(in[p]).trigger = Waits[p]
    <3>1. in[p] \in Seq(Message) /\ in[p] # <<>>
          BY <1>5 DEF Hear, TypeOK
    <3>a. Head(in[p]) \in Message
          BY <3>1
    <3>2. Head(in[p]).success \in BOOLEAN
          BY <3>a DEF Message
    <3>3. /\ pc' = [pc EXCEPT ![p] = "told"] /\ in' = [in EXCEPT ![p] = <<>>]
          /\ heard' = [heard EXCEPT ![p] = Head(in[p]).success]
          /\ pc[p] = "waiting"
          /\ UNCHANGED <<up, old, broken, breaks, success, pending, hurried, lost>>
          BY <1>5, <2>1 DEF Hear, Goto, linkVars
    <3>4. /\ heard' \in [Procs -> BOOLEAN] /\ in' \in [Procs -> Seq(Message)]
          BY <3>2, <3>3 DEF TypeOK
    <3>5. TypeOK'
          BY <3>3, <3>4 DEF TypeOK, Listens
    <3> QED BY <3>3, <3>5 DEF PendingTriggers
  <2>2. CASE Head(in[p]).trigger # Waits[p]
    <3>1. in' \in [Procs -> Seq(Message)] /\ \A q \in Procs \ {p} : in'[q] = in[q]
          BY <1>5, <2>2, ReadType DEF Hear
    <3> QED BY <1>5, <2>2, <3>1 DEF Hear, TypeOK, PendingTriggers, Listens, linkVars
  <2> QED BY <2>1, <2>2
<1>6. ASSUME NEW p \in Procs, GoOn(p) PROVE TypeOK' /\ PendingTriggers'
      BY <1>6 DEF GoOn, Goto, TypeOK, PendingTriggers, Listens, linkVars
<1>7. ASSUME NEW p \in Procs, Finish(p) PROVE TypeOK' /\ PendingTriggers'
  <2>1. PICK s \in BOOLEAN : success' = [success EXCEPT ![p] = s]
        BY <1>7 DEF Finish
  <2>2. success' \in [Procs -> BOOLEAN]
        BY <2>1 DEF TypeOK
  <2>3. pending' \in [Procs -> BOOLEAN]
        BY <1>7 DEF Finish, TypeOK
  <2>4. /\ pc' = [pc EXCEPT ![p] = IF Sends[p] = None THEN "ended" ELSE "lingering"]
        /\ pending' = [pending EXCEPT ![p] = Sends[p] # None]
        /\ pc[p] = "running"
        /\ UNCHANGED <<in, up, old, broken, breaks, heard, hurried, lost>>
        BY <1>7 DEF Finish, Goto, linkVars
  <2>5. TypeOK'
        BY <2>2, <2>3, <2>4 DEF TypeOK, Listens
  <2> QED BY <2>4, <2>5 DEF PendingTriggers, TypeOK
<1>8. ASSUME NEW p \in Procs, Publish(p) PROVE TypeOK' /\ PendingTriggers'
  <2>1. /\ in' \in [Procs -> Seq(Message)]
        /\ \A q \in Procs : in'[q] # in[q] => Listens(q)
        BY <1>8, PublishType
  <2>2. /\ pending' = [pending EXCEPT ![p] = FALSE]
        /\ UNCHANGED <<pc, up, old, broken, breaks, heard, success, hurried, lost>>
        BY <1>8 DEF Publish, linkVars
  <2> QED BY <2>1, <2>2 DEF TypeOK, PendingTriggers, Listens
<1>9. ASSUME NEW p \in Procs, Exit(p) PROVE TypeOK' /\ PendingTriggers'
      BY <1>9 DEF Exit, Goto, TypeOK, PendingTriggers, Listens, linkVars
<1>10. ASSUME NEW p \in Procs, Break(p) PROVE TypeOK' /\ PendingTriggers'
      BY <1>10 DEF Break, TypeOK, PendingTriggers, Listens
<1>11. ASSUME NEW p \in Procs, Reconnect(p) PROVE TypeOK' /\ PendingTriggers'
      BY <1>11 DEF Reconnect, TypeOK, PendingTriggers, Listens
<1>12. ASSUME NEW p \in Procs, Lose(p) \/ OldWriterEnds(p) PROVE TypeOK' /\ PendingTriggers'
  <2>1. CASE Lose(p)
    <3>1. p \in broken
          BY <2>1 DEF Lose, TypeOK
    <3> QED BY <2>1, <3>1 DEF Lose, TypeOK, PendingTriggers, Listens
  <2>2. CASE OldWriterEnds(p)
        BY <2>2 DEF OldWriterEnds, TypeOK, PendingTriggers, Listens
  <2> QED BY <1>12, <2>1, <2>2
<1>13. CASE UNCHANGED vars
      BY <1>13 DEF vars, TypeOK, PendingTriggers, Listens
<1> QED BY <1>1, <1>2, <1>3, <1>4, <1>5, <1>6, <1>7, <1>8, <1>9, <1>10, <1>11,
           <1>12, <1>13 DEF Next
-----------------------------------------------------------------------------
(* What triggers say is true, and stays so *)

\* A command that ended has ended for good.
LEMMA EndedStays ==
  ASSUME TypeOK, [Next]_vars, NEW q \in Procs, Done(q)
  PROVE  Done(q)' /\ success'[q] = success[q]
<1>1. ASSUME NEW p \in Procs, Finish(p)
      PROVE  Done(q)' /\ success'[q] = success[q]
  <2>1. p # q /\ pc' = [pc EXCEPT ![p] = IF Sends[p] = None THEN "ended" ELSE "lingering"]
        BY <1>1 DEF Finish, Goto, Done
  <2>2. PICK s \in BOOLEAN : success' = [success EXCEPT ![p] = s]
        BY <1>1 DEF Finish
  <2> QED BY <2>1, <2>2 DEF Done, TypeOK
<1>2. ASSUME NEW p \in Procs, Start(p) \/ Accepted(p) \/ Rejected(p) \/ GoOn(p) \/ Exit(p)
      PROVE  Done(q)' /\ success'[q] = success[q]
      BY <1>2 DEF Start, Accepted, Rejected, GoOn, Exit, Ready, Goto, Done, TypeOK
<1>3. ASSUME NEW p \in Procs, Hear(p)
      PROVE  Done(q)' /\ success'[q] = success[q]
      BY <1>3 DEF Hear, Goto, Done, TypeOK
<1>4. ASSUME UNCHANGED <<pc, success>>
      PROVE  Done(q)' /\ success'[q] = success[q]
      BY <1>4 DEF Done
<1> QED BY <1>1, <1>2, <1>3, <1>4
       DEF Next, Discard, Publish, Lose, OldWriterEnds, Break, Reconnect, vars

\* Whatever is in an inbox tells the truth.
LEMMA TrueStep == IInv /\ [Next]_vars => TriggersAreTrue'
<1> SUFFICES ASSUME TypeOK, PendingTriggers, TriggersAreTrue, [Next]_vars,
                    NEW r \in Procs, NEW n \in 1..Len(in'[r])
             PROVE  \E q \in Procs : /\ Sends[q] = in'[r][n].trigger
                                     /\ Done(q)' /\ success'[q] = in'[r][n].success
    BY DEF IInv, TriggersAreTrue, Truthful
<1> DEFINE Goal == \E q \in Procs : /\ Sends[q] = in'[r][n].trigger
                                    /\ Done(q)' /\ success'[q] = in'[r][n].success
<1>1. ASSUME NEW k \in 1..Len(in[r]), in'[r][n] = in[r][k]
      PROVE  Goal
  <2>1. PICK q \in Procs : /\ Sends[q] = in[r][k].trigger
                           /\ Done(q) /\ success[q] = in[r][k].success
        BY DEF TriggersAreTrue, Truthful
  <2> QED BY <1>1, <2>1, EndedStays
<1>2. ASSUME in'[r] = in[r] PROVE Goal
      BY <1>1, <1>2
<1>3. ASSUME in'[r] = <<>> PROVE Goal
      BY <1>3
<1> HIDE DEF Goal
<1>4. ASSUME NEW p \in Procs, in[p] # <<>>, Reads(p) PROVE Goal
  <2>1. CASE p = r
    <3>1. n + 1 \in 1..Len(in[r]) /\ in'[r][n] = in[r][n + 1]
          BY <1>4, <2>1, ReadType
    <3> QED BY <1>1, <3>1
  <2>2. CASE p # r
    <3>1. in'[r] = in[r]
          BY <1>4, <2>2, ReadType
    <3> QED BY <1>2, <3>1
  <2> QED BY <2>1, <2>2
<1>5. ASSUME NEW p \in Procs, Publish(p) PROVE Goal
  <2>1. CASE in'[r][n] = [trigger |-> Sends[p], success |-> success[p]]
    <3>1. Done(p)' /\ success'[p] = success[p]
          BY <1>5 DEF Publish, Done, TypeOK
    <3>2. in'[r][n].trigger = Sends[p] /\ in'[r][n].success = success[p]
          BY <2>1
    <3> QED BY <3>1, <3>2 DEF Goal
  <2>2. CASE n \in 1..Len(in[r]) /\ in'[r][n] = in[r][n]
        BY <1>1, <2>2
  <2> QED BY <1>5, <2>1, <2>2, PublishType
<1>6. ASSUME NEW p \in Procs, Hear(p) PROVE Goal
  <2>1. CASE in' = [in EXCEPT ![p] = <<>>]
    <3>1. in'[r] = in[r] \/ in'[r] = <<>>
          BY <2>1 DEF TypeOK
    <3> QED BY <1>2, <1>3, <3>1
  <2>2. CASE Reads(p)
        BY <1>4, <1>6, <2>2 DEF Hear
  <2> QED BY <1>6, <2>1, <2>2 DEF Hear
<1>7. ASSUME NEW p \in Procs, Rejected(p) PROVE Goal
  <2>1. in'[r] = in[r] \/ in'[r] = <<>>
        BY <1>7 DEF Rejected, TypeOK
  <2> QED BY <1>2, <1>3, <2>1
<1>8. ASSUME NEW p \in Procs, Discard(p) PROVE Goal
      BY <1>4, <1>8 DEF Discard
<1>9. ASSUME UNCHANGED in PROVE Goal
      BY <1>2, <1>9
<1>10. Goal
      BY <1>5, <1>6, <1>7, <1>8, <1>9
         DEF Next, Start, Accepted, GoOn, Finish, Lose, OldWriterEnds, Exit, Break,
             Reconnect, vars
<1> QED BY <1>10 DEF Goal

\* Who got past the wait heard of an end that lets it run.
LEMMA HeardStep == IInv /\ [Next]_vars => HeardOfTheEnd'
<1> SUFFICES ASSUME TypeOK, TriggersAreTrue, HeardOfTheEnd, [Next]_vars,
                    NEW p \in Procs, Waits[p] # None, Reached(p)'
             PROVE  \E q \in Procs : /\ Sends[q] = Waits[p] /\ Done(q)'
                                     /\ IF pc'[p] = "told" THEN success'[q] = heard'[p]
                                        ELSE success'[q] \/ p \in Always
    BY DEF IInv, HeardOfTheEnd
<1>1. CASE /\ Reached(p)
           /\ pc'[p] = "told" => pc[p] = "told" /\ heard'[p] = heard[p]
           /\ pc[p] = "told" /\ pc'[p] # "told" => p \in Always \/ heard[p]
  <2>1. PICK q \in Procs : /\ Sends[q] = Waits[p] /\ Done(q)
                           /\ IF pc[p] = "told" THEN success[q] = heard[p]
                              ELSE success[q] \/ p \in Always
        BY <1>1 DEF HeardOfTheEnd
  <2>2. Done(q)' /\ success'[q] = success[q]
        BY <2>1, EndedStays
  <2> QED BY <1>1, <2>1, <2>2
<1>2. CASE Hear(p) /\ Head(in[p]).trigger = Waits[p]
  <2>1. in[p] \in Seq(Message) /\ in[p] # <<>>
        BY <1>2 DEF Hear, TypeOK
  <2>2. 1 \in 1..Len(in[p]) /\ Head(in[p]) = in[p][1]
        BY <2>1
  <2>3. PICK q \in Procs : /\ Sends[q] = Waits[p] /\ Done(q)
                           /\ success[q] = Head(in[p]).success
        BY <1>2, <2>2 DEF TriggersAreTrue, Truthful
  <2>4. Done(q)' /\ success'[q] = success[q]
        BY <2>3, EndedStays
  <2>5. pc'[p] = "told" /\ heard'[p] = Head(in[p]).success
        BY <1>2 DEF Hear, Goto, TypeOK
  <2> QED BY <2>3, <2>4, <2>5
<1>3. ASSUME NEW h \in Procs, h # p \/ Head(in[p]).trigger # Waits[p], Hear(h)
      PROVE  pc'[p] = pc[p] /\ heard'[p] = heard[p]
      BY <1>3 DEF Hear, Goto, TypeOK
<1>4. ASSUME NEW h \in Procs, GoOn(h)
      PROVE  /\ Reached(p) /\ heard'[p] = heard[p]
             /\ pc'[p] = "told" => pc[p] = "told"
             /\ pc[p] = "told" /\ pc'[p] # "told" => p \in Always \/ heard[p]
      BY <1>4 DEF GoOn, Goto, Reached, TypeOK
<1>5. ASSUME NEW h \in Procs,
             Start(h) \/ Accepted(h) \/ Rejected(h) \/ Finish(h) \/ Exit(h)
      PROVE  /\ Reached(p) /\ heard'[p] = heard[p]
             /\ pc'[p] = "told" <=> pc[p] = "told"
      BY <1>5 DEF Start, Accepted, Rejected, Finish, Exit, Ready, Goto, Reached, TypeOK
<1>6. ASSUME UNCHANGED <<pc, heard>>
      PROVE  Reached(p) /\ pc'[p] = pc[p] /\ heard'[p] = heard[p]
      BY <1>6 DEF Reached
<1>7. \/ Hear(p) /\ Head(in[p]).trigger = Waits[p]
      \/ /\ Reached(p)
         /\ pc'[p] = "told" => pc[p] = "told" /\ heard'[p] = heard[p]
         /\ pc[p] = "told" /\ pc'[p] # "told" => p \in Always \/ heard[p]
  <2>1. ASSUME NEW h \in Procs, Hear(h), h # p \/ Head(in[p]).trigger # Waits[p]
        PROVE  Reached(p) /\ pc'[p] = pc[p] /\ heard'[p] = heard[p]
        BY <1>3, <2>1 DEF Reached
  <2> QED BY <1>4, <1>5, <1>6, <2>1
         DEF Next, Discard, Publish, Lose, OldWriterEnds, Break, Reconnect, vars
<1> QED BY <1>1, <1>2, <1>7
-----------------------------------------------------------------------------
(* The theorems *)

\* The inductive invariant holds in every reachable state.
LEMMA Invariance == Spec => []IInv
<1>1. Init => IInv
      BY RunAssumption DEF Init, IInv, TypeOK, PendingTriggers, TriggersAreTrue,
         HeardOfTheEnd, Reached, Listens
<1>2. IInv /\ [Next]_vars => IInv'
      BY TypeStep, TrueStep, HeardStep DEF IInv
<1> QED BY <1>1, <1>2, PTL DEF Spec

\* Every variable has its type, and a trigger is pending only while its process
\* lingers (run.go:112-131).
THEOREM TypeCorrect == Spec => []TypeOK
BY Invariance, PTL DEF IInv

\* However many processes wait for each other, whatever breaks or is refused, a
\* command that waits for a trigger runs only after one that sends it has ended,
\* successfully unless it runs always (run.go:50-78).
THEOREM CommandsRunInOrder == Spec => []RunsInOrder
<1>1. IInv => RunsInOrder
  <2> SUFFICES ASSUME IInv, NEW p \in Procs, Waits[p] # None,
                      pc[p] = "running" \/ Done(p)
               PROVE  \E q \in Procs : /\ Sends[q] = Waits[p] /\ Done(q)
                                       /\ success[q] \/ p \in Always
      BY DEF RunsInOrder
  <2>1. Reached(p) /\ pc[p] # "told"
        BY DEF Reached, Done
  <2> QED BY <2>1 DEF IInv, HeardOfTheEnd
<1> QED BY <1>1, Invariance, PTL
=============================================================================
