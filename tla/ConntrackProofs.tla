--------------------------- MODULE ConntrackProofs ---------------------------
(***************************************************************************)
(* Theorems about Conntrack, for any flows, addresses, zones, batch and    *)
(* queue limits, and any number of failures and changes.                   *)
(*                                                                         *)
(* The inductive invariant follows a flow that has to go from the dump     *)
(* over the socket, the datagram and the batch to its deletion (Owed), for *)
(* which it has to know where on the socket a dump can still be (Framed),  *)
(* what each stage of a call leaves behind (Staged) and that whatever is   *)
(* under way was of a flushed address (Known).                             *)
(***************************************************************************)
EXTENDS Conntrack, FiniteSetTheorems, TLAPS

Active == pc \in {"receive", "parse", "finish"}

(* The answer to a deletion.                                               *)
Reply(m) == m.error /\ ~m.fresh /\ ~m.done

Staged ==
  /\ pc \in {"idle", "request"} =>
       /\ dump = NoDump /\ queue = <<>>
       /\ inbox = {} /\ ended = FALSE /\ batch = {} /\ failed = FALSE
  /\ pc = "receive" => ended = FALSE /\ inbox = {}
  /\ pc = "finish" => failed = TRUE \/ (ended = TRUE /\ inbox = {})

(* After an NLMSG_DONE only answers to deletions follow on the socket.     *)
FramedIn(q, d, e) ==
  /\ ~d.on => d = NoDump
  /\ d.on => d.fresh
  /\ e => ~d.on
  /\ \A i \in 1..Len(q) : /\ q[i].error => ~q[i].done
                          /\ q[i].done => ~d.on
                          /\ e => Reply(q[i])
  /\ \A i, j \in 1..Len(q) : i < j /\ q[i].done => Reply(q[j])

Framed == FramedIn(queue, dump, ended)

Refused(q) == \E i \in 1..Len(q) : q[i].error /\ q[i].fresh

Waits(f, q, A) == \E i \in 1..Len(q) : \E a \in A : q[i].fresh /\ <<f, a>> \in q[i].shows

(* Where a flow that has to go can be.                                     *)
Due(f) ==
  \/ f \in dump.left
  \/ f \in batch
  \/ \E a \in ips : <<f, a>> \in inbox
  \/ Waits(f, queue, ips)

Owed == Active => failed = TRUE \/ Refused(queue) \/ \A f \in steady : Due(f)

KnownIn(q, A, E) ==
  \A i \in 1..Len(q) : \A f \in Flows, a \in A :
     q[i].fresh /\ <<f, a>> \in q[i].shows => f \in E

Known ==
  Active =>
    /\ steady \subseteq Matching(table, ips)
    /\ Matching(table, ips) \subseteq ever
    /\ batch \subseteq ever
    /\ \A f \in Flows, a \in ips : <<f, a>> \in inbox => f \in ever
    /\ KnownIn(queue, ips, ever)

Inv == TypeOK /\ Staged /\ Framed /\ Owed /\ Known

-----------------------------------------------------------------------------
(* Operators.                                                              *)

(* A deletion hits exactly the flows it was made for: tuple and zone       *)
(* identify a flow.                                                        *)
LEMMA NamedExact ==
  ASSUME NEW B \in SUBSET Flows
  PROVE  Named(B) = B
  BY ConntrackAssumption DEF Named

(* A flushed address is an address, so a flow that matches one is present. *)
LEMMA MatchingPresent ==
  ASSUME TypeOK
  PROVE  Matching(table, ips) \subseteq Present
  BY ConntrackAssumption DEF TypeOK, Matching, Present

(* What sending a batch does: nothing but an error, or its flows go and    *)
(* the kernel may answer.                                                  *)
Gone(B) ==
  /\ table' = [f \in Flows |-> IF f \in B THEN None ELSE table[f]]
  /\ steady' = steady \ B
  /\ queue' = queue \/ queue' = Append(queue, Refusal(FALSE))
  /\ UNCHANGED <<failures, failed>>

NotSent ==
  /\ failed' = TRUE /\ UNCHANGED <<table, queue, steady>>
  /\ failures' = failures + 1

LEMMA SendEffect ==
  ASSUME NEW B \in SUBSET Flows, Sent(B) \/ Unsent
  PROVE  Gone(B) \/ NotSent
<1>1. ASSUME Sent(B) PROVE Gone(B)
  BY <1>1, NamedExact DEF Sent, Delete, Replies, Gone
<1>2. ASSUME Unsent PROVE NotSent
  BY <1>2 DEF Unsent, Fails, NotSent
<1> QED BY <1>1, <1>2

(* Queues: what an appended or a removed datagram does to Framed, Known    *)
(* and the flows that wait.                                                *)
LEMMA AppendItems ==
  ASSUME NEW q \in Seq(Datagrams), NEW m \in Datagrams
  PROVE  /\ Append(q, m) \in Seq(Datagrams)
         /\ Len(Append(q, m)) = Len(q) + 1
         /\ Len(q) \in Nat
         /\ \A i \in 1..Len(q) : Append(q, m)[i] = q[i]
         /\ Append(q, m)[Len(q) + 1] = m
  OBVIOUS

LEMMA TailItems ==
  ASSUME NEW q \in Seq(Datagrams), q # <<>>
  PROVE  /\ Tail(q) \in Seq(Datagrams)
         /\ Len(Tail(q)) = Len(q) - 1
         /\ Len(q) \in Nat \ {0}
         /\ \A i \in 1..(Len(q) - 1) : Tail(q)[i] = q[i + 1]
         /\ Head(q) = q[1]
         /\ q[1] \in Datagrams
  OBVIOUS

LEMMA FramedReply ==
  ASSUME NEW q \in Seq(Datagrams), NEW d, NEW e, FramedIn(q, d, e)
  PROVE  FramedIn(Append(q, Refusal(FALSE)), d, e)
<1>1. Refusal(FALSE) \in Datagrams /\ Reply(Refusal(FALSE))
  BY DEF Refusal, Datagrams, Reply
<1>2. ASSUME NEW m \in Datagrams, Reply(m) PROVE FramedIn(Append(q, m), d, e)
  <2>1. \A i \in 1..Len(Append(q, m)) : i \in 1..Len(q) \/ i = Len(q) + 1
    BY AppendItems
  <2>2. \A i \in 1..Len(Append(q, m)) :
          /\ Append(q, m)[i].error => ~Append(q, m)[i].done
          /\ Append(q, m)[i].done => ~d.on
          /\ e => Reply(Append(q, m)[i])
    BY <1>2, <2>1, AppendItems DEF FramedIn, Reply
  <2>3. \A i, j \in 1..Len(Append(q, m)) :
          i < j /\ Append(q, m)[i].done => Reply(Append(q, m)[j])
    BY <1>2, <2>1, AppendItems DEF FramedIn, Reply
  <2> QED BY <2>2, <2>3 DEF FramedIn
<1> QED BY <1>1, <1>2

LEMMA FramedEntries ==
  ASSUME NEW q \in Seq(Datagrams), NEW d, NEW c, FramedIn(q, d, FALSE), d.on,
         NEW m \in Datagrams, ~m.error,
         c = NoDump \/ (c.on /\ c.fresh /\ ~m.done)
  PROVE  FramedIn(Append(q, m), c, FALSE)
<1>1. ~NoDump.on
  BY DEF NoDump
<1>2. \A i \in 1..Len(Append(q, m)) : i \in 1..Len(q) \/ i = Len(q) + 1
  BY AppendItems
<1>3. \A i \in 1..Len(q) : ~q[i].done
  BY DEF FramedIn
<1>4. \A i, j \in 1..Len(Append(q, m)) : i < j => ~Append(q, m)[i].done
  BY <1>3, AppendItems
<1> QED BY <1>1, <1>2, <1>3, <1>4, AppendItems DEF FramedIn

LEMMA FramedSingle ==
  ASSUME NEW m, m.error, ~m.done
  PROVE  FramedIn(Append(<<>>, m), NoDump, FALSE)
<1>1. ~NoDump.on
  BY DEF NoDump
<1>2. Append(<<>>, m) = <<m>>
  OBVIOUS
<1>3. \A i \in 1..Len(<<m>>) : i = 1
  OBVIOUS
<1>4. <<m>>[1] = m
  OBVIOUS
<1> QED BY <1>1, <1>2, <1>3, <1>4 DEF FramedIn

LEMMA FramedTail ==
  ASSUME NEW q \in Seq(Datagrams), q # <<>>, NEW d, NEW e, FramedIn(q, d, e)
  PROVE  /\ FramedIn(Tail(q), d, FALSE)
         /\ FramedIn(Tail(q), d, Head(q).done)
<1>1. \A i \in 1..Len(Tail(q)) : i + 1 \in 1..Len(q) /\ Tail(q)[i] = q[i + 1]
  BY TailItems
<1>2. 1 \in 1..Len(q)
  BY TailItems
<1>3. Head(q).done => \A i \in 1..Len(Tail(q)) : Reply(Tail(q)[i])
  BY <1>1, <1>2, TailItems DEF FramedIn
<1>4. \A i, j \in 1..Len(Tail(q)) : i < j /\ Tail(q)[i].done => Reply(Tail(q)[j])
  BY <1>1, TailItems DEF FramedIn
<1> QED BY <1>1, <1>2, <1>3, <1>4, TailItems DEF FramedIn

LEMMA KnownAppend ==
  ASSUME NEW q \in Seq(Datagrams), NEW m \in Datagrams, NEW A, NEW E, KnownIn(q, A, E),
         \A f \in Flows, a \in A : m.fresh /\ <<f, a>> \in m.shows => f \in E
  PROVE  KnownIn(Append(q, m), A, E)
<1>1. \A i \in 1..Len(Append(q, m)) : i \in 1..Len(q) \/ i = Len(q) + 1
  BY AppendItems
<1> QED BY <1>1, AppendItems DEF KnownIn

LEMMA KnownTail ==
  ASSUME NEW q \in Seq(Datagrams), q # <<>>, NEW A, NEW E, KnownIn(q, A, E)
  PROVE  /\ KnownIn(Tail(q), A, E)
         /\ \A f \in Flows, a \in A : Head(q).fresh /\ <<f, a>> \in Head(q).shows => f \in E
<1>1. \A i \in 1..Len(Tail(q)) : i + 1 \in 1..Len(q) /\ Tail(q)[i] = q[i + 1]
  BY TailItems
<1>2. 1 \in 1..Len(q)
  BY TailItems
<1> QED BY <1>1, <1>2, TailItems DEF KnownIn

LEMMA WaitsAppend ==
  ASSUME NEW q \in Seq(Datagrams), NEW m \in Datagrams, NEW A, NEW f
  PROVE  /\ Waits(f, q, A) => Waits(f, Append(q, m), A)
         /\ (\E a \in A : m.fresh /\ <<f, a>> \in m.shows) => Waits(f, Append(q, m), A)
         /\ Refused(q) => Refused(Append(q, m))
         /\ m.error /\ m.fresh => Refused(Append(q, m))
<1>1. /\ \A i \in 1..Len(q) : i \in 1..Len(Append(q, m))
      /\ Len(q) + 1 \in 1..Len(Append(q, m))
  BY AppendItems
<1> QED BY <1>1, AppendItems DEF Waits, Refused

LEMMA WaitsTail ==
  ASSUME NEW q \in Seq(Datagrams), q # <<>>, NEW A, NEW f
  PROVE  /\ Waits(f, q, A) =>
              Waits(f, Tail(q), A) \/ \E a \in A : Head(q).fresh /\ <<f, a>> \in Head(q).shows
         /\ Refused(q) => Refused(Tail(q)) \/ (Head(q).error /\ Head(q).fresh)
<1>1. \A i \in 1..Len(q) : i = 1 \/ (i - 1 \in 1..Len(Tail(q)) /\ Tail(q)[i - 1] = q[i])
  BY TailItems
<1> QED BY <1>1, TailItems DEF Waits, Refused

-----------------------------------------------------------------------------
(* Types.                                                                  *)

LEMMA Types ==
  /\ NoDump \in Dumps
  /\ \A b \in BOOLEAN : Refusal(b) \in Datagrams
  /\ \A b \in BOOLEAN, S \in SUBSET (Flows \X Addresses) : Entries(S, b) \in Datagrams
  BY DEF NoDump, Dumps, Refusal, Entries, Datagrams

(* Entries that went stale have the shape they had.                        *)
LEMMA StaleType ==
  ASSUME NEW q \in Seq(Datagrams)
  PROVE  Stale(q) \in Seq(Datagrams) /\ (q = <<>> => Stale(q) = <<>>)
<1>1. \A m \in Datagrams : [m EXCEPT !.fresh = FALSE] \in Datagrams
  BY DEF Datagrams
<1>2. Stale(q) \in [1..Len(q) -> Datagrams]
  BY <1>1 DEF Stale
<1>3. q = <<>> => Stale(q) = <<>>
  BY DEF Stale
<1> QED BY <1>2, <1>3

(* A batch that is not full has room for one more.                         *)
LEMMA RoomLeft ==
  ASSUME NEW B \in SUBSET Flows, ~Full(B)
  PROVE  Cardinality(B) < BatchLimit
<1>1. IsFiniteSet(B)
  BY ConntrackAssumption, FS_Subset
<1>2. Cardinality(B) \in Nat /\ BatchLimit \in Nat
  BY <1>1, FS_CardinalityType, ConntrackAssumption
<1> QED BY <1>2 DEF Full

LEMMA NoBatch ==
  ASSUME NEW B, B = {}
  PROVE  Cardinality(B) < BatchLimit
  BY FS_EmptySet, ConntrackAssumption

LEMMA TypeInit == Init => TypeOK
<1> SUFFICES ASSUME Init PROVE TypeOK
  OBVIOUS
<1>1. Cardinality(batch) < BatchLimit
  BY NoBatch DEF Init
<1>2. queue \in Seq(Datagrams) /\ dump \in Dumps
  BY Types DEF Init
<1> QED BY <1>1, <1>2 DEF Init, TypeOK

(* What the end of a call leaves.                                          *)
LEMMA ReturnType ==
  ASSUME NEW r \in {"failed", "flushed"}, Return(r)
  PROVE  /\ pc' = "idle" /\ result' \in {"none", "unresolved", "failed", "flushed"}
         /\ ips' \subseteq Addresses /\ inbox' \subseteq Flows \X Addresses
         /\ ended' \in BOOLEAN /\ failed' \in BOOLEAN
         /\ batch' \subseteq Flows /\ Cardinality(batch') < BatchLimit
         /\ steady' \subseteq Flows /\ ever' \subseteq Flows
<1>1. Cardinality(batch') < BatchLimit
  BY NoBatch DEF Return
<1> QED BY <1>1 DEF Return

LEMMA TypeNext ==
  ASSUME Inv, [Next]_vars
  PROVE  TypeOK'
<1>0. TypeOK
  BY DEF Inv
<1> USE <1>0
<1>1. ASSUME NEW S \in SUBSET Interfaces, Flush(S) PROVE TypeOK'
  <2>1. \A live, last \in [S -> Addresses \cup {None}] :
          Resolved(S, live, last) \subseteq Addresses
    BY DEF Resolved
  <2>2. ips' \subseteq Addresses /\ pc' \in {"idle", "request"} /\ result' \in {"none", "unresolved"}
    BY <1>1, <2>1 DEF Flush, TypeOK
  <2> QED BY <1>1, <2>2 DEF Flush, TypeOK, socketVars
<1>2. ASSUME OpenFails PROVE TypeOK'
  BY <1>2, ReturnType DEF OpenFails, Fails, TypeOK, socketVars
<1>3. ASSUME SendFails PROVE TypeOK'
  BY <1>3, ReturnType DEF SendFails, Fails, TypeOK
<1>4. ASSUME Request PROVE TypeOK'
  <2>1. Stale(queue) \in Seq(Datagrams)
    BY StaleType DEF TypeOK
  <2>2. queue' \in Seq(Datagrams)
    BY <1>4, <2>1, Types, AppendItems DEF Request, Accept, Refuse
  <2>3. failures' \in Nat
    BY <1>4 DEF Request, Fails, TypeOK
  <2>4. steady' \subseteq Flows /\ ever' \subseteq Flows
    BY <1>4 DEF Request, Matching
  <2>5. ASSUME Accept PROVE dump' \in Dumps
    BY <2>5 DEF Accept, Dumps, Present
  <2>6. ASSUME Refuse PROVE dump' \in Dumps
    BY <2>6 DEF Refuse, TypeOK, Dumps
  <2>7. open' \in BOOLEAN /\ pc' = "receive" /\ dump' \in Dumps
    BY <1>4, <2>5, <2>6 DEF Request
  <2>8. /\ table' = table /\ ips' = ips /\ inbox' = inbox /\ ended' = ended
        /\ batch' = batch /\ failed' = failed /\ result' = result /\ changes' = changes
    BY <1>4 DEF Request
  <2> QED BY <2>2, <2>3, <2>4, <2>7, <2>8 DEF TypeOK
<1>5. ASSUME Receive PROVE TypeOK'
  <2>1. Head(queue) \in Datagrams /\ Tail(queue) \in Seq(Datagrams)
    BY <1>5, TailItems DEF Receive, TypeOK
  <2> QED BY <1>5, <2>1 DEF Receive, TypeOK, Datagrams
<1>6. ASSUME ReceiveTruncated PROVE TypeOK'
  <2>1. Head(queue) \in Datagrams /\ Tail(queue) \in Seq(Datagrams)
    BY <1>6, TailItems DEF ReceiveTruncated, TypeOK
  <2>2. inbox' \subseteq Flows \X Addresses
    BY <1>6, <2>1 DEF ReceiveTruncated, Datagrams
  <2>3. failures' \in Nat
    BY <1>6 DEF ReceiveTruncated, Fails, TypeOK
  <2> QED BY <1>6, <2>1, <2>2, <2>3 DEF ReceiveTruncated, TypeOK
<1>7. ASSUME ReceiveFails PROVE TypeOK'
  <2>1. failures' \in Nat
    BY <1>7 DEF ReceiveFails, Fails, TypeOK
  <2> QED BY <1>7, <2>1 DEF ReceiveFails, TypeOK, socketVars
<1> DEFINE Carried == /\ table' \in [Flows -> Addresses \cup {None}]
                      /\ queue' \in Seq(Datagrams) /\ failures' \in Nat
                      /\ failed' \in BOOLEAN /\ steady' \subseteq Flows
<1>8. ASSUME NEW B \in SUBSET Flows, Sent(B) \/ Unsent PROVE Carried
  <2>1. Append(queue, Refusal(FALSE)) \in Seq(Datagrams)
    BY AppendItems, Types DEF TypeOK
  <2>2. CASE Gone(B)
    BY <2>1, <2>2 DEF Gone, TypeOK
  <2>3. CASE NotSent
    BY <2>3 DEF NotSent, TypeOK
  <2> QED BY <1>8, <2>2, <2>3, SendEffect
<1>9. ASSUME NEW e \in inbox, Parse(e) PROVE TypeOK'
  <2> DEFINE more == IF Hit(e) THEN batch \cup {e[1]} ELSE batch
  <2>1. more \in SUBSET Flows
    BY DEF TypeOK
  <2>2. /\ Carried
        /\ batch' \subseteq Flows /\ Cardinality(batch') < BatchLimit
    <3>1. CASE Full(more)
      <4>1. batch' = {} /\ (Sent(more) \/ Unsent)
        BY <1>9, <3>1 DEF Parse
      <4> HIDE DEF more
      <4>2. Carried
        BY <1>8, <2>1, <4>1
      <4> QED BY <4>1, <4>2, NoBatch
    <3>2. CASE ~Full(more)
      BY <1>9, <2>1, <3>2, RoomLeft DEF Parse, TypeOK
    <3> QED BY <3>1, <3>2
  <2> QED BY <1>9, <2>2 DEF Parse, TypeOK
<1>10. ASSUME Parsed PROVE TypeOK'
  BY <1>10 DEF Parsed, TypeOK, socketVars
<1>11. ASSUME SendRest PROVE TypeOK'
  <2>1. Carried
    BY <1>8, <1>11 DEF SendRest, TypeOK
  <2>2. batch' \subseteq Flows /\ Cardinality(batch') < BatchLimit
    BY <1>11, NoBatch DEF SendRest
  <2> QED BY <1>11, <2>1, <2>2 DEF SendRest, TypeOK
<1>12. ASSUME Finish PROVE TypeOK'
  <2>0. queue' = <<>> /\ open' \in BOOLEAN
    BY <1>12 DEF Finish, CleanUp, Drain, Reopen, TypeOK
  <2>1. queue' \in Seq(Datagrams) /\ open' \in BOOLEAN
    BY <2>0
  <2>2. dump' \in Dumps
    BY <1>12, Types DEF Finish, CleanUp, Drain, Reopen, TypeOK
  <2> QED BY <1>12, <2>1, <2>2, ReturnType DEF Finish, TypeOK
<1>13. ASSUME KernelDumps PROVE TypeOK'
  <2>1. PICK shown \in SUBSET Present, done \in BOOLEAN :
          /\ queue' = Append(queue, [Entries({<<f, table[f]>> : f \in shown}, done)
                                       EXCEPT !.fresh = dump.fresh])
          /\ dump' = IF done THEN NoDump ELSE [dump EXCEPT !.left = dump.left \ shown]
    BY <1>13 DEF KernelDumps
  <2> DEFINE m == [Entries({<<f, table[f]>> : f \in shown}, done) EXCEPT !.fresh = dump.fresh]
  <2>2. {<<f, table[f]>> : f \in shown} \subseteq Flows \X Addresses
    BY DEF Present, TypeOK
  <2>3. m \in Datagrams
    BY <2>2 DEF Entries, Datagrams, TypeOK, Dumps
  <2>4. queue' \in Seq(Datagrams)
    BY <2>1, <2>3, AppendItems DEF TypeOK
  <2>5. dump' \in Dumps
    <3>1. CASE done
      BY <2>1, <3>1, Types
    <3>2. CASE ~done
      BY <2>1, <3>2 DEF TypeOK, Dumps
    <3> QED BY <3>1, <3>2
  <2> QED BY <1>13, <2>4, <2>5 DEF KernelDumps, TypeOK, callVars
<1>14. ASSUME NEW f \in Flows, FlowChanges(f) PROVE TypeOK'
  <2>1. ever' \subseteq Flows /\ steady' \subseteq Flows
    BY <1>14 DEF FlowChanges, TypeOK
  <2>2. table' \in [Flows -> Addresses \cup {None}] /\ dump' \in Dumps
    BY <1>14 DEF FlowChanges, TypeOK, Dumps
  <2> QED BY <1>14, <2>1, <2>2 DEF FlowChanges, TypeOK, callVars
<1>15. ASSUME UNCHANGED vars PROVE TypeOK'
  BY <1>15 DEF vars, socketVars, callVars, TypeOK
<1> QED
  BY <1>1, <1>2, <1>3, <1>4, <1>5, <1>6, <1>7, <1>9, <1>10, <1>11, <1>12, <1>13, <1>14, <1>15
     DEF Next, Worker
-----------------------------------------------------------------------------
(* The socket and the stages of a call.                                    *)

LEMMA StagedNext ==
  ASSUME Inv, [Next]_vars
  PROVE  Staged'
<1>0. TypeOK /\ Staged /\ Framed
  BY DEF Inv
<1>1. ASSUME NEW S \in SUBSET Interfaces, Flush(S) PROVE Staged'
  BY <1>0, <1>1 DEF Flush, Staged, socketVars
<1>2. ASSUME OpenFails PROVE Staged'
  BY <1>0, <1>2 DEF OpenFails, Return, Staged, socketVars
<1>3. ASSUME SendFails PROVE Staged'
  BY <1>0, <1>3 DEF SendFails, Return, Staged
<1>4. ASSUME Request PROVE Staged'
  BY <1>0, <1>4 DEF Request, Staged
<1>5. ASSUME Receive PROVE Staged'
  <2>1. Head(queue) \in Datagrams /\ (Head(queue).error => ~Head(queue).done)
    <3>1. 1 \in 1..Len(queue) /\ Head(queue) = queue[1] /\ queue[1] \in Datagrams
      BY <1>0, <1>5, TailItems DEF Receive, TypeOK
    <3> QED BY <1>0, <3>1 DEF Framed, FramedIn
  <2> DEFINE m == Head(queue)
  <2>2. CASE ~m.error
    BY <1>5, <2>2 DEF Receive, Staged
  <2>3. CASE m.error /\ m.fresh
    BY <1>5, <2>3 DEF Receive, Staged
  <2>4. CASE m.error /\ ~m.fresh
    <3>1. pc' = "receive" /\ inbox' = {} /\ ended' = FALSE
      BY <1>5, <2>1, <2>4 DEF Receive, Datagrams
    <3> QED BY <3>1 DEF Staged
  <2> QED BY <2>2, <2>3, <2>4
<1>6. ASSUME ReceiveTruncated PROVE Staged'
  BY <1>6 DEF ReceiveTruncated, Staged
<1>7. ASSUME ReceiveFails PROVE Staged'
  BY <1>7 DEF ReceiveFails, Staged
<1>8. ASSUME NEW e \in inbox, Parse(e) PROVE Staged'
  BY <1>8 DEF Parse, Staged
<1>9. ASSUME Parsed PROVE Staged'
  BY <1>0, <1>9 DEF Parsed, Staged, TypeOK
<1>10. ASSUME SendRest PROVE Staged'
  <2>1. failed' = failed \/ failed' = TRUE
    BY <1>10 DEF SendRest, Sent, Unsent
  <2> QED BY <1>0, <1>10, <2>1 DEF SendRest, Staged
<1>11. ASSUME Finish PROVE Staged'
  <2>1. CASE ended
    <3>1. dump = NoDump
      BY <1>0, <2>1 DEF Framed, FramedIn
    <3> QED BY <1>11, <2>1, <3>1 DEF Finish, CleanUp, Drain, Return, Staged
  <2>2. CASE ~ended
    BY <1>11, <2>2 DEF Finish, CleanUp, Reopen, Return, Staged
  <2> QED BY <2>1, <2>2
<1>12. ASSUME KernelDumps PROVE Staged'
  <2>1. pc \notin {"idle", "request"}
    BY <1>0, <1>12 DEF KernelDumps, Staged, NoDump
  <2> QED BY <1>0, <1>12, <2>1 DEF KernelDumps, Staged, callVars
<1>13. ASSUME NEW f \in Flows, FlowChanges(f) PROVE Staged'
  <2>1. dump = NoDump => dump' = NoDump
    BY <1>13 DEF FlowChanges, NoDump
  <2> QED BY <1>0, <1>13, <2>1 DEF FlowChanges, Staged, callVars
<1>14. ASSUME UNCHANGED vars PROVE Staged'
  BY <1>0, <1>14 DEF vars, socketVars, callVars, Staged
<1> QED
  BY <1>1, <1>2, <1>3, <1>4, <1>5, <1>6, <1>7, <1>8, <1>9, <1>10, <1>11, <1>12, <1>13, <1>14
     DEF Next, Worker

(* What a call sends does not disturb the order on the socket.             *)
LEMMA FramedGone ==
  ASSUME TypeOK, Framed, NEW B \in SUBSET Flows, Sent(B) \/ Unsent
  PROVE  FramedIn(queue', dump, ended)
<1>1. queue' = queue \/ queue' = Append(queue, Refusal(FALSE))
  BY SendEffect DEF Gone, NotSent
<1> QED BY <1>1, FramedReply DEF TypeOK, Framed

LEMMA FramedNext ==
  ASSUME Inv, [Next]_vars
  PROVE  Framed'
<1>0. TypeOK /\ Staged /\ Framed /\ queue \in Seq(Datagrams)
  BY DEF Inv, TypeOK
<1>1. ASSUME NEW S \in SUBSET Interfaces, Flush(S) PROVE Framed'
  BY <1>0, <1>1 DEF Flush, Framed, socketVars
<1>e. ~NoDump.on /\ FramedIn(<<>>, NoDump, FALSE) /\ FramedIn(<<>>, NoDump, TRUE)
  BY DEF NoDump, FramedIn
<1>2. ASSUME OpenFails PROVE Framed'
  BY <1>0, <1>e, <1>2 DEF OpenFails, Return, Staged, Framed, socketVars
<1>3. ASSUME SendFails PROVE Framed'
  BY <1>0, <1>e, <1>3 DEF SendFails, Return, Staged, Framed
<1>4. ASSUME Request PROVE Framed'
  <2>1. queue = <<>> /\ Stale(queue) = <<>> /\ dump = NoDump /\ ended' = FALSE
    BY <1>0, <1>4, StaleType DEF Request, Staged
  <2>2. CASE Accept
    <3> DEFINE d == [on |-> TRUE, left |-> Present, fresh |-> TRUE]
    <3>1. queue' = <<>> /\ dump' = d /\ d.on /\ d.fresh
      BY <2>1, <2>2 DEF Accept
    <3> HIDE DEF d
    <3>2. FramedIn(<<>>, d, FALSE)
      BY <3>1 DEF FramedIn
    <3> QED BY <2>1, <3>1, <3>2 DEF Framed
  <2>3. CASE Refuse
    <3>1. queue' = Append(<<>>, Refusal(TRUE)) /\ dump' = NoDump
      BY <2>1, <2>3 DEF Refuse, NoDump
    <3>2. Refusal(TRUE).error /\ ~Refusal(TRUE).done
      BY DEF Refusal
    <3>3. FramedIn(Append(<<>>, Refusal(TRUE)), NoDump, FALSE)
      BY <3>2, FramedSingle
    <3> QED BY <2>1, <3>1, <3>3 DEF Framed
  <2> QED BY <1>4, <2>2, <2>3 DEF Request
<1>5. ASSUME Receive PROVE Framed'
  <2>1. FramedIn(Tail(queue), dump, Head(queue).done)
    BY <1>0, <1>5, FramedTail DEF Receive, Framed
  <2> QED BY <1>5, <2>1 DEF Receive, Framed
<1>6. ASSUME ReceiveTruncated PROVE Framed'
  <2>1. FramedIn(Tail(queue), dump, FALSE)
    BY <1>0, <1>6, FramedTail DEF ReceiveTruncated, Framed
  <2> QED BY <1>6, <2>1 DEF ReceiveTruncated, Framed
<1>7. ASSUME ReceiveFails PROVE Framed'
  BY <1>0, <1>7 DEF ReceiveFails, Framed, FramedIn, socketVars
<1>8. ASSUME NEW e \in inbox, Parse(e) PROVE Framed'
  <2> DEFINE more == IF Hit(e) THEN batch \cup {e[1]} ELSE batch
  <2>1. more \in SUBSET Flows
    BY <1>0 DEF TypeOK
  <2>2. queue' = queue \/ Sent(more) \/ Unsent
    BY <1>8 DEF Parse
  <2> HIDE DEF more
  <2>3. FramedIn(queue', dump, ended)
    BY <1>0, <2>1, <2>2, FramedGone DEF Framed
  <2> QED BY <1>8, <2>3 DEF Parse, Framed
<1>9. ASSUME Parsed PROVE Framed'
  BY <1>0, <1>9 DEF Parsed, Framed, socketVars
<1>10. ASSUME SendRest PROVE Framed'
  <2>1. FramedIn(queue', dump, ended)
    BY <1>0, <1>10, FramedGone DEF SendRest, TypeOK
  <2> QED BY <1>10, <2>1 DEF SendRest, Framed
<1>11. ASSUME Finish PROVE Framed'
  <2>1. queue' = <<>> /\ dump' = NoDump /\ ended' = FALSE
    BY <1>0, <1>11 DEF Finish, CleanUp, Drain, Reopen, Return, Framed, FramedIn
  <2> QED BY <1>e, <2>1 DEF Framed
<1>12. ASSUME KernelDumps PROVE Framed'
  <2>1. PICK shown \in SUBSET Present, done \in BOOLEAN :
          /\ queue' = Append(queue, [Entries({<<f, table[f]>> : f \in shown}, done)
                                       EXCEPT !.fresh = dump.fresh])
          /\ dump' = IF done THEN NoDump ELSE [dump EXCEPT !.left = dump.left \ shown]
    BY <1>12 DEF KernelDumps
  <2> DEFINE m == [Entries({<<f, table[f]>> : f \in shown}, done) EXCEPT !.fresh = dump.fresh]
  <2>2. {<<f, table[f]>> : f \in shown} \subseteq Flows \X Addresses
    BY <1>0 DEF Present, TypeOK
  <2>3. m \in Datagrams /\ ~m.error /\ m.done = done
    BY <1>0, <2>2 DEF Entries, Datagrams, TypeOK, Dumps
  <2>4. dump.on /\ dump.fresh /\ ~ended
    BY <1>0, <1>12 DEF KernelDumps, Framed, FramedIn
  <2>5. dump' = NoDump \/ (dump'.on /\ dump'.fresh /\ ~m.done)
    BY <1>0, <2>1, <2>3, <2>4 DEF TypeOK, Dumps
  <2>6. FramedIn(queue, dump, FALSE)
    BY <1>0, <2>4 DEF Framed, FramedIn
  <2> HIDE DEF m
  <2>7. FramedIn(Append(queue, m), dump', FALSE)
    BY <1>0, <2>3, <2>4, <2>5, <2>6, FramedEntries
  <2>8. queue' = Append(queue, m) /\ ended' = ended
    BY <1>12, <2>1 DEF KernelDumps, callVars, m
  <2>9. ended = FALSE
    BY <1>0, <2>4 DEF TypeOK
  <2> QED BY <2>7, <2>8, <2>9 DEF Framed
<1>13. ASSUME NEW f \in Flows, FlowChanges(f) PROVE Framed'
  <2>1. dump' = [dump EXCEPT !.left = dump.left \ {f}]
    BY <1>13 DEF FlowChanges
  <2>2. dump'.on = dump.on /\ dump'.fresh = dump.fresh
    BY <1>0, <2>1 DEF TypeOK, Dumps
  <2>3. dump = NoDump => dump' = NoDump
    BY <2>1 DEF NoDump
  <2> QED BY <1>0, <1>13, <2>2, <2>3 DEF FlowChanges, Framed, FramedIn, callVars
<1>14. ASSUME UNCHANGED vars PROVE Framed'
  BY <1>0, <1>14 DEF vars, socketVars, callVars, Framed
<1> QED
  BY <1>1, <1>2, <1>3, <1>4, <1>5, <1>6, <1>7, <1>8, <1>9, <1>10, <1>11, <1>12, <1>13, <1>14
     DEF Next, Worker
-----------------------------------------------------------------------------
(* What is under way was of a flushed address, and what has to go is under *)
(* way.                                                                    *)

(* A deletion takes flows off the table and off the flows that have to go. *)
LEMMA MatchingGone ==
  ASSUME TypeOK, NEW B \in SUBSET Flows, Gone(B) \/ NotSent
  PROVE  /\ Matching(table', ips) \subseteq Matching(table, ips)
         /\ steady \subseteq Matching(table, ips) => steady' \subseteq Matching(table', ips)
<1>1. None \notin ips
  BY ConntrackAssumption DEF TypeOK
<1>2. CASE Gone(B)
  BY <1>1, <1>2 DEF Gone, Matching, TypeOK
<1>3. CASE NotSent
  BY <1>3 DEF NotSent
<1> QED BY <1>2, <1>3

LEMMA KnownGone ==
  ASSUME TypeOK, NEW B \in SUBSET Flows, Gone(B) \/ NotSent,
         KnownIn(queue, ips, ever)
  PROVE  KnownIn(queue', ips, ever)
<1>1. queue' = queue \/ queue' = Append(queue, Refusal(FALSE))
  BY DEF Gone, NotSent
<1>2. Refusal(FALSE) \in Datagrams /\ ~Refusal(FALSE).fresh
  BY DEF Refusal, Datagrams
<1> QED BY <1>1, <1>2, KnownAppend DEF TypeOK

LEMMA KnownNext ==
  ASSUME Inv, [Next]_vars
  PROVE  Known'
<1>0. TypeOK /\ Staged /\ Framed /\ Known /\ queue \in Seq(Datagrams)
  BY DEF Inv, TypeOK
<1>1. ASSUME NEW S \in SUBSET Interfaces, Flush(S) PROVE Known'
  BY <1>1 DEF Flush, Known, Active
<1>2. ASSUME OpenFails \/ SendFails \/ Finish PROVE Known'
  BY <1>2 DEF OpenFails, SendFails, Finish, Return, Known, Active
<1>4. ASSUME Request PROVE Known'
  <2>1. queue = <<>> /\ Stale(queue) = <<>> /\ inbox = {} /\ batch = {}
    BY <1>0, <1>4, StaleType DEF Request, Staged
  <2>2. /\ steady' = Matching(table', ips') /\ ever' = Matching(table', ips')
        /\ inbox' = {} /\ batch' = {}
    BY <1>4, <2>1 DEF Request
  <2>3. queue' = <<>> \/ queue' = Append(<<>>, Refusal(TRUE))
    BY <1>4, <2>1 DEF Request, Accept, Refuse
  <2>4. KnownIn(queue', ips', ever')
    BY <2>3 DEF KnownIn, Refusal
  <2> QED BY <2>2, <2>4 DEF Known
<1>5. ASSUME Receive \/ ReceiveTruncated PROVE Known'
  <2>1. /\ queue # <<>> /\ queue' = Tail(queue) /\ Active
        /\ inbox' \subseteq Head(queue).shows
        /\ inbox' # {} => Head(queue).fresh
        /\ UNCHANGED <<table, ips, batch, steady, ever>>
    BY <1>5 DEF Receive, ReceiveTruncated, Active
  <2>2. /\ KnownIn(Tail(queue), ips, ever)
        /\ \A f \in Flows, a \in ips :
             Head(queue).fresh /\ <<f, a>> \in Head(queue).shows => f \in ever
    BY <1>0, <2>1, KnownTail DEF Known
  <2> QED BY <1>0, <2>1, <2>2 DEF Known
<1>6. ASSUME ReceiveFails \/ Parsed PROVE Known'
  BY <1>0, <1>6 DEF ReceiveFails, Parsed, Known, Active, socketVars
<1>8. ASSUME NEW e \in inbox, Parse(e) PROVE Known'
  <2> DEFINE more == IF Hit(e) THEN batch \cup {e[1]} ELSE batch
  <2>1. Active /\ e \in Flows \X Addresses
    BY <1>0, <1>8 DEF Parse, Active, TypeOK
  <2>2. more \in SUBSET Flows /\ more \subseteq ever
    BY <1>0, <2>1 DEF TypeOK, Known, Hit
  <2>3. /\ batch' \subseteq more /\ inbox' \subseteq inbox /\ ips' = ips /\ ever' = ever
        /\ UNCHANGED <<table, queue, steady>> \/ Sent(more) \/ Unsent
    BY <1>8 DEF Parse
  <2> HIDE DEF more
  <2>4. CASE UNCHANGED <<table, queue, steady>>
    BY <1>0, <2>1, <2>2, <2>3, <2>4 DEF Known
  <2>5. CASE Sent(more) \/ Unsent
    <3>1. Gone(more) \/ NotSent
      BY <2>2, <2>5, SendEffect
    <3>2. KnownIn(queue', ips, ever)
      BY <1>0, <2>1, <2>2, <3>1, KnownGone DEF Known
    <3>3. steady' \subseteq Matching(table', ips) /\ Matching(table', ips) \subseteq ever
      BY <1>0, <2>1, <2>2, <3>1, MatchingGone DEF Known
    <3> QED BY <1>0, <2>1, <2>2, <2>3, <3>2, <3>3 DEF Known
  <2> QED BY <2>3, <2>4, <2>5
<1>10. ASSUME SendRest PROVE Known'
  <2>1. /\ Active /\ batch \in SUBSET Flows
        /\ batch' = {} /\ inbox' = inbox /\ ips' = ips /\ ever' = ever
    BY <1>0, <1>10 DEF SendRest, Active, TypeOK
  <2>2. Gone(batch) \/ NotSent
    BY <1>10, <2>1, SendEffect DEF SendRest
  <2>3. KnownIn(queue', ips, ever)
    BY <1>0, <2>1, <2>2, KnownGone DEF Known
  <2>4. steady' \subseteq Matching(table', ips) /\ Matching(table', ips) \subseteq ever
    BY <1>0, <2>1, <2>2, MatchingGone DEF Known
  <2> QED BY <1>0, <2>1, <2>3, <2>4 DEF Known
<1>12. ASSUME KernelDumps PROVE Known'
  <2>1. Active
    BY <1>0, <1>12 DEF KernelDumps, Staged, NoDump, Active, TypeOK
  <2>2. PICK shown \in SUBSET Present, done \in BOOLEAN :
          queue' = Append(queue, [Entries({<<f, table[f]>> : f \in shown}, done)
                                   EXCEPT !.fresh = dump.fresh])
    BY <1>12 DEF KernelDumps
  <2> DEFINE m == [Entries({<<f, table[f]>> : f \in shown}, done) EXCEPT !.fresh = dump.fresh]
  <2>3. {<<f, table[f]>> : f \in shown} \subseteq Flows \X Addresses
    BY <1>0 DEF Present, TypeOK
  <2>4. m \in Datagrams /\ m.shows = {<<f, table[f]>> : f \in shown}
    BY <1>0, <2>3 DEF Entries, Datagrams, TypeOK, Dumps
  <2>5. \A f \in Flows, a \in ips : <<f, a>> \in m.shows => f \in ever
    BY <1>0, <2>1, <2>4 DEF Known, Matching
  <2> HIDE DEF m
  <2>6. KnownIn(Append(queue, m), ips, ever)
    BY <1>0, <2>1, <2>4, <2>5, KnownAppend DEF Known
  <2>7. queue' = Append(queue, m)
    BY <2>2 DEF m
  <2> QED BY <1>0, <1>12, <2>1, <2>6, <2>7 DEF KernelDumps, Known, callVars
<1>13. ASSUME NEW f \in Flows, FlowChanges(f) PROVE Known'
  <2>1. CASE Active
    <3>1. PICK a \in Addresses \cup {None} :
            /\ table' = [table EXCEPT ![f] = a]
            /\ steady' = steady \ {f}
            /\ ever' = IF a \in ips /\ pc # "request" THEN ever \cup {f} ELSE ever
      BY <1>13 DEF FlowChanges
    <3>2. /\ ever \subseteq ever' /\ UNCHANGED <<queue, inbox, ips, batch>>
          /\ a \in ips => f \in ever'
      BY <1>13, <2>1, <3>1 DEF FlowChanges, callVars, Active
    <3>3. steady' \subseteq Matching(table', ips) /\ Matching(table', ips) \subseteq ever'
      BY <1>0, <2>1, <3>1, <3>2 DEF Known, Matching, TypeOK
    <3>4. KnownIn(queue, ips, ever')
      BY <1>0, <2>1, <3>2 DEF Known, KnownIn
    <3> QED BY <1>0, <2>1, <3>2, <3>3, <3>4 DEF Known
  <2>2. CASE ~Active
    BY <1>13, <2>2 DEF FlowChanges, callVars, Known, Active
  <2> QED BY <2>1, <2>2
<1>14. ASSUME UNCHANGED vars PROVE Known'
  BY <1>0, <1>14 DEF vars, socketVars, callVars, Known, Active
<1> QED
  BY <1>1, <1>2, <1>4, <1>5, <1>6, <1>8, <1>10, <1>12, <1>13, <1>14 DEF Next, Worker
(* A flow that has to go moves from the dump to the socket, the datagram,  *)
(* the batch; or an error is on record or on its way.                      *)
DueAt(f, left, q, in, b, A) ==
  \/ f \in left \/ f \in b
  \/ \E a \in A : <<f, a>> \in in
  \/ Waits(f, q, A)

LEMMA DueIsDueAt ==
  /\ \A f : Due(f) <=> DueAt(f, dump.left, queue, inbox, batch, ips)
  /\ \A f : Due(f)' <=> DueAt(f, dump.left', queue', inbox', batch', ips')
  BY DEF Due, DueAt

LEMMA OwedGone ==
  ASSUME TypeOK, NEW B \in SUBSET Flows, Gone(B) \/ NotSent, NEW in,
         \/ failed = TRUE \/ Refused(queue)
         \/ \A f \in steady : DueAt(f, dump.left, queue, in, B, ips)
  PROVE  \/ failed' = TRUE \/ Refused(queue')
         \/ \A f \in steady' : DueAt(f, dump.left, queue', in, {}, ips)
<1>1. CASE NotSent
  BY <1>1 DEF NotSent
<1>2. CASE Gone(B)
  <2>1. /\ queue' = queue \/ queue' = Append(queue, Refusal(FALSE))
        /\ Refusal(FALSE) \in Datagrams /\ queue \in Seq(Datagrams)
    BY <1>2, Types DEF Gone, TypeOK
  <2>2. /\ Refused(queue) => Refused(queue')
        /\ \A f : Waits(f, queue, ips) => Waits(f, queue', ips)
    BY <2>1, WaitsAppend
  <2>3. failed' = failed /\ steady' = steady \ B
    BY <1>2 DEF Gone
  <2> QED BY <2>2, <2>3 DEF DueAt
<1> QED BY <1>1, <1>2

LEMMA OwedNext ==
  ASSUME Inv, [Next]_vars
  PROVE  Owed'
<1>0. TypeOK /\ Staged /\ Framed /\ Known /\ Owed /\ queue \in Seq(Datagrams)
  BY DEF Inv, TypeOK
<1>1. ASSUME NEW S \in SUBSET Interfaces, Flush(S) PROVE Owed'
  BY <1>1 DEF Flush, Owed, Active
<1>2. ASSUME OpenFails \/ SendFails \/ Finish PROVE Owed'
  BY <1>2 DEF OpenFails, SendFails, Finish, Return, Owed, Active
<1>4. ASSUME Request PROVE Owed'
  <2>1. queue = <<>> /\ Stale(queue) = <<>> /\ ips' = ips
    BY <1>0, <1>4, StaleType DEF Request, Staged
  <2>2. CASE Accept
    <3>1. steady' \subseteq dump'.left
      BY <1>0, <1>4, <2>2, MatchingPresent DEF Request, Accept
    <3> QED BY <3>1 DEF Owed, Due
  <2>3. CASE Refuse
    <3>1. queue' = Append(<<>>, Refusal(TRUE)) /\ <<>> \in Seq(Datagrams)
      BY <2>1, <2>3 DEF Refuse
    <3>2. Refused(queue')
      BY <3>1, Types, WaitsAppend DEF Refusal
    <3> QED BY <3>2 DEF Owed
  <2> QED BY <1>4, <2>2, <2>3 DEF Request
<1>5. ASSUME Receive PROVE Owed'
  <2> DEFINE m == Head(queue)
  <2>1. /\ queue # <<>> /\ queue' = Tail(queue) /\ Active
        /\ m.error /\ m.fresh => failed' = TRUE
        /\ failed => failed'
        /\ m.fresh => inbox' = m.shows
        /\ UNCHANGED <<dump, ips, batch, steady>>
    BY <1>5 DEF Receive, Active
  <2>2. inbox = {}
    BY <1>0, <1>5 DEF Receive, Staged
  <2>3. m \in Datagrams /\ failed' \in BOOLEAN
    BY <1>0, <1>5, <2>1, TailItems DEF Receive, TypeOK, Datagrams
  <2>4. /\ Refused(queue) => Refused(queue') \/ failed' = TRUE
        /\ \A f : Waits(f, queue, ips) =>
             Waits(f, queue', ips) \/ \E a \in ips : <<f, a>> \in inbox'
    BY <1>0, <2>1, WaitsTail
  <2>5. \A f : Due(f) => Due(f)'
    BY <2>1, <2>2, <2>4 DEF Due
  <2> QED BY <1>0, <2>1, <2>3, <2>4, <2>5 DEF Owed
<1>6. ASSUME ReceiveTruncated \/ ReceiveFails PROVE Owed'
  BY <1>6 DEF ReceiveTruncated, ReceiveFails, Owed
<1>8. ASSUME NEW e \in inbox, Parse(e) PROVE Owed'
  <2> DEFINE more == IF Hit(e) THEN batch \cup {e[1]} ELSE batch
  <2>1. Active /\ more \in SUBSET Flows
    BY <1>0, <1>8 DEF Parse, Active, TypeOK
  <2>2. \A f : (\E a \in ips : <<f, a>> \in inbox) =>
               f \in more \/ \E a \in ips : <<f, a>> \in inbox \ {e}
    BY DEF Hit
  <2>3. \A f : Due(f) => DueAt(f, dump.left, queue, inbox \ {e}, more, ips)
    BY <2>2 DEF Due, DueAt
  <2>4. /\ inbox' = inbox \ {e} /\ ips' = ips /\ dump' = dump
        /\ \/ batch' = {} /\ (Sent(more) \/ Unsent)
           \/ batch' = more /\ UNCHANGED <<table, queue, failures, failed, steady>>
    BY <1>8 DEF Parse
  <2> HIDE DEF more
  <2>5. \/ failed = TRUE \/ Refused(queue)
        \/ \A f \in steady : DueAt(f, dump.left, queue, inbox \ {e}, more, ips)
    BY <1>0, <2>1, <2>3 DEF Owed
  <2>6. CASE batch' = more /\ UNCHANGED <<table, queue, failures, failed, steady>>
    BY <2>4, <2>5, <2>6, DueIsDueAt DEF Owed
  <2>7. CASE batch' = {} /\ (Sent(more) \/ Unsent)
    <3>1. \/ failed' = TRUE \/ Refused(queue')
          \/ \A f \in steady' : DueAt(f, dump.left, queue', inbox \ {e}, {}, ips)
      BY <1>0, <2>1, <2>5, <2>7, SendEffect, OwedGone
    <3> QED BY <2>4, <2>7, <3>1, DueIsDueAt DEF Owed
  <2> QED BY <2>4, <2>6, <2>7
<1>9. ASSUME Parsed PROVE Owed'
  <2>1. Active /\ UNCHANGED <<queue, dump, ips, inbox, batch, failed, steady>>
    BY <1>9 DEF Parsed, Active, socketVars
  <2> QED BY <1>0, <2>1 DEF Owed, Due
<1>10. ASSUME SendRest PROVE Owed'
  <2>1. /\ Active /\ batch \in SUBSET Flows /\ batch' = {}
        /\ UNCHANGED <<dump, ips, inbox>>
    BY <1>0, <1>10 DEF SendRest, Active, TypeOK
  <2>2. Gone(batch) \/ NotSent
    BY <1>10, <2>1, SendEffect DEF SendRest
  <2>3. \/ failed = TRUE \/ Refused(queue)
        \/ \A f \in steady : DueAt(f, dump.left, queue, inbox, batch, ips)
    BY <1>0, <2>1, DueIsDueAt DEF Owed
  <2>4. \/ failed' = TRUE \/ Refused(queue')
        \/ \A f \in steady' : DueAt(f, dump.left, queue', inbox, {}, ips)
    BY <1>0, <2>1, <2>2, <2>3, OwedGone
  <2> QED BY <2>1, <2>4, DueIsDueAt DEF Owed
<1>12. ASSUME KernelDumps PROVE Owed'
  <2>1. Active /\ dump.on /\ dump.fresh
    BY <1>0, <1>12 DEF KernelDumps, Staged, NoDump, Active, TypeOK, Framed, FramedIn
  <2>2. PICK shown \in SUBSET Present, done \in BOOLEAN :
          /\ IF done THEN dump.left \ shown = {} ELSE dump.left \ shown # dump.left
          /\ queue' = Append(queue, [Entries({<<f, table[f]>> : f \in shown}, done)
                                       EXCEPT !.fresh = dump.fresh])
          /\ dump' = IF done THEN NoDump ELSE [dump EXCEPT !.left = dump.left \ shown]
    BY <1>12 DEF KernelDumps
  <2> DEFINE m == [Entries({<<f, table[f]>> : f \in shown}, done) EXCEPT !.fresh = dump.fresh]
  <2>3. {<<f, table[f]>> : f \in shown} \subseteq Flows \X Addresses
    BY <1>0 DEF Present, TypeOK
  <2>4. /\ m \in Datagrams /\ m.shows = {<<f, table[f]>> : f \in shown} /\ m.fresh
    BY <1>0, <2>1, <2>3 DEF Entries, Datagrams, TypeOK, Dumps
  <2>5. dump.left \subseteq shown \cup dump'.left
    <3>1. CASE done
      BY <2>2, <3>1
    <3>2. CASE ~done
      BY <1>0, <2>2, <3>2 DEF TypeOK, Dumps
    <3> QED BY <3>1, <3>2
  <2>6. \A f \in steady : f \in shown => \E a \in ips : m.fresh /\ <<f, a>> \in m.shows
    BY <1>0, <2>1, <2>4 DEF Known, Matching
  <2> HIDE DEF m
  <2>7. queue' = Append(queue, m) /\ UNCHANGED <<ips, inbox, batch, failed, steady>>
    BY <1>12, <2>2 DEF KernelDumps, callVars, m
  <2>8. /\ Refused(queue) => Refused(queue')
        /\ \A f : Waits(f, queue, ips) => Waits(f, queue', ips)
        /\ \A f \in steady : f \in shown => Waits(f, queue', ips)
    BY <1>0, <2>4, <2>6, <2>7, WaitsAppend
  <2>9. \A f \in steady : Due(f) => Due(f)'
    BY <2>5, <2>7, <2>8 DEF Due
  <2> QED BY <1>0, <2>1, <2>7, <2>8, <2>9 DEF Owed
<1>13. ASSUME NEW f \in Flows, FlowChanges(f) PROVE Owed'
  <2>1. /\ steady' = steady \ {f} /\ dump' = [dump EXCEPT !.left = @ \ {f}]
        /\ UNCHANGED <<queue, ips, inbox, batch, failed, pc>>
    BY <1>13 DEF FlowChanges, callVars
  <2>2. dump'.left = dump.left \ {f}
    BY <1>0, <2>1 DEF TypeOK, Dumps
  <2>3. \A k \in steady' : Due(k) => Due(k)'
    BY <2>1, <2>2 DEF Due
  <2> QED BY <1>0, <2>1, <2>3 DEF Owed, Active
<1>14. ASSUME UNCHANGED vars PROVE Owed'
  <2>1. UNCHANGED <<queue, dump, ips, inbox, batch, failed, steady, pc>>
    BY <1>14 DEF vars, socketVars, callVars
  <2> QED BY <1>0, <2>1 DEF Owed, Due, Active
<1> QED
  BY <1>1, <1>2, <1>4, <1>5, <1>6, <1>8, <1>9, <1>10, <1>12, <1>13, <1>14 DEF Next, Worker

-----------------------------------------------------------------------------
(* Theorems.                                                               *)

LEMMA InvInit == Init => Inv
<1> SUFFICES ASSUME Init PROVE Inv
  OBVIOUS
<1>1. TypeOK
  BY TypeInit
<1>2. Staged /\ Owed /\ Known
  BY DEF Init, Staged, Owed, Known, Active
<1>3. Framed
  BY DEF Init, Framed, FramedIn, NoDump
<1> QED BY <1>1, <1>2, <1>3 DEF Inv

LEMMA InvNext == Inv /\ [Next]_vars => Inv'
  BY TypeNext, StagedNext, FramedNext, KnownNext, OwedNext DEF Inv

LEMMA Invariance == Spec => []Inv
  BY InvInit, InvNext, PTL DEF Spec

(* Every variable of the flusher keeps its type, and between two messages  *)
(* a batch always has room for one more deletion.                          *)
THEOREM ConntrackTypes == Spec => []TypeOK
<1>1. Inv => TypeOK
  BY DEF Inv
<1> QED BY <1>1, Invariance, PTL

(* Between two calls the socket holds nothing and no dump is under way on  *)
(* it, however the call before ended.                                      *)
THEOREM SocketIsClean == Spec => []SocketClean
<1>1. Inv => SocketClean
  BY DEF Inv, Staged, SocketClean
<1> QED BY <1>1, Invariance, PTL

(* A call that reports success has deleted every flow that was of the      *)
(* flushed addresses from the request for the dump on.                     *)
THEOREM SuccessFlushesAll == Spec => FlushedAll
<1>1. ASSUME Inv, Finish, result' = "flushed" PROVE steady = {}
  <2>1. pc = "finish" /\ batch = {} /\ failed = FALSE
    BY <1>1 DEF Finish, Return, Inv, TypeOK
  <2>2. ended = TRUE /\ inbox = {}
    BY <1>1, <2>1 DEF Inv, Staged
  <2>3. dump.left = {} /\ \A i \in 1..Len(queue) : queue[i].error /\ ~queue[i].fresh
    BY <1>1, <2>2 DEF Inv, Framed, FramedIn, NoDump, Reply
  <2>4. ~Refused(queue) /\ \A f : ~Due(f)
    BY <2>1, <2>2, <2>3 DEF Refused, Due, Waits
  <2> QED BY <1>1, <2>1, <2>4 DEF Inv, Owed, Active
<1>2. Inv /\ [Next]_vars => [Finish /\ result' = "flushed" => steady = {}]_vars
  BY <1>1
<1> QED BY <1>2, Invariance, PTL DEF Spec, FlushedAll

(* Only flows that were of a flushed address during the call are deleted.  *)
THEOREM OthersSpared == Spec => SparesOthers
<1>1. ASSUME Inv, Worker, NEW f \in Flows, table[f] # None, table'[f] = None
      PROVE  f \in ever
  <2>1. table' # table
    BY <1>1
  <2>2. ASSUME NEW B \in SUBSET Flows, Sent(B) \/ Unsent PROVE f \in B
    <3>1. Gone(B) \/ NotSent
      BY <2>2, SendEffect
    <3> QED BY <1>1, <3>1 DEF Gone, NotSent
  <2>3. CASE SendRest
    <3>1. batch \subseteq Flows /\ batch \subseteq ever
      BY <1>1, <2>3 DEF Inv, TypeOK, Known, Active, SendRest
    <3> QED BY <2>2, <2>3, <3>1 DEF SendRest
  <2>4. ASSUME NEW e \in inbox, Parse(e) PROVE f \in ever
    <3> DEFINE more == IF Hit(e) THEN batch \cup {e[1]} ELSE batch
    <3>1. Active /\ e \in Flows \X Addresses
      BY <1>1, <2>4 DEF Parse, Active, Inv, TypeOK
    <3>2. more \in SUBSET Flows /\ more \subseteq ever
      BY <1>1, <3>1 DEF Inv, TypeOK, Known, Hit
    <3>3. Sent(more) \/ Unsent
      BY <2>1, <2>4 DEF Parse
    <3> HIDE DEF more
    <3> QED BY <2>2, <3>2, <3>3
  <2>5. ~(\/ OpenFails \/ SendFails \/ Request \/ Receive \/ ReceiveTruncated
          \/ ReceiveFails \/ Parsed \/ Finish)
    BY <2>1 DEF OpenFails, SendFails, Request, Receive, ReceiveTruncated, ReceiveFails,
                Parsed, Finish
  <2> QED BY <1>1, <2>3, <2>4, <2>5 DEF Worker
<1> DEFINE Spared == \A f \in Flows : Worker /\ table[f] # None /\ table'[f] = None => f \in ever
<1>2. Inv /\ [Next]_vars => [Spared]_vars
  BY <1>1
<1> QED BY <1>2, Invariance, PTL DEF Spec, SparesOthers

=============================================================================
