--------------------------- MODULE Samples_proofs ---------------------------
(***************************************************************************)
(* Proofs about the small programs: parent/parent.c for any number of      *)
(* children, the server of test_conn for any set of clients, in any order  *)
(* of connecting, sending, closing and resetting, the load balancer for    *)
(* any devices, and the Sudoku solver for grids of any size.               *)
(***************************************************************************)
EXTENDS MCSamples, Vectors_proofs, FiniteSetTheorems

-----------------------------------------------------------------------------
(* parent.c                                                                *)

\* Every step of parent.c, of the parent or of a child, keeps the state typed.
LEMMA TypeInduction == TypeOK /\ [Next]_vars => TypeOK'
<1> SUFFICES ASSUME TypeOK, [Next]_vars PROVE TypeOK'
  OBVIOUS
<1> USE NumChildAssumption DEF TypeOK, Children, ChildStates, PidOf
<1>1. CASE Fork
  BY <1>1 DEF Fork
<1>2. CASE Wait
  BY <1>2 DEF Wait
<1>3. CASE Sleep
  BY <1>3 DEF Sleep
<1>4. CASE PrintSlot
  BY <1>4 DEF PrintSlot
<1>5. CASE Finish
  BY <1>5 DEF Finish
<1>6. ASSUME NEW c \in Children, Child(c) PROVE TypeOK'
  <2>1. CASE WriteSlot(c)
    BY <2>1 DEF WriteSlot
  <2>2. CASE Exit(c)
    BY <2>2 DEF Exit
  <2> QED
    BY <1>6, <2>1, <2>2 DEF Child
<1>7. CASE UNCHANGED vars
  BY <1>7 DEF vars
<1> QED
  BY <1>1, <1>2, <1>3, <1>4, <1>5, <1>6, <1>7 DEF Next, Parent

\* Type correctness of parent.c's state.
THEOREM ParentTypeOK == Spec => []TypeOK
<1>1. Init => TypeOK
  BY NumChildAssumption DEF Init, TypeOK, Children, ChildStates
<1> QED
  BY <1>1, TypeInduction, PTL DEF Spec

\* Main result on parent.c: the single wait() before the listing is enough
\* for the list to show at least one pid, whatever the number of children
\* and however the children are scheduled.
THEOREM ParentListShowsAChild == Spec => []ListShowsAChild
<1> USE NumChildAssumption DEF Children, PidOf
<1>1. Init => ListInv
  BY DEF Init, ListInv
<1>2. TypeOK /\ ListInv /\ [Next]_vars => ListInv'
  <2> SUFFICES ASSUME TypeOK, ListInv, [Next]_vars PROVE ListInv'
    OBVIOUS
  <2> USE DEF TypeOK, ListInv, Shown, ChildStates
  <2>1. CASE Fork
    BY <2>1 DEF Fork
  <2>2. CASE Wait
    BY <2>2 DEF Wait
  <2>3. CASE Sleep
    BY <2>3 DEF Sleep
  <2>4. CASE PrintSlot
    <3>1. /\ pc = "list" /\ pc' = "list" /\ i \in 0 .. NumChild - 1
          /\ i' = i + 1
          /\ child' = child /\ slot' = slot
          /\ printed' = Append(printed, slot[i])
      BY <2>4 DEF PrintSlot
    <3>2. Len(printed) = i /\ printed \in Seq(0 .. NumChild) /\ slot[i] \in 0 .. NumChild
      BY <3>1
    <3>3. /\ Len(printed') = i + 1
          /\ printed'[i + 1] = slot[i]
          /\ \A k \in 1 .. i : printed'[k] = printed[k]
      <4> HIDE DEF TypeOK, ListInv
      <4> QED
        BY <3>1, <3>2, AppendProperties
    <3>4. ASSUME NEW c \in Children, Shown(c) PROVE Shown(c)'
      <4>1. CASE c < i
        BY <3>1, <3>3, <3>4, <4>1
      <4>2. CASE c >= i
        BY <3>1, <3>3, <3>4, <4>2
      <4> QED
        BY <4>1, <4>2
    <3>5. \/ \E c \in Children : Shown(c)'
          \/ \A c \in Children : child'[c] = "failed"
      <4> HIDE DEF Shown
      <4> QED
        BY <3>1, <3>4
    <3> QED
      BY <3>1, <3>3, <3>5
  <2>5. CASE Finish
    BY <2>5 DEF Finish
  <2>6. ASSUME NEW c \in Children, WriteSlot(c) PROVE ListInv'
    BY <2>6 DEF WriteSlot
  <2>7. ASSUME NEW c \in Children, Exit(c) PROVE ListInv'
    BY <2>7 DEF Exit
  <2>8. CASE UNCHANGED vars
    BY <2>8 DEF vars
  <2> QED
    BY <2>1, <2>2, <2>3, <2>4, <2>5, <2>6, <2>7, <2>8 DEF Next, Parent, Child
<1>3. TypeOK /\ ListInv => ListShowsAChild
  BY DEF TypeOK, ListInv, Shown, ListShowsAChild
<1> QED
  BY <1>1, <1>2, <1>3, ParentTypeOK, PTL DEF Spec

-----------------------------------------------------------------------------
(* The select server.                                                      *)

\* The clients are kept in the order in which they were accepted, each once.
Increasing(v) == \A k, l \in 1 .. Len(v) : k < l => v[k] < v[l]

\* No byte comes back that was not sent.
Balanced == \A c \in Clients : echoed[c] + inbuf[c] <= sent[c]

\* select looks at listenfd and the first client only: when the loop is
\* entered the first client is what is ready, and nothing else.
LoopInv == loc = "loop" => rfds = {1}

ServerInv ==
  /\ Server!TypeOK /\ Increasing(connectfd) /\ Balanced /\ LoopInv
  /\ loc = "accept" => backlog # << >>
  /\ Server!SpinNeedsTwoClients /\ Server!RecvNeverBlocks

---------------------------------------------------------------------------

\* The types of the parts.
LEMMA ServerTypes ==
  ASSUME Server!SelectAssumption, Server!TypeOK
  PROVE  /\ connectfd \in Seq(Nat) /\ Len(connectfd) \in Nat /\ Len(accepted) \in Nat /\ at \in Nat \ {0}
         /\ \A k \in 1 .. Len(connectfd) : connectfd[k] \in 1 .. Len(accepted)
         /\ \A k \in 1 .. Len(accepted) : accepted[k] \in Clients
         /\ MaxSent \in Nat
         /\ Server!InLoop => /\ at \in 1 .. Len(connectfd) /\ connectfd[at] \in 1 .. Len(accepted)
                      /\ Server!Current \in Clients /\ Server!Current = accepted[connectfd[at]]
<1>1. connectfd \in Seq(1 .. Len(accepted)) /\ accepted \in Seq(Clients) /\ at \in 1 .. Len(connectfd) + 1
  BY DEF Server!TypeOK
<1>2. Len(connectfd) \in Nat /\ Len(accepted) \in Nat
  BY <1>1
<1>3. /\ \A k \in 1 .. Len(connectfd) : connectfd[k] \in 1 .. Len(accepted)
      /\ \A k \in 1 .. Len(accepted) : accepted[k] \in Clients
  BY <1>1
<1>4. at \in Nat \ {0} /\ MaxSent \in Nat
  BY <1>1, <1>2 DEF Server!SelectAssumption
<1>5. connectfd \in Seq(Nat)
  BY <1>1, <1>2
<1>6. ASSUME Server!InLoop
      PROVE  /\ at \in 1 .. Len(connectfd) /\ connectfd[at] \in 1 .. Len(accepted)
             /\ Server!Current \in Clients /\ Server!Current = accepted[connectfd[at]]
  BY <1>2, <1>3, <1>4, <1>6 DEF Server!InLoop, Server!Current
<1> QED
  BY <1>2, <1>3, <1>4, <1>5, <1>6

\* The descriptors that the loop finds behind the present one are later ones.
LEMMA NextIsNotFirst ==
  ASSUME Server!SelectAssumption, ServerInv, Server!InLoop, at + 1 <= Len(connectfd)
  PROVE  connectfd[at + 1] # 1
<1>1. at + 1 \in 1 .. Len(connectfd) /\ at \in 1 .. Len(connectfd) /\ at < at + 1
  BY ServerTypes DEF ServerInv
<1>2. connectfd[at] < connectfd[at + 1]
  BY <1>1 DEF ServerInv, Increasing
<1>3. connectfd[at] \in Nat /\ connectfd[at] >= 1 /\ connectfd[at + 1] \in Nat
  BY <1>1, ServerTypes DEF ServerInv
<1> QED
  BY <1>2, <1>3

\* select, or its timeout.
LEMMA SelectStep ==
  ASSUME Server!SelectAssumption, ServerInv, Server!Select
  PROVE  ServerInv'
<1>0. /\ loc = "select"
      /\ UNCHANGED <<connectfd, accepted, backlog, peer, sent, inbuf, echoed, late>>
  BY DEF Server!Select, Server!network
<1>1. Server!Ready \subseteq {0, 1} /\ Server!Ready \subseteq 0 .. Len(accepted)
  <2>1. PICK n \in Nat : n = Len(accepted)
    BY ServerTypes DEF ServerInv
  <2>2. DOMAIN connectfd = 1 .. Len(connectfd)
    BY DEF ServerInv, Server!TypeOK
  <2>3. \A k \in DOMAIN connectfd : connectfd[k] \in 0 .. n
    BY <2>1, <2>2, ServerTypes DEF ServerInv
  <2>4. rfds \subseteq 0 .. n /\ 0 \in 0 .. n
    BY <2>1 DEF ServerInv, Server!TypeOK
  <2>5. Server!Watched \subseteq 0 .. n
    BY <2>3, <2>4 DEF Server!Watched, Server!Listen
  <2>6. ASSUME NEW fd \in Server!Ready PROVE fd \in {0, 1} /\ fd \in 0 .. n
    <3>1. fd \in 0 .. n /\ fd <= 1
      BY <2>5, <2>6 DEF Server!Ready, Server!find_max_fd, Server!Listen
    <3> QED
      BY <3>1
  <2> QED
    BY <2>1, <2>6
<1>2. rfds' = Server!Ready
  BY DEF Server!Select
<1>3. loc' \in {"select", "accept", "loop"} /\ at' \in {1, at} /\ (loc' = "loop" => at' = 1)
  BY <1>0 DEF Server!Select
<1>4. Server!TypeOK'
  <2>1. at \in 1 .. Len(connectfd) + 1 /\ connectfd \in Seq(1 .. Len(accepted))
    BY DEF ServerInv, Server!TypeOK
  <2>2. Len(connectfd) \in Nat
    BY <2>1, LenProperties
  <2>3. at' \in 1 .. Len(connectfd) + 1
    BY <1>3, <2>1, <2>2
  <2> QED
    BY <1>0, <1>1, <1>2, <1>3, <2>3 DEF ServerInv, Server!TypeOK
<1>5. loc' = "loop" => Server!Ready = {1}
  BY <1>0, <1>1 DEF Server!Select, Server!Listen
<1>6. loc' = "accept" => 0 \in Server!Ready
  BY <1>0 DEF Server!Select, Server!Listen
<1>7. LoopInv' /\ (loc' = "accept" => backlog' # << >>) /\ Server!SpinNeedsTwoClients'
  BY <1>0, <1>2, <1>3, <1>5, <1>6 DEF LoopInv, Server!SpinNeedsTwoClients, Server!Ready, Server!Readable, Server!Listen
<1>8. Server!RecvNeverBlocks'
  <2> SUFFICES ASSUME loc' = "loop", connectfd'[at'] \in rfds' PROVE Server!Readable(connectfd[at])'
    BY DEF Server!RecvNeverBlocks, Server!InLoop
  <2>1. PICK fd : fd = connectfd'[at'] /\ fd \in Server!Ready
    BY <1>2
  <2>2. Server!Readable(fd)
    BY <2>1 DEF Server!Ready
  <2> QED
    BY <1>0, <2>1, <2>2 DEF Server!Readable, Server!Listen
<1>9. Increasing(connectfd)' /\ Balanced'
  BY <1>0 DEF ServerInv, Increasing, Balanced
<1> QED
  BY <1>4, <1>7, <1>8, <1>9 DEF ServerInv

\* A client is accepted: its descriptor is higher than all others.
LEMMA AcceptStep ==
  ASSUME Server!SelectAssumption, ServerInv, Server!Accept
  PROVE  ServerInv'
<1>0. /\ loc = "accept" /\ loc' = "select" /\ backlog # << >> /\ backlog \in Seq(Clients)
      /\ accepted \in Seq(Clients) /\ connectfd \in Seq(1 .. Len(accepted))
      /\ accepted' = Append(accepted, Head(backlog)) /\ backlog' = Tail(backlog)
      /\ connectfd' = Append(connectfd, Len(accepted'))
      /\ UNCHANGED <<rfds, at, peer, sent, echoed, inbuf, late>>
  BY DEF Server!Accept, ServerInv, Server!TypeOK
<1>1. /\ Head(backlog) \in Clients /\ backlog' \in Seq(Clients) /\ accepted' \in Seq(Clients)
      /\ Len(accepted') = Len(accepted) + 1 /\ Len(accepted) \in Nat
  BY <1>0, HeadTailProperties, AppendProperties
<1>2. connectfd \in Seq(1 .. Len(accepted'))
  BY <1>0, <1>1
<1>3. /\ connectfd' \in Seq(1 .. Len(accepted')) /\ Len(connectfd') = Len(connectfd) + 1
      /\ Len(connectfd) \in Nat
      /\ \A k \in 1 .. Len(connectfd) : connectfd'[k] = connectfd[k]
      /\ connectfd'[Len(connectfd) + 1] = Len(accepted) + 1
  BY <1>0, <1>1, <1>2, AppendProperties
<1>4. Server!TypeOK'
  <2>1. rfds' \subseteq 0 .. Len(accepted') /\ at' \in 1 .. Len(connectfd') + 1
    BY <1>0, <1>1, <1>3 DEF ServerInv, Server!TypeOK
  <2> QED
    BY <1>0, <1>1, <1>3, <2>1 DEF ServerInv, Server!TypeOK
<1>5. Increasing(connectfd')
  <2> SUFFICES ASSUME NEW k \in 1 .. Len(connectfd'), NEW l \in 1 .. Len(connectfd'), k < l
               PROVE  connectfd'[k] < connectfd'[l]
    BY DEF Increasing
  <2>0. k \in 1 .. Len(connectfd) /\ (l \in 1 .. Len(connectfd) \/ l = Len(connectfd) + 1)
    <3>1. PICK n \in Nat : n = Len(connectfd) /\ Len(connectfd') = n + 1
      BY <1>3
    <3> QED
      BY <3>1
  <2>1. connectfd'[k] = connectfd[k] /\ connectfd[k] \in 1 .. Len(accepted)
    <3>1. \A m \in 1 .. Len(connectfd) : connectfd[m] \in 1 .. Len(accepted)
      BY ServerTypes DEF ServerInv
    <3> QED
      BY <1>3, <2>0, <3>1
  <2>2. CASE l \in 1 .. Len(connectfd)
    BY <1>3, <2>0, <2>1, <2>2 DEF ServerInv, Increasing
  <2>3. CASE l = Len(connectfd) + 1
    BY <1>1, <1>3, <2>1, <2>3
  <2> QED
    BY <2>0, <2>2, <2>3
<1>6. Balanced'
  BY <1>0 DEF ServerInv, Balanced
<1> QED
  BY <1>0, <1>4, <1>5, <1>6 DEF ServerInv, LoopInv, Server!SpinNeedsTwoClients, Server!RecvNeverBlocks, Server!InLoop, Increasing

\* A client that closed leaves the vector.
LEMMA RecvCloseStep ==
  ASSUME Server!SelectAssumption, ServerInv, Server!RecvClose
  PROVE  ServerInv'
<1>0. /\ Server!InLoop /\ loc = "loop" /\ connectfd' = Server!RemoveIndex(connectfd, at)
      /\ UNCHANGED <<loc, rfds, at, accepted, backlog, peer, sent, inbuf, echoed, late>>
  BY DEF Server!RecvClose, Server!InLoop, Server!network
<1>1. at \in 1 .. Len(connectfd) /\ at \in Nat \ {0} /\ at <= Len(connectfd) /\ Len(connectfd) \in Nat
  BY <1>0, ServerTypes DEF ServerInv
<1>2. connectfd \in Seq(1 .. Len(accepted))
  BY DEF ServerInv, Server!TypeOK
<1>3. /\ connectfd' \in Seq(1 .. Len(accepted)) /\ Len(connectfd') = Len(connectfd) - 1
      /\ \A k \in 1 .. Len(connectfd) : k < at => connectfd'[k] = connectfd[k]
      /\ \A k \in 1 .. Len(connectfd) - 1 : k >= at => connectfd'[k] = connectfd[k + 1]
  <2>1. \A k \in 1 .. Len(connectfd) - 1 : k >= at => connectfd'[k] = connectfd[k + 1]
    BY <1>0, <1>1 DEF Server!RemoveIndex
  <2>2. connectfd' = RemoveIndex(connectfd, at)
    BY <1>0 DEF Server!RemoveIndex, RemoveIndex
  <2> QED
    BY <1>1, <1>2, <2>1, <2>2, RemoveIndexProperties
<1>4. Server!TypeOK'
  <2>1. at' \in 1 .. Len(connectfd') + 1
    BY <1>0, <1>1, <1>3
  <2> QED
    BY <1>0, <1>3, <2>1 DEF ServerInv, Server!TypeOK
<1>5. Increasing(connectfd')
  <2> SUFFICES ASSUME NEW k \in 1 .. Len(connectfd'), NEW l \in 1 .. Len(connectfd'), k < l
               PROVE  connectfd'[k] < connectfd'[l]
    BY DEF Increasing
  <2>1. k \in 1 .. Len(connectfd) /\ l \in 1 .. Len(connectfd)
        /\ k + 1 \in 1 .. Len(connectfd) /\ l + 1 \in 1 .. Len(connectfd)
    BY <1>1, <1>3
  <2>2. connectfd'[k] = connectfd[k] \/ (k >= at /\ connectfd'[k] = connectfd[k + 1])
    BY <1>1, <1>3, <2>1
  <2>3. (l < at /\ connectfd'[l] = connectfd[l]) \/ connectfd'[l] = connectfd[l + 1]
    <3>1. l \in 1 .. Len(connectfd) - 1
      BY <1>1, <1>3
    <3>2. CASE l < at
      BY <1>3, <2>1, <3>2
    <3>3. CASE l >= at
      BY <1>3, <3>1, <3>3
    <3> QED
      BY <1>1, <3>1, <3>2, <3>3
  <2>4. connectfd[k] < connectfd[l] /\ connectfd[k] < connectfd[l + 1] /\ connectfd[k + 1] < connectfd[l + 1]
    BY <2>1 DEF ServerInv, Increasing
  <2> QED
    BY <1>1, <2>2, <2>3, <2>4
<1>6. Server!RecvNeverBlocks'
  <2> SUFFICES ASSUME at <= Len(connectfd'), connectfd'[at] \in rfds PROVE FALSE
    BY <1>0 DEF Server!RecvNeverBlocks, Server!InLoop
  <2>1. at + 1 \in 1 .. Len(connectfd) /\ at \in 1 .. Len(connectfd) - 1 /\ at >= at
    BY <1>1, <1>3
  <2>2. connectfd'[at] = connectfd[at + 1]
    BY <1>3, <2>1
  <2>3. connectfd[at + 1] # 1
    BY <1>0, <2>1, NextIsNotFirst
  <2> QED
    BY <1>0, <2>2, <2>3 DEF ServerInv, LoopInv
<1> QED
  BY <1>0, <1>4, <1>5, <1>6 DEF ServerInv, LoopInv, Server!SpinNeedsTwoClients, Balanced, Increasing

\* What a client sent is sent back.
LEMMA RecvDataStep ==
  ASSUME Server!SelectAssumption, ServerInv, Server!RecvData
  PROVE  ServerInv'
<1>0. /\ Server!InLoop /\ loc = "loop" /\ at' = at + 1 /\ inbuf[Server!Current] > 0 /\ Server!Echo
      /\ UNCHANGED <<loc, connectfd, rfds, accepted, backlog, sent>>
  BY DEF Server!RecvData, Server!InLoop, Server!Echo
<1>1. /\ at \in 1 .. Len(connectfd) /\ Len(connectfd) \in Nat /\ Server!Current \in Clients /\ MaxSent \in Nat
  BY <1>0, ServerTypes DEF ServerInv
<1>2. /\ inbuf \in [Clients -> 0 .. MaxSent] /\ echoed \in [Clients -> 0 .. MaxSent]
      /\ sent \in [Clients -> 0 .. MaxSent]
      /\ peer \in [Clients -> {"new", "open", "closed", "reset"}]
      /\ \A c \in Clients : echoed[c] + inbuf[c] <= sent[c]
  BY DEF ServerInv, Server!TypeOK, Balanced
<1>3. PICK x : x = Server!Current
  OBVIOUS
<1>4. /\ inbuf' = [inbuf EXCEPT ![x] = 0]
      /\ echoed' = echoed \/ echoed' = [echoed EXCEPT ![x] = @ + inbuf[x]]
      /\ peer' = peer \/ peer' = [peer EXCEPT ![x] = "closed"]
      /\ late' \subseteq late \cup {x}
  BY <1>0, <1>3 DEF Server!Echo
<1>5. x \in Clients /\ echoed[x] + inbuf[x] \in 0 .. MaxSent
  <2>1. x \in Clients
    BY <1>1, <1>3
  <2>2. echoed[x] \in 0 .. MaxSent /\ inbuf[x] \in 0 .. MaxSent /\ sent[x] \in 0 .. MaxSent
    BY <1>2, <2>1
  <2>3. echoed[x] + inbuf[x] <= sent[x]
    BY <1>2, <2>1
  <2> QED
    BY <1>1, <2>1, <2>2, <2>3
<1>6. /\ inbuf' \in [Clients -> 0 .. MaxSent] /\ echoed' \in [Clients -> 0 .. MaxSent]
      /\ peer' \in [Clients -> {"new", "open", "closed", "reset"}] /\ late' \subseteq Clients
  <2>1. inbuf' \in [Clients -> 0 .. MaxSent]
    BY <1>1, <1>2, <1>4, <1>5
  <2>2. echoed' \in [Clients -> 0 .. MaxSent]
    BY <1>1, <1>2, <1>4, <1>5
  <2>3. peer' \in [Clients -> {"new", "open", "closed", "reset"}]
    BY <1>2, <1>4, <1>5
  <2>4. late' \subseteq Clients
    BY <1>4, <1>5 DEF ServerInv, Server!TypeOK
  <2> QED
    BY <2>1, <2>2, <2>3, <2>4
<1>7. Server!TypeOK'
  <2>1. at' \in 1 .. Len(connectfd) + 1
    BY <1>0, <1>1
  <2> QED
    BY <1>0, <1>6, <2>1 DEF ServerInv, Server!TypeOK
<1>8. Balanced'
  <2> SUFFICES ASSUME NEW c \in Clients PROVE echoed'[c] + inbuf'[c] <= sent[c]
    BY <1>0 DEF Balanced
  <2>1. echoed[c] \in Nat /\ inbuf[c] \in Nat /\ sent[c] \in Nat /\ echoed[c] + inbuf[c] <= sent[c]
    BY <1>1, <1>2
  <2>2. inbuf'[c] = IF c = x THEN 0 ELSE inbuf[c]
    BY <1>2, <1>4
  <2>3. echoed'[c] = echoed[c] \/ (c = x /\ echoed'[c] = echoed[c] + inbuf[c])
    BY <1>2, <1>4
  <2> QED
    BY <2>1, <2>2, <2>3
<1>9. Server!RecvNeverBlocks'
  <2> SUFFICES ASSUME at + 1 <= Len(connectfd), connectfd[at + 1] \in rfds PROVE FALSE
    BY <1>0 DEF Server!RecvNeverBlocks, Server!InLoop
  <2>1. connectfd[at + 1] # 1
    BY <1>0, NextIsNotFirst
  <2> QED
    BY <1>0, <2>1 DEF ServerInv, LoopInv
<1> QED
  BY <1>0, <1>7, <1>8, <1>9 DEF ServerInv, LoopInv, Server!SpinNeedsTwoClients, Increasing

\* The steps that leave the loop.  Only a second client can be passed over by
\* select, so that the loop never ends.
LEMMA LeaveStep ==
  ASSUME Server!SelectAssumption, ServerInv, Server!RecvError \/ Server!NotReady \/ Server!LoopDone
  PROVE  ServerInv'
<1>0. /\ UNCHANGED <<connectfd, rfds, at, accepted, backlog, peer, sent, inbuf, echoed, late>>
      /\ loc' \in {"killed", "spin", "select"} /\ (loc' = "spin" => Server!NotReady)
  BY DEF Server!RecvError, Server!NotReady, Server!LoopDone, Server!network
<1>1. Server!TypeOK'
  BY <1>0 DEF ServerInv, Server!TypeOK, Server!Ends
<1>2. Increasing(connectfd)' /\ Balanced' /\ LoopInv' /\ Server!RecvNeverBlocks' /\ loc' # "accept"
  BY <1>0 DEF ServerInv, Increasing, Balanced, LoopInv, Server!RecvNeverBlocks, Server!InLoop
<1>3. Server!SpinNeedsTwoClients'
  <2> SUFFICES ASSUME Server!NotReady PROVE Len(accepted) >= 2
    BY <1>0 DEF Server!SpinNeedsTwoClients
  <2>1. Server!InLoop /\ loc = "loop" /\ connectfd[at] \notin rfds
    BY DEF Server!NotReady, Server!InLoop
  <2>2. connectfd[at] \in 1 .. Len(accepted) /\ Len(accepted) \in Nat
    BY <2>1, ServerTypes DEF ServerInv
  <2>3. connectfd[at] # 1
    BY <2>1 DEF ServerInv, LoopInv
  <2> QED
    BY <2>2, <2>3
<1> QED
  BY <1>1, <1>2, <1>3 DEF ServerInv

\* What is left of the invariant when the server itself does nothing.
LEMMA ServerFrame ==
  ASSUME Server!SelectAssumption, ServerInv, UNCHANGED <<loc, connectfd, rfds, at, accepted, echoed, late>>,
         backlog' \in Seq(Clients), backlog # << >> => backlog' # << >>,
         peer' \in [Clients -> {"new", "open", "closed", "reset"}],
         sent' \in [Clients -> 0 .. MaxSent], inbuf' \in [Clients -> 0 .. MaxSent], Balanced',
         \A x \in Clients : peer[x] \in {"closed", "reset"} => peer'[x] \in {"closed", "reset"},
         \A x \in Clients : inbuf[x] > 0 => inbuf'[x] > 0
  PROVE  ServerInv'
<1>1. Server!TypeOK'
  BY DEF ServerInv, Server!TypeOK
<1>2. Increasing(connectfd)' /\ LoopInv' /\ Server!SpinNeedsTwoClients' /\ (loc' = "accept" => backlog' # << >>)
  BY DEF ServerInv, Increasing, LoopInv, Server!SpinNeedsTwoClients
<1>3. Server!RecvNeverBlocks'
  <2> SUFFICES ASSUME Server!InLoop, connectfd[at] \in rfds PROVE Server!Readable(connectfd[at])'
    BY DEF Server!RecvNeverBlocks, Server!InLoop
  <2>1. Server!Readable(connectfd[at])
    BY DEF ServerInv, Server!RecvNeverBlocks
  <2>2. connectfd[at] # Server!Listen /\ accepted[connectfd[at]] \in Clients
    BY ServerTypes DEF ServerInv, Server!Listen
  <2> QED
    BY <2>1, <2>2 DEF Server!Readable
<1> QED
  BY <1>1, <1>2, <1>3 DEF ServerInv

\* What the clients do leaves readable what was readable.
LEMMA ClientStep ==
  ASSUME Server!SelectAssumption, ServerInv, NEW c \in Clients, Server!Connect(c) \/ Server!Send(c) \/ Server!Close(c) \/ Server!Reset(c)
  PROVE  ServerInv'
<1>0. UNCHANGED <<loc, connectfd, rfds, at, accepted, echoed, late>>
  BY DEF Server!Connect, Server!Send, Server!Close, Server!Reset
<1>1. /\ inbuf \in [Clients -> 0 .. MaxSent] /\ echoed \in [Clients -> 0 .. MaxSent]
      /\ sent \in [Clients -> 0 .. MaxSent] /\ MaxSent \in Nat
      /\ peer \in [Clients -> {"new", "open", "closed", "reset"}] /\ backlog \in Seq(Clients)
  BY DEF ServerInv, Server!TypeOK, Server!SelectAssumption
<1>2. /\ backlog' \in Seq(Clients) /\ (backlog # << >> => backlog' # << >>)
      /\ peer' \in [Clients -> {"new", "open", "closed", "reset"}]
      /\ \A x \in Clients : peer[x] \in {"closed", "reset"} => peer'[x] \in {"closed", "reset"}
  <2>1. CASE Server!Connect(c)
    <3>1. backlog' = Append(backlog, c) /\ peer[c] = "new" /\ peer' = [peer EXCEPT ![c] = "open"]
      BY <2>1 DEF Server!Connect
    <3>2. backlog' \in Seq(Clients) /\ backlog' # << >>
      <4>1. backlog \in Seq(Clients) /\ backlog' = Append(backlog, c)
        BY <1>1, <3>1
      <4> QED
        BY <4>1, AppendProperties
    <3>3. \A x \in Clients : peer[x] \in {"closed", "reset"} => peer'[x] \in {"closed", "reset"}
      BY <1>1, <3>1
    <3> QED
      BY <1>1, <3>1, <3>2, <3>3
  <2>2. CASE Server!Send(c) \/ Server!Close(c) \/ Server!Reset(c)
    BY <1>1, <2>2 DEF Server!Send, Server!Close, Server!Reset
  <2> QED
    BY <2>1, <2>2
<1>3. CASE Server!Send(c)
  <2>1. /\ sent[c] \in 0 .. MaxSent /\ sent[c] < MaxSent /\ inbuf[c] \in 0 .. MaxSent
        /\ echoed[c] \in 0 .. MaxSent /\ echoed[c] + inbuf[c] <= sent[c]
    BY <1>1, <1>3 DEF Server!Send, ServerInv, Balanced
  <2>2. sent[c] + 1 \in 0 .. MaxSent /\ inbuf[c] + 1 \in 0 .. MaxSent
    BY <1>1, <2>1
  <2>3. sent' = [sent EXCEPT ![c] = sent[c] + 1] /\ inbuf' = [inbuf EXCEPT ![c] = inbuf[c] + 1]
    BY <1>3 DEF Server!Send
  <2>4. sent' \in [Clients -> 0 .. MaxSent] /\ inbuf' \in [Clients -> 0 .. MaxSent]
    BY <1>1, <2>2, <2>3
  <2>5. \A x \in Clients : inbuf[x] > 0 => inbuf'[x] > 0
    BY <1>1, <2>1, <2>3
  <2>6. Balanced'
    <3> SUFFICES ASSUME NEW x \in Clients PROVE echoed[x] + inbuf'[x] <= sent'[x]
      BY <1>0 DEF Balanced
    <3>1. echoed[x] \in Nat /\ inbuf[x] \in Nat /\ sent[x] \in Nat /\ echoed[x] + inbuf[x] <= sent[x]
      BY <1>1 DEF ServerInv, Balanced
    <3>2. CASE x = c
      <4>1. inbuf'[x] = inbuf[x] + 1 /\ sent'[x] = sent[x] + 1
        BY <1>1, <2>3, <3>2
      <4> QED
        BY <3>1, <4>1
    <3>3. CASE x # c
      <4>1. inbuf'[x] = inbuf[x] /\ sent'[x] = sent[x]
        BY <1>1, <2>3, <3>3
      <4> QED
        BY <3>1, <4>1
    <3> QED
      BY <3>2, <3>3
  <2>7. /\ sent' \in [Clients -> 0 .. MaxSent] /\ inbuf' \in [Clients -> 0 .. MaxSent] /\ Balanced'
        /\ \A x \in Clients : inbuf[x] > 0 => inbuf'[x] > 0
    BY <2>4, <2>5, <2>6
  <2> QED
    BY <1>0, <1>2, <2>7, ServerFrame
<1>4. CASE Server!Connect(c) \/ Server!Close(c) \/ Server!Reset(c)
  <2>1. sent' = sent /\ inbuf' = inbuf
    BY <1>4 DEF Server!Connect, Server!Close, Server!Reset
  <2>2. Balanced'
    BY <1>0, <2>1 DEF ServerInv, Balanced
  <2> QED
    BY <1>0, <1>1, <1>2, <2>1, <2>2, ServerFrame
<1> QED
  BY <1>3, <1>4

\* Every step of the server and of the clients keeps the invariant.
LEMMA ServerStep ==
  ASSUME Server!SelectAssumption, ServerInv, Server!Next \/ UNCHANGED Server!vars
  PROVE  ServerInv'
<1>1. CASE Server!Server
  BY <1>1, SelectStep, AcceptStep, RecvCloseStep, RecvDataStep, LeaveStep DEF Server!Server
<1>2. CASE \E c \in Clients : Server!Connect(c) \/ Server!Send(c) \/ Server!Close(c) \/ Server!Reset(c)
  BY <1>2, ClientStep
<1>3. CASE UNCHANGED Server!vars
  <2>1. UNCHANGED <<loc, connectfd, rfds, at, backlog, accepted, peer, sent, echoed, inbuf, late>>
    BY <1>3 DEF Server!vars
  <2>2. Balanced'
    BY <2>1 DEF ServerInv, Balanced
  <2>3. /\ backlog \in Seq(Clients) /\ peer \in [Clients -> {"new", "open", "closed", "reset"}]
        /\ sent \in [Clients -> 0 .. MaxSent] /\ inbuf \in [Clients -> 0 .. MaxSent]
    BY DEF ServerInv, Server!TypeOK
  <2> QED
    BY <2>1, <2>2, <2>3, ServerFrame
<1> QED
  BY <1>1, <1>2, <1>3 DEF Server!Next

---------------------------------------------------------------------------

\* The server of one thread (test_conn/main.cpp, find_max_fd) never calls recv
\* without something to read, and the loop that does not step over a client
\* that is not ready hangs it only after a second client was accepted, for any
\* number of clients and bytes and whatever rfds keeps of earlier rounds.
THEOREM ServerNeverHangsAlone ==
  SpecSamples => []NeverHangsAlone
<1>0. Server!SelectAssumption
  BY SampleAssumptions
<1>1. InitSamples => ServerInv
  <2> SUFFICES ASSUME Server!Init PROVE ServerInv
    BY DEF InitSamples
  <2>1. MaxSent \in Nat /\ 0 \in 0 .. MaxSent
    BY <1>0 DEF Server!SelectAssumption
  <2>2. connectfd = << >> /\ accepted = << >> /\ backlog = << >> /\ Len(connectfd) = 0 /\ Len(accepted) = 0
    BY DEF Server!Init
  <2>3. Server!TypeOK
    BY <2>1, <2>2 DEF Server!Init, Server!TypeOK
  <2>4. Increasing(connectfd) /\ LoopInv /\ Server!SpinNeedsTwoClients /\ Server!RecvNeverBlocks /\ loc # "accept"
    BY <2>2 DEF Server!Init, Increasing, LoopInv, Server!SpinNeedsTwoClients, Server!RecvNeverBlocks, Server!InLoop
  <2>5. Balanced
    BY DEF Server!Init, Balanced
  <2> QED
    BY <2>3, <2>4, <2>5 DEF ServerInv
<1>2. ServerInv /\ [NextSamples]_all => ServerInv'
  <2> SUFFICES ASSUME ServerInv, [NextSamples]_all PROVE ServerInv'
    OBVIOUS
  <2>1. Server!Next \/ UNCHANGED server
    BY DEF NextSamples, OfParent, OfBalance, OfSolver, OfServer, Over, all
  <2>2. UNCHANGED server => UNCHANGED Server!vars
    BY DEF server, Server!vars
  <2> QED
    BY <1>0, <2>1, <2>2, ServerStep
<1>3. ServerInv => NeverHangsAlone
  BY DEF ServerInv, Server!NeverHangsAlone, NeverHangsAlone
<1> QED
  BY <1>1, <1>2, <1>3, PTL DEF SpecSamples

-----------------------------------------------------------------------------
(* The load balancer.                                                      *)

\* What the scan of balanceDevices has after n devices, from what it had
\* before: the body of its recursive definition.
ScanStep(kind, f, n) ==
  IF n = 0 THEN [re |-> -1, id |-> 0]
  ELSE LET b == f[n - 1]
           d == list_device[n - 1]
           re == IF b.re < 0 THEN d.remaining_time ELSE b.re
       IN  IF d.gpu # kind THEN b
           ELSE IF d.remaining_time < re
           THEN [re |-> d.remaining_time, id |-> n - 1]
           ELSE [re |-> re, id |-> b.id]

Before(kind, n) == {k \in 0 .. n - 1 : list_device[k].gpu = kind}

\* After n devices re is the least remaining time of the kind, and id is a
\* device with that time, or still 0 when the first one of the kind has it.
ScanGood(kind, r, n) ==
  /\ Before(kind, n) = {} => r = [re |-> -1, id |-> 0]
  /\ Before(kind, n) # {} =>
       /\ r.re \in Nat
       /\ \E k \in Before(kind, n) : list_device[k].remaining_time = r.re
       /\ \A k \in Before(kind, n) : r.re <= list_device[k].remaining_time
       /\ \/ r.id \in Before(kind, n) /\ list_device[r.id].remaining_time = r.re
          \/ /\ r.id = 0
             /\ \E k \in Before(kind, n) :
                  list_device[k].remaining_time = r.re /\ \A l \in Before(kind, n) : k <= l

\* The recursive definition has a solution: from a solution for m - 1 devices
\* one for m devices.
LEMMA ScanSolution ==
  ASSUME NumDevice \in Nat, NEW kind
  PROVE  \E f : f = [n \in 0 .. NumDevice |-> ScanStep(kind, f, n)]
<1> DEFINE Solved(m) == \E f : f = [n \in 0 .. m |-> ScanStep(kind, f, n)]
           S == {m \in Nat : ~Solved(m)}
<1>1. SUFFICES ASSUME S # {} PROVE FALSE
  OBVIOUS
<1>2. PICK m \in S : \A j \in S : m <= j
  BY <1>1, SmallestElement
<1>3. m # 0
  <2> DEFINE f == [n \in 0 .. 0 |-> [re |-> -1, id |-> 0]]
  <2>1. f = [n \in 0 .. 0 |-> ScanStep(kind, f, n)]
    BY DEF ScanStep
  <2> QED
    BY <2>1
<1>4. m \in Nat /\ m - 1 \in Nat /\ Solved(m - 1)
  BY <1>2, <1>3
<1>5. PICK f : f = [n \in 0 .. m - 1 |-> ScanStep(kind, f, n)]
  BY <1>4
<1> DEFINE g == [n \in 0 .. m |-> IF n < m THEN f[n] ELSE ScanStep(kind, f, m)]
<1>6. ASSUME NEW n \in 0 .. m PROVE g[n] = ScanStep(kind, g, n)
  <2>1. n = 0 \/ (n - 1 \in 0 .. m - 1 /\ g[n - 1] = f[n - 1])
    BY <1>4
  <2>2. ScanStep(kind, g, n) = ScanStep(kind, f, n)
    <3> HIDE DEF g
    <3> QED
      BY <2>1 DEF ScanStep
  <2>3. CASE n < m
    BY <1>4, <1>5, <2>2, <2>3
  <2>4. CASE n = m
    BY <1>4, <2>2, <2>4
  <2> QED
    BY <1>4, <2>3, <2>4
<1>7. g = [n \in 0 .. m |-> ScanStep(kind, g, n)]
  BY <1>6
<1> QED
  BY <1>2, <1>7

\* One device more.
LEMMA ScanOneMore ==
  ASSUME Balance!TypeOK, NEW kind, NEW n \in 1 .. NumDevice, NEW f, NumDevice \in Nat,
         ScanGood(kind, f[n - 1], n - 1)
  PROVE  ScanGood(kind, ScanStep(kind, f, n), n)
<1> DEFINE b == f[n - 1]
           r == ScanStep(kind, f, n)
           d == list_device[n - 1]
<1>1. /\ n \in Nat /\ n - 1 \in Nat /\ d.gpu \in BOOLEAN
      /\ \A k \in 0 .. n - 1 : list_device[k].remaining_time \in Nat
  BY DEF Balance!TypeOK, Balance!Indices, Balance!DeviceInformation
<1>2. Before(kind, n) = IF d.gpu = kind THEN Before(kind, n - 1) \cup {n - 1} ELSE Before(kind, n - 1)
  BY <1>1 DEF Before
<1>3. \A k \in Before(kind, n - 1) : k \in 0 .. n - 1 /\ k < n - 1 /\ list_device[k].remaining_time \in Nat
  BY <1>1 DEF Before
<1>4. CASE d.gpu # kind
  <2>1. r = b
    BY <1>1, <1>4 DEF ScanStep
  <2> QED
    BY <1>2, <1>4, <2>1 DEF ScanGood
<1>5. CASE d.gpu = kind /\ Before(kind, n - 1) = {}
  <2>1. b = [re |-> -1, id |-> 0] /\ Before(kind, n) = {n - 1}
    BY <1>2, <1>5 DEF ScanGood
  <2>2. r = [re |-> d.remaining_time, id |-> 0]
    BY <1>1, <1>5, <2>1 DEF ScanStep
  <2> QED
    BY <1>1, <2>1, <2>2 DEF ScanGood
<1>6. CASE d.gpu = kind /\ Before(kind, n - 1) # {}
  <2>1. /\ b.re \in Nat
        /\ \E k \in Before(kind, n - 1) : list_device[k].remaining_time = b.re
        /\ \A k \in Before(kind, n - 1) : b.re <= list_device[k].remaining_time
        /\ \/ b.id \in Before(kind, n - 1) /\ list_device[b.id].remaining_time = b.re
           \/ /\ b.id = 0
              /\ \E k \in Before(kind, n - 1) :
                   list_device[k].remaining_time = b.re /\ \A l \in Before(kind, n - 1) : k <= l
    BY <1>6 DEF ScanGood
  <2>2. Before(kind, n) = Before(kind, n - 1) \cup {n - 1} /\ d.remaining_time \in Nat
    BY <1>1, <1>2, <1>6
  <2>3. CASE d.remaining_time < b.re
    <3>1. r = [re |-> d.remaining_time, id |-> n - 1]
      BY <1>1, <1>6, <2>1, <2>3 DEF ScanStep
    <3>2. \A k \in Before(kind, n) : r.re <= list_device[k].remaining_time
      BY <1>3, <2>1, <2>2, <2>3, <3>1
    <3> QED
      BY <2>2, <3>1, <3>2 DEF ScanGood
  <2>4. CASE ~(d.remaining_time < b.re)
    <3>1. r.re = b.re /\ r.id = b.id
      BY <1>1, <1>6, <2>1, <2>4 DEF ScanStep
    <3> HIDE DEF r, b
    <3>2. \A k \in Before(kind, n) : r.re <= list_device[k].remaining_time
      BY <1>3, <2>1, <2>2, <2>4, <3>1
    <3>3. \E k \in Before(kind, n) : list_device[k].remaining_time = r.re
      BY <2>1, <2>2, <3>1
    <3>4. \/ r.id \in Before(kind, n) /\ list_device[r.id].remaining_time = r.re
          \/ /\ r.id = 0
             /\ \E k \in Before(kind, n) :
                  list_device[k].remaining_time = r.re /\ \A l \in Before(kind, n) : k <= l
      <4>1. CASE b.id \in Before(kind, n - 1) /\ list_device[b.id].remaining_time = b.re
        BY <2>2, <3>1, <4>1
      <4>2. CASE b.id = 0 /\ \E k \in Before(kind, n - 1) :
                   list_device[k].remaining_time = b.re /\ \A l \in Before(kind, n - 1) : k <= l
        <5>1. PICK k \in Before(kind, n - 1) :
                list_device[k].remaining_time = b.re /\ \A l \in Before(kind, n - 1) : k <= l
          BY <4>2
        <5>2. \A l \in Before(kind, n) : k <= l
          BY <1>1, <1>3, <2>2, <5>1
        <5> QED
          BY <2>2, <3>1, <4>2, <5>1, <5>2
      <4> QED
        BY <2>1, <4>1, <4>2
    <3> QED
      BY <2>1, <2>2, <3>1, <3>2, <3>3, <3>4 DEF ScanGood, r
  <2> QED
    BY <2>3, <2>4
<1> QED
  BY <1>4, <1>5, <1>6

\* What the scan returns.
LEMMA ScanReturns ==
  ASSUME Balance!TypeOK, NumDevice \in Nat \ {0}, NEW kind
  PROVE  ScanGood(kind, Balance!Scan(kind), NumDevice)
<1> DEFINE best == CHOOSE f : f = [n \in 0 .. NumDevice |-> ScanStep(kind, f, n)]
           S == {n \in 0 .. NumDevice : ~ScanGood(kind, best[n], n)}
<1>1. best = [n \in 0 .. NumDevice |-> ScanStep(kind, best, n)]
  BY ScanSolution
<1>2. Balance!Scan(kind) = best[NumDevice]
  BY DEF Balance!Scan, ScanStep
<1> HIDE DEF best
<1>3. ASSUME S # {} PROVE FALSE
  <2>1. S \in SUBSET Nat
    OBVIOUS
  <2>2. PICK n \in S : \A j \in S : n <= j
    BY <1>3, <2>1, SmallestElement
  <2>3. n \in 0 .. NumDevice /\ best[n] = ScanStep(kind, best, n) /\ ~ScanGood(kind, best[n], n)
    BY <1>1
  <2>4. CASE n = 0
    <3>1. Before(kind, 0) = {}
      BY DEF Before
    <3> QED
      BY <2>3, <2>4, <3>1 DEF ScanGood, ScanStep
  <2>5. CASE n # 0
    <3>1. n \in 1 .. NumDevice /\ n - 1 \in 0 .. NumDevice /\ n - 1 < n
      BY <2>3, <2>5
    <3>2. ScanGood(kind, best[n - 1], n - 1)
      BY <2>2, <3>1
    <3>3. ScanGood(kind, ScanStep(kind, best, n), n)
      BY <3>1, <3>2, ScanOneMore
    <3> QED
      BY <2>3, <3>3
  <2> QED
    BY <2>4, <2>5
<1> QED
  BY <1>2, <1>3

\* Where the index moves, the scan finds a device with the least remaining
\* time of its kind; re is a lower bound of every device of the kind.
LEMMA ScanIndex ==
  ASSUME Balance!TypeOK, NumDevice \in Nat \ {0}, NEW kind, Balance!IndexMoves(kind)
  PROVE  /\ Balance!Scan(kind).id \in Balance!Of(kind) /\ Balance!Scan(kind).re \in Nat
         /\ list_device[Balance!Scan(kind).id].remaining_time = Balance!Scan(kind).re
         /\ \A m \in Balance!Of(kind) : Balance!Scan(kind).re <= list_device[m].remaining_time
<1>0. PICK r : r = Balance!Scan(kind)
  OBVIOUS
<1>1. ScanGood(kind, r, NumDevice)
  BY <1>0, ScanReturns
<1>2. Before(kind, NumDevice) = Balance!Of(kind)
  BY DEF Before, Balance!Of, Balance!Indices
<1>3. \A k \in Balance!Of(kind) : k \in Nat /\ list_device[k].remaining_time \in Nat
  BY DEF Balance!Of, Balance!TypeOK, Balance!Indices, Balance!DeviceInformation
<1>4. Balance!Of(kind) # {}
  BY DEF Balance!IndexMoves, Balance!Of, Balance!Indices
<1>5. /\ r.re \in Nat
      /\ \A k \in Balance!Of(kind) : r.re <= list_device[k].remaining_time
      /\ \/ r.id \in Balance!Of(kind) /\ list_device[r.id].remaining_time = r.re
         \/ /\ r.id = 0
            /\ \E k \in Balance!Of(kind) :
                 list_device[k].remaining_time = r.re /\ \A l \in Balance!Of(kind) : k <= l
  BY <1>1, <1>2, <1>4 DEF ScanGood
<1>6. r.id \in Balance!Of(kind) /\ list_device[r.id].remaining_time = r.re
  <2> SUFFICES ASSUME r.id = 0,
                      NEW k \in Balance!Of(kind), list_device[k].remaining_time = r.re,
                      \A l \in Balance!Of(kind) : k <= l
               PROVE  r.id \in Balance!Of(kind) /\ list_device[r.id].remaining_time = r.re
    BY <1>5
  <2>1. CASE list_device[0].gpu = kind
    <3>1. 0 \in Balance!Of(kind)
      BY <2>1 DEF Balance!Of, Balance!Indices
    <3>2. k = 0
      BY <1>3, <3>1
    <3> QED
      BY <3>1, <3>2
  <2>2. CASE \E n, m \in Balance!Of(kind) :
               n < m /\ list_device[m].remaining_time < list_device[n].remaining_time
                     /\ \A l \in Balance!Of(kind) : n <= l
    <3>1. PICK n \in Balance!Of(kind), m \in Balance!Of(kind) :
               n < m /\ list_device[m].remaining_time < list_device[n].remaining_time
                     /\ \A l \in Balance!Of(kind) : n <= l
      BY <2>2
    <3>2. n <= k /\ k <= n /\ n \in Nat /\ k \in Nat
      BY <1>3, <3>1
    <3>3. n = k
      BY <3>2
    <3>4. r.re <= list_device[m].remaining_time
      BY <1>5
    <3> QED
      BY <1>3, <1>5, <3>1, <3>3, <3>4
  <2> QED
    BY <2>1, <2>2 DEF Balance!IndexMoves
<1> QED
  BY <1>0, <1>5, <1>6

\* The rate of a kind that is in use gives an execution time.
LEMMA ExeNat ==
  ASSUME Balance!BalanceAssumption, NEW in \in Inputs, NEW kind \in BOOLEAN, Balance!Rate(kind, in) >= 0
  PROVE  Balance!Exe(kind, in) \in Nat
<1>1. in.frames \in Nat /\ Balance!Rate(kind, in) \in Int \ {0}
  BY DEF Balance!BalanceAssumption, Balance!Rate
<1>2. Balance!Rate(kind, in) \in Nat \ {0}
  BY <1>1
<1>3. \A a \in Nat, b \in Nat \ {0} : a \div b \in Nat
  OBVIOUS
<1> QED
  BY <1>1, <1>2, <1>3 DEF Balance!Exe

\* A call keeps the list of devices typed.
LEMMA BalanceTypes ==
  ASSUME Balance!BalanceAssumption, Balance!TypeOK, NEW in \in Inputs, Balance!balanceDevices(in)
  PROVE  Balance!TypeOK'
<1>1. CASE UNCHANGED list_device
  BY <1>1 DEF Balance!TypeOK
<1>2. ASSUME NEW k \in Balance!Uses(in), Balance!Add(Balance!Scan(k).id, Balance!Exe(k, in))
      PROVE  Balance!TypeOK'
  <2>1. PICK id : id = Balance!Scan(k).id
    OBVIOUS
  <2>2. PICK t \in Nat : t = Balance!Exe(k, in)
    BY ExeNat DEF Balance!Uses
  <2>3. list_device' = [list_device EXCEPT ![id].remaining_time = @ + t]
    BY <1>2, <2>1, <2>2 DEF Balance!Add
  <2>4. list_device' = IF id \in Balance!Indices
                       THEN [list_device EXCEPT ![id] = [list_device[id] EXCEPT !.remaining_time = @ + t]]
                       ELSE list_device
    BY <2>3 DEF Balance!TypeOK
  <2>5. CASE id \in Balance!Indices
    <3>1. [list_device[id] EXCEPT !.remaining_time = @ + t] \in Balance!DeviceInformation
      BY <2>5 DEF Balance!TypeOK, Balance!DeviceInformation
    <3> QED
      BY <2>4, <2>5, <3>1 DEF Balance!TypeOK
  <2> QED
    BY <2>4, <2>5 DEF Balance!TypeOK
<1> QED
  BY <1>1, <1>2 DEF Balance!balanceDevices

\* A job that was given to a device is done there as early as on any other.
LEMMA JobEndsEarliest ==
  ASSUME Balance!BalanceAssumption, Balance!TypeOK, NEW in \in Inputs, NEW n \in Balance!Indices,
         Balance!balanceDevices(in), list_device'[n] # list_device[n],
         \A k \in BOOLEAN : Balance!Rate(k, in) >= 0 => Balance!IndexMoves(k),
         NEW m \in Balance!Indices, Balance!Rate(list_device[m].gpu, in) >= 0
  PROVE  list_device'[n].remaining_time
           <= list_device[m].remaining_time + Balance!Exe(list_device[m].gpu, in)
<1>0. /\ NumDevice \in Nat \ {0} /\ list_device[m].gpu \in BOOLEAN
      /\ \A x \in Balance!Indices : list_device[x].remaining_time \in Nat
  BY DEF Balance!BalanceAssumption, Balance!TypeOK, Balance!DeviceInformation
<1>1. PICK k \in Balance!Uses(in) : Balance!Add(Balance!Scan(k).id, Balance!Exe(k, in))
  BY DEF Balance!balanceDevices
<1>2. /\ k \in BOOLEAN /\ Balance!Rate(k, in) >= 0 /\ Balance!Exe(k, in) \in Nat
      /\ Balance!Rate(~k, in) >= 0 =>
           k = (Balance!Scan(TRUE).re + Balance!Exe(TRUE, in) <= Balance!Scan(FALSE).re + Balance!Exe(FALSE, in))
  BY ExeNat DEF Balance!Uses
<1>3. /\ Balance!Scan(k).id \in Balance!Of(k) /\ Balance!Scan(k).re \in Nat
      /\ list_device[Balance!Scan(k).id].remaining_time = Balance!Scan(k).re
      /\ \A x \in Balance!Of(k) : Balance!Scan(k).re <= list_device[x].remaining_time
  BY <1>0, <1>2, ScanIndex
<1>4. n = Balance!Scan(k).id /\ list_device'[n].remaining_time = Balance!Scan(k).re + Balance!Exe(k, in)
  <2>1. PICK id \in Balance!Indices : id = Balance!Scan(k).id
    BY <1>3 DEF Balance!Of
  <2>2. PICK t : t = Balance!Exe(k, in)
    OBVIOUS
  <2>3. list_device' = [list_device EXCEPT ![id].remaining_time = @ + t]
    BY <1>1, <2>1, <2>2 DEF Balance!Add
  <2>4. n = id
    BY <2>3 DEF Balance!TypeOK
  <2>5. list_device'[id].remaining_time = list_device[id].remaining_time + t
    BY <2>3 DEF Balance!TypeOK, Balance!DeviceInformation
  <2> QED
    BY <1>3, <2>1, <2>2, <2>4, <2>5
<1>5. CASE list_device[m].gpu = k
  <2>1. m \in Balance!Of(k)
    BY <1>5 DEF Balance!Of
  <2> QED
    BY <1>0, <1>2, <1>3, <1>4, <1>5, <2>1
<1>6. CASE list_device[m].gpu # k
  <2>1. list_device[m].gpu = ~k
    BY <1>0, <1>2, <1>6
  <2>2. Balance!Rate(~k, in) >= 0 /\ Balance!Exe(~k, in) \in Nat /\ (~k) \in BOOLEAN
    BY <1>2, <2>1, ExeNat
  <2>3. /\ Balance!Scan(~k).re \in Nat
        /\ \A x \in Balance!Of(~k) : Balance!Scan(~k).re <= list_device[x].remaining_time
    BY <1>0, <2>2, ScanIndex
  <2>4. Balance!Scan(k).re + Balance!Exe(k, in) <= Balance!Scan(~k).re + Balance!Exe(~k, in)
    <3>1. CASE k = TRUE
      BY <1>2, <2>2, <3>1
    <3>2. CASE k = FALSE
      <4>1. ~(Balance!Scan(TRUE).re + Balance!Exe(TRUE, in) <= Balance!Scan(FALSE).re + Balance!Exe(FALSE, in))
        BY <1>2, <2>2, <3>2
      <4>2. /\ Balance!Scan(FALSE).re \in Nat /\ Balance!Exe(FALSE, in) \in Nat
            /\ Balance!Scan(TRUE).re \in Nat /\ Balance!Exe(TRUE, in) \in Nat
        BY <1>2, <1>3, <2>2, <2>3, <3>2, Zenon
      <4>3. Balance!Scan(FALSE).re + Balance!Exe(FALSE, in) <= Balance!Scan(TRUE).re + Balance!Exe(TRUE, in)
        <5>1. \A x, y, z, w \in Nat : ~(x + y <= z + w) => z + w <= x + y
          OBVIOUS
        <5> QED
          BY <4>1, <4>2, <5>1, Zenon
      <4> QED
        BY <3>2, <4>3, Zenon
    <3> QED
      BY <1>2, <3>1, <3>2
  <2>5. m \in Balance!Of(~k)
    BY <2>1 DEF Balance!Of
  <2>6. Balance!Scan(~k).re <= list_device[m].remaining_time /\ list_device[m].remaining_time \in Nat
    BY <1>0, <2>3, <2>5
  <2>7. Balance!Exe(list_device[m].gpu, in) = Balance!Exe(~k, in)
    BY <2>1, Zenon
  <2>8. /\ list_device'[n].remaining_time <= Balance!Scan(~k).re + Balance!Exe(~k, in)
        /\ list_device'[n].remaining_time \in Nat
    BY <1>2, <1>3, <1>4, <2>4
  <2> QED
    BY <2>2, <2>3, <2>6, <2>7, <2>8
<1> QED
  BY <1>5, <1>6

\* The list of devices is typed in every behaviour.
LEMMA DevicesTyped ==
  SpecSamples => []Balance!TypeOK
<1>0. Balance!BalanceAssumption
  BY SampleAssumptions
<1>1. InitSamples => Balance!TypeOK
  <2>1. Balance!Init => Balance!TypeOK
    BY <1>0 DEF Balance!Init, Balance!TypeOK, Balance!BalanceAssumption
  <2>2. NoLoad \in [Balance!Indices -> Balance!DeviceInformation]
    BY DEF NoLoad, Device, Balance!Indices, Balance!DeviceInformation
  <2> QED
    BY <2>1, <2>2 DEF InitSamples, Balance!TypeOK
<1>2. Balance!TypeOK /\ [NextSamples]_all => Balance!TypeOK'
  <2> SUFFICES ASSUME Balance!TypeOK, [NextSamples]_all PROVE Balance!TypeOK'
    OBVIOUS
  <2>1. Balance!Next \/ UNCHANGED list_device
    BY DEF NextSamples, OfParent, OfBalance, OfSolver, OfServer, Over, all
  <2>2. CASE UNCHANGED list_device
    BY <2>2 DEF Balance!TypeOK
  <2>3. CASE Balance!Next
    BY <1>0, <2>3, BalanceTypes DEF Balance!Next
  <2> QED
    BY <2>1, <2>2, <2>3
<1> QED
  BY <1>1, <1>2, PTL DEF SpecSamples

\* balanceDevices gives a job to a device that ends it as early as any other
\* device could, for any number and order of devices, any rates and any jobs
\* before, wherever the index moves for every kind in use (EndsEarliest).
THEOREM BalanceEndsEarliest ==
  SpecSamples => EndsEarliest
<1> DEFINE Early ==
      \A in \in Inputs, n \in Balance!Indices :
        (/\ Balance!balanceDevices(in)
         /\ list_device'[n] # list_device[n]
         /\ \A k \in BOOLEAN : Balance!Rate(k, in) >= 0 => Balance!IndexMoves(k))
        => \A m \in Balance!Indices :
             LET k == list_device[m].gpu IN
             Balance!Rate(k, in) >= 0 =>
               list_device'[n].remaining_time
                 <= list_device[m].remaining_time + Balance!Exe(k, in)
<1>0. Balance!BalanceAssumption
  BY SampleAssumptions
<1>1. Balance!TypeOK => [Early]_list_device
  BY <1>0, JobEndsEarliest
<1>2. Balance!TypeOK /\ [NextSamples]_all => [Early]_list_device
  BY <1>1
<1> HIDE DEF Early
<1>3. SpecSamples => [][Early]_list_device
  BY <1>2, DevicesTyped, PTL DEF SpecSamples
<1> QED
  BY <1>3 DEF EndsEarliest, Balance!EndsEarliest, Early

-----------------------------------------------------------------------------
(* The Sudoku solver.  countPossibility is a sum over all cells, so first  *)
(* what SumFunction computes.                                              *)

\* The body of the fold behind SumFunction: the sum over s, from the sums over
\* smaller sets.
AnyOf(s) == CHOOSE x \in s : TRUE
SumStep(fun, h, s) == IF s = {} THEN 0 ELSE fun[AnyOf(s)] + h[s \ {AnyOf(s)}]
Sums(fun) == CHOOSE h : h = [s \in SUBSET DOMAIN fun |-> SumStep(fun, h, s)]

IntFunction(D, fun) == fun \in [D -> Int]

OneLess(D, fun, s) ==
  /\ AnyOf(s) \in D /\ fun[AnyOf(s)] \in Int /\ Sums(fun)[s \ {AnyOf(s)}] \in Int
  /\ Sums(fun)[s] = fun[AnyOf(s)] + Sums(fun)[s \ {AnyOf(s)}]

LEMMA SumUnfolds ==
  ASSUME NEW fun
  PROVE  Sudoku!SumFunction(fun) = Sums(fun)[DOMAIN fun]
BY DEF Sudoku!SumFunction, Sudoku!SumFunctionOnSet, Sudoku!FoldFunctionOnSet, Sudoku!MapThenFoldSet,
       Sums, SumStep, AnyOf

LEMMA AnySmaller ==
  ASSUME NEW D, IsFiniteSet(D), NEW s \in SUBSET D, s # {}
  PROVE  /\ AnyOf(s) \in s /\ AnyOf(s) \in D /\ s \ {AnyOf(s)} \in SUBSET D
         /\ IsFiniteSet(s) /\ Cardinality(s) \in Nat /\ Cardinality(s \ {AnyOf(s)}) \in Nat
         /\ Cardinality(s \ {AnyOf(s)}) = Cardinality(s) - 1
<1>1. AnyOf(s) \in s
  BY DEF AnyOf
<1>2. IsFiniteSet(s) /\ Cardinality(s) \in Nat
  BY FS_Subset, FS_CardinalityType
<1>3. /\ IsFiniteSet(s \ {AnyOf(s)})
      /\ Cardinality(s \ {AnyOf(s)}) = Cardinality(s) - 1
  BY <1>1, <1>2, FS_RemoveElement
<1> QED
  BY <1>1, <1>2, <1>3, FS_CardinalityType

\* What holds of the empty set, and of a set when it holds without one of its
\* elements, holds of all subsets of a finite set: one with the fewest elements
\* for which it did not hold would have a smaller one.
LEMMA SmallerSets ==
  ASSUME NEW D, IsFiniteSet(D), NEW G, {} \in G,
         \A s \in SUBSET D : s # {} /\ s \ {AnyOf(s)} \in G => s \in G
  PROVE  \A s \in SUBSET D : s \in G
<1> DEFINE B == {s \in SUBSET D : s \notin G}
           K == {Cardinality(s) : s \in B}
<1> SUFFICES ASSUME B # {} PROVE FALSE
  OBVIOUS
<1>1. \A s \in B : Cardinality(s) \in Nat
  BY FS_Subset, FS_CardinalityType
<1>2. K \in SUBSET Nat /\ K # {}
  BY <1>1
<1>3. PICK k \in K : \A j \in K : k <= j
  BY <1>2, SmallestElement
<1>4. PICK s \in B : k = Cardinality(s)
  BY <1>3
<1>5. s \in SUBSET D /\ s \notin G /\ s # {}
  BY <1>4
<1>6. PICK t : t = s \ {AnyOf(s)}
  OBVIOUS
<1>7. t \in SUBSET D /\ Cardinality(t) \in Nat /\ k \in Nat /\ Cardinality(t) = k - 1
  BY <1>4, <1>5, <1>6, AnySmaller
<1>8. t \in B
  BY <1>5, <1>6, <1>7
<1>9. k <= Cardinality(t)
  BY <1>3, <1>8
<1> QED
  BY <1>7, <1>9

\* The recursive definition has a solution on the subsets of a finite set:
\* from one for sets of less than m elements one for sets of m elements.
SumPart(D, m) == {s \in SUBSET D : Cardinality(s) <= m}
SumSolved(D, fun, m) == \E h : h = [s \in SumPart(D, m) |-> SumStep(fun, h, s)]

LEMMA SumSolvedMore ==
  ASSUME NEW D, IsFiniteSet(D), NEW fun, NEW m \in Nat \ {0}, SumSolved(D, fun, m - 1)
  PROVE  SumSolved(D, fun, m)
<1>1. PICK f : f = [s \in SumPart(D, m - 1) |-> SumStep(fun, f, s)]
  BY DEF SumSolved
<1> DEFINE g == [s \in SumPart(D, m) |-> IF Cardinality(s) < m THEN f[s] ELSE SumStep(fun, f, s)]
<1>2. ASSUME NEW s \in SumPart(D, m) PROVE g[s] = SumStep(fun, g, s)
  <2>1. s = {} \/ g[s \ {AnyOf(s)}] = f[s \ {AnyOf(s)}]
    <3> SUFFICES ASSUME s # {} PROVE g[s \ {AnyOf(s)}] = f[s \ {AnyOf(s)}]
      OBVIOUS
    <3>1. PICK t : t = s \ {AnyOf(s)}
      OBVIOUS
    <3>2. t \in SUBSET D /\ Cardinality(t) <= m /\ Cardinality(t) < m
      BY <3>1, AnySmaller DEF SumPart
    <3> QED
      BY <3>1, <3>2 DEF SumPart
  <2>2. SumStep(fun, g, s) = SumStep(fun, f, s)
    <3> HIDE DEF g
    <3> QED
      BY <2>1 DEF SumStep
  <2>3. CASE Cardinality(s) < m
    <3>1. s \in SumPart(D, m - 1)
      <4>1. Cardinality(s) \in Nat /\ s \in SUBSET D
        BY FS_Subset, FS_CardinalityType DEF SumPart
      <4> QED
        BY <2>3, <4>1 DEF SumPart
    <3> QED
      BY <1>1, <2>2, <2>3, <3>1
  <2>4. CASE ~(Cardinality(s) < m)
    BY <2>2, <2>4
  <2> QED
    BY <2>3, <2>4
<1>3. g = [s \in SumPart(D, m) |-> SumStep(fun, g, s)]
  BY <1>2
<1> QED
  BY <1>3 DEF SumSolved

LEMMA SumSolution ==
  ASSUME NEW D, IsFiniteSet(D), NEW fun
  PROVE  \E h : h = [s \in SUBSET D |-> SumStep(fun, h, s)]
<1> DEFINE S == {m \in Nat : ~SumSolved(D, fun, m)}
<1>1. \A s \in SUBSET D : IsFiniteSet(s) /\ Cardinality(s) \in Nat /\ Cardinality(s) <= Cardinality(D)
  BY FS_Subset, FS_CardinalityType
<1>2. SumSolved(D, fun, 0)
  <2>1. SumPart(D, 0) = {{}}
    BY <1>1, FS_EmptySet DEF SumPart
  <2> DEFINE f == [s \in {{}} |-> 0]
  <2>2. f = [s \in {{}} |-> SumStep(fun, f, s)]
    BY DEF SumStep
  <2> QED
    BY <2>1, <2>2 DEF SumSolved
<1>3. ASSUME S # {} PROVE FALSE
  <2>1. PICK m \in S : \A j \in S : m <= j
    BY <1>3, SmallestElement
  <2>2. m \in Nat \ {0} /\ m - 1 \in Nat /\ ~(m <= m - 1)
    BY <1>2, <2>1
  <2>3. SumSolved(D, fun, m - 1)
    BY <2>1, <2>2
  <2> QED
    BY <2>1, <2>2, <2>3, SumSolvedMore
<1>4. Cardinality(D) \in Nat /\ SumPart(D, Cardinality(D)) = SUBSET D
  BY <1>1, FS_CardinalityType DEF SumPart
<1>5. SumSolved(D, fun, Cardinality(D))
  BY <1>3, <1>4
<1> QED
  BY <1>4, <1>5 DEF SumSolved

\* Sums(fun)[s] is the sum of fun over s.
LEMMA SumsAre ==
  ASSUME NEW D, IsFiniteSet(D), NEW fun, IntFunction(D, fun)
  PROVE  /\ Sums(fun)[{}] = 0
         /\ \A s \in SUBSET D : Sums(fun)[s] \in Int
         /\ \A s \in SUBSET D : s # {} => OneLess(D, fun, s)
<1>0. DOMAIN fun = D
  BY DEF IntFunction
<1>1. Sums(fun) = [s \in SUBSET D |-> SumStep(fun, Sums(fun), s)]
  BY <1>0, SumSolution DEF Sums
<1>2. PICK h : h = Sums(fun)
  OBVIOUS
<1>3. h[{}] = 0 /\ \A s \in SUBSET D : s # {} => h[s] = fun[AnyOf(s)] + h[s \ {AnyOf(s)}]
  BY <1>1, <1>2 DEF SumStep
<1> DEFINE G == {s \in SUBSET D : h[s] \in Int}
<1>4. {} \in G
  BY <1>3
<1>5. ASSUME NEW s \in SUBSET D, s # {}, s \ {AnyOf(s)} \in G PROVE s \in G
  <2>1. AnyOf(s) \in D /\ h[s] = fun[AnyOf(s)] + h[s \ {AnyOf(s)}]
    BY <1>3, <1>5, AnySmaller
  <2>2. fun[AnyOf(s)] \in Int /\ h[s \ {AnyOf(s)}] \in Int
    BY <1>5, <2>1 DEF IntFunction
  <2> QED
    BY <2>1, <2>2
<1>6. \A s \in SUBSET D : s \in G
  <2> HIDE DEF G
  <2> QED
    BY <1>4, <1>5, SmallerSets
<1>7. ASSUME NEW s \in SUBSET D, s # {} PROVE OneLess(D, fun, s)
  <2>1. AnyOf(s) \in D /\ s \ {AnyOf(s)} \in SUBSET D
    BY <1>7, AnySmaller
  <2>2. fun[AnyOf(s)] \in Int
    BY <2>1 DEF IntFunction
  <2>3. h[s] = fun[AnyOf(s)] + h[s \ {AnyOf(s)}] /\ h[s \ {AnyOf(s)}] \in Int
    BY <1>3, <1>6, <1>7, <2>1
  <2> QED
    BY <1>2, <2>1, <2>2, <2>3 DEF OneLess
<1>8. h[{}] = 0 /\ \A s \in SUBSET D : h[s] \in Int
  BY <1>3, <1>6
<1> QED
  BY <1>2, <1>7, <1>8

\* Sums of differences.
LEMMA SumsOfDifference ==
  ASSUME NEW D, IsFiniteSet(D), NEW f, f \in [D -> Int], NEW g, g \in [D -> Int],
         NEW k, k = [x \in D |-> f[x] - g[x]]
  PROVE  Sums(k)[D] = Sums(f)[D] - Sums(g)[D]
<1>0. IntFunction(D, k) /\ IntFunction(D, f) /\ IntFunction(D, g) /\ \A x \in D : k[x] = f[x] - g[x]
  BY DEF IntFunction
<1> DEFINE G == {s \in SUBSET D : Sums(k)[s] = Sums(f)[s] - Sums(g)[s]}
<1>1. {} \in G
  <2>1. Sums(k)[{}] = 0 /\ Sums(f)[{}] = 0 /\ Sums(g)[{}] = 0
    BY <1>0, SumsAre
  <2> QED
    BY <2>1
<1>2. ASSUME NEW s \in SUBSET D, s # {}, s \ {AnyOf(s)} \in G PROVE s \in G
  <2>1. PICK t, x : t = s \ {AnyOf(s)} /\ x = AnyOf(s)
    OBVIOUS
  <2>2. OneLess(D, k, s)
    BY <1>0, <1>2, SumsAre
  <2>3. OneLess(D, f, s)
    BY <1>0, <1>2, SumsAre
  <2>4. OneLess(D, g, s)
    BY <1>0, <1>2, SumsAre
  <2>5. /\ x \in D
        /\ Sums(k)[s] = k[x] + Sums(k)[t] /\ Sums(k)[t] \in Int
        /\ Sums(f)[s] = f[x] + Sums(f)[t] /\ Sums(f)[t] \in Int /\ f[x] \in Int
        /\ Sums(g)[s] = g[x] + Sums(g)[t] /\ Sums(g)[t] \in Int /\ g[x] \in Int
    BY <2>1, <2>2, <2>3, <2>4 DEF OneLess
  <2>6. k[x] = f[x] - g[x]
    BY <1>0, <2>5
  <2>7. Sums(k)[t] = Sums(f)[t] - Sums(g)[t]
    BY <1>2, <2>1
  <2>8. Sums(k)[s] = Sums(f)[s] - Sums(g)[s]
    BY <2>5, <2>6, <2>7
  <2> QED
    BY <2>8
<1>3. \A s \in SUBSET D : s \in G
  <2> HIDE DEF G
  <2> QED
    BY <1>1, <1>2, SmallerSets
<1> QED
  BY <1>3

\* Sums of a function that has one value on A and is 0 elsewhere.
LEMMA SumsOfEqual ==
  ASSUME NEW D, IsFiniteSet(D), NEW A \in SUBSET D, NEW n \in Int,
         NEW f, f = [x \in D |-> IF x \in A THEN n ELSE 0]
  PROVE  Sums(f)[D] = n * Cardinality(A)
<1>0. IntFunction(D, f) /\ \A x \in D : f[x] = IF x \in A THEN n ELSE 0
  BY DEF IntFunction
<1> DEFINE G == {s \in SUBSET D : Sums(f)[s] = n * Cardinality(s \cap A)}
<1>1. {} \in G
  <2>1. {} \cap A = {} /\ Cardinality({}) = 0 /\ n * 0 = 0
    BY FS_EmptySet
  <2>2. Sums(f)[{}] = 0
    BY <1>0, SumsAre
  <2> QED
    BY <2>1, <2>2
<1>2. ASSUME NEW s \in SUBSET D, s # {}, s \ {AnyOf(s)} \in G PROVE s \in G
  <2>1. PICK t, x : t = s \ {AnyOf(s)} /\ x = AnyOf(s)
    OBVIOUS
  <2>2. x \in D /\ x \in s /\ t \in SUBSET D /\ t = s \ {x}
    BY <1>2, <2>1, AnySmaller
  <2>3. OneLess(D, f, s)
    BY <1>0, <1>2, SumsAre
  <2>4. Sums(f)[s] = f[x] + Sums(f)[t]
    BY <2>1, <2>3 DEF OneLess
  <2>5. Sums(f)[t] = n * Cardinality(t \cap A)
    BY <1>2, <2>1
  <2>6. IsFiniteSet(s \cap A) /\ Cardinality(s \cap A) \in Nat /\ Cardinality(t \cap A) \in Nat
    <3>1. s \cap A \in SUBSET D /\ t \cap A \in SUBSET D
      OBVIOUS
    <3> QED
      BY <3>1, FS_Subset, FS_CardinalityType
  <2>7. PICK a \in Nat, b \in Nat : a = Cardinality(s \cap A) /\ b = Cardinality(t \cap A)
    BY <2>6
  <2>8. f[x] + n * b = n * a
    <3>1. CASE x \in A
      <4>1. t \cap A = (s \cap A) \ {x} /\ x \in s \cap A
        BY <2>2, <3>1
      <4>2. b = a - 1
        <5>1. Cardinality((s \cap A) \ {x}) = Cardinality(s \cap A) - 1
          BY <2>6, <4>1, FS_RemoveElement
        <5> QED
          BY <2>7, <4>1, <5>1
      <4>3. a = b + 1 /\ n * (b + 1) = n * b + n
        BY <4>2
      <4>4. f[x] = n
        BY <1>0, <2>2, <3>1
      <4> QED
        BY <4>3, <4>4
    <3>2. CASE x \notin A
      <4>1. t \cap A = s \cap A /\ f[x] = 0
        BY <1>0, <2>2, <3>2
      <4>2. n * a \in Int /\ a = b
        BY <2>7, <4>1
      <4> QED
        BY <4>1, <4>2
    <3> QED
      BY <3>1, <3>2
  <2>9. Sums(f)[s] = n * Cardinality(s \cap A)
    BY <2>4, <2>5, <2>7, <2>8
  <2> QED
    BY <2>9
<1>3. \A s \in SUBSET D : s \in G
  <2> HIDE DEF G
  <2> QED
    BY <1>1, <1>2, SmallerSets
<1>4. D \cap A = A /\ D \in G
  BY <1>3
<1> QED
  BY <1>4

\* Bounds of a sum.
LEMMA SumsBounded ==
  ASSUME NEW D, IsFiniteSet(D), NEW n \in Nat, NEW f, f \in [D -> -n .. n]
  PROVE  Sums(f)[D] \in -(n * Cardinality(D)) .. n * Cardinality(D)
<1>0. IntFunction(D, f)
  BY DEF IntFunction
<1> DEFINE G == {s \in SUBSET D : Sums(f)[s] \in -(n * Cardinality(s)) .. n * Cardinality(s)}
<1>1. {} \in G
  <2>1. Cardinality({}) = 0 /\ Sums(f)[{}] = 0 /\ n * 0 = 0
    BY <1>0, FS_EmptySet, SumsAre
  <2>2. 0 \in -0 .. 0
    OBVIOUS
  <2> QED
    BY <2>1, <2>2
<1>2. ASSUME NEW s \in SUBSET D, s # {}, s \ {AnyOf(s)} \in G PROVE s \in G
  <2>1. PICK t, x : t = s \ {AnyOf(s)} /\ x = AnyOf(s)
    OBVIOUS
  <2>2. /\ x \in D /\ Cardinality(s) \in Nat /\ Cardinality(t) \in Nat /\ Cardinality(t) = Cardinality(s) - 1
    BY <1>2, <2>1, AnySmaller
  <2>3. OneLess(D, f, s)
    BY <1>0, <1>2, SumsAre
  <2>4. Sums(f)[s] = f[x] + Sums(f)[t] /\ Sums(f)[t] \in Int
    BY <2>1, <2>3 DEF OneLess
  <2>5. f[x] \in -n .. n
    BY <2>2
  <2>6. PICK u \in Nat : u = Cardinality(t)
    BY <2>2
  <2>7. Cardinality(s) = u + 1 /\ n * (u + 1) = n * u + n /\ n * u \in Nat
    BY <2>2, <2>6
  <2>8. PICK m \in Nat, a \in Int : m = n * u /\ a = Sums(f)[t]
    BY <2>4, <2>7
  <2>9. a \in -m .. m
    BY <1>2, <2>1, <2>6, <2>8
  <2>10. f[x] + a \in -(m + n) .. m + n
    BY <2>5, <2>9
  <2>11. n * Cardinality(s) = m + n
    BY <2>7, <2>8
  <2>12. Sums(f)[s] \in -(n * Cardinality(s)) .. n * Cardinality(s)
    BY <2>4, <2>8, <2>10, <2>11
  <2> QED
    BY <2>12
<1>3. \A s \in SUBSET D : s \in G
  <2> HIDE DEF G
  <2> QED
    BY <1>1, <1>2, SmallerSets
<1> QED
  BY <1>3

\* The cells that nominee no longer counts: the givens, and the cells that
\* checkCell has fixed (to a number that may be 0, which leaves them unfixed).
Done == {c \in Sudoku!Cells : nominee[c] # Cardinality(data[c])}

\* The solution is a Sudoku grid.
SolvedInv == \A c \in Sudoku!Cells : \A e \in Sudoku!Seen(c) \ {c} : solution[c] # solution[e]

\* Before start nothing is counted; before the first checkCell no cell without
\* a given has lost a candidate.
EarlyInv ==
  /\ step = "start" => /\ nominee = [c \in Sudoku!Cells |-> Sudoku!N]
                       /\ countCell = 0 /\ countPossibility = 0
  /\ step = "checkCell1" => \A c \in Sudoku!Unfixed : nominee[c] = Sudoku!N

\* A fixed cell has kept the digit of the solution in data; what checked says
\* of it is right until checkCell has found a cell, after which only one
\* elimination follows.
FixedInv ==
  /\ \A c \in Sudoku!Cells : checked[c] # 0 => data[c] = {solution[c]}
  /\ found = {} => \A c \in Sudoku!Cells : checked[c] \in {0, solution[c]}
  /\ found # {} => step \in {"checkPossible2", "show2", "exec"}

\* nominee is the number of candidates, or one less for a cell that is done
\* and can then never look like a single again.
CountInv ==
  step # "start" =>
    /\ \A c \in Sudoku!Cells :
         \/ nominee[c] = Cardinality(data[c])
         \/ nominee[c] = Cardinality(data[c]) - 1 /\ nominee[c] <= 0
    /\ \A c \in Sudoku!Cells : checked[c] # 0 => c \in Done
    /\ countCell = Cardinality(Done)

BoardInv ==
  /\ Sudoku!BoardSound
  /\ SolvedInv /\ EarlyInv /\ FixedInv /\ CountInv

LEMMA SameCardinality == \A S : Sudoku!Cardinality(S) = Cardinality(S)
BY DEF Sudoku!Cardinality, Cardinality

\* The numbers of cells and digits.
LEMMA BoardSizes ==
  ASSUME Sudoku!SolverAssumption
  PROVE  /\ Sudoku!N \in Nat /\ Sudoku!N > 1
         /\ IsFiniteSet(Sudoku!Digits) /\ Cardinality(Sudoku!Digits) = Sudoku!N
         /\ IsFiniteSet(Sudoku!Cells) /\ Cardinality(Sudoku!Cells) = Sudoku!N * Sudoku!N
         /\ Sudoku!Digits = 1 .. Sudoku!N
<1>1. Box \in Nat /\ Box > 1
  BY DEF Sudoku!SolverAssumption
<1>2. Sudoku!N \in Nat /\ Sudoku!N > 1
  BY <1>1 DEF Sudoku!N
<1>3. IsFiniteSet(1 .. Sudoku!N) /\ Cardinality(1 .. Sudoku!N) = Sudoku!N
  BY <1>2, FS_Interval
<1>4. IsFiniteSet(Sudoku!Cells) /\ Cardinality(Sudoku!Cells) = Sudoku!N * Sudoku!N
  BY <1>3, FS_Product DEF Sudoku!Cells
<1> QED
  BY <1>2, <1>3, <1>4 DEF Sudoku!Digits

LEMMA Candidates ==
  ASSUME Sudoku!SolverAssumption
  PROVE  \A S \in SUBSET Sudoku!Digits :
           IsFiniteSet(S) /\ Cardinality(S) \in Nat /\ Cardinality(S) <= Sudoku!N
BY BoardSizes, FS_Subset, FS_CardinalityType

LEMMA SetsOfCells ==
  ASSUME Sudoku!SolverAssumption
  PROVE  \A S \in SUBSET Sudoku!Cells :
           IsFiniteSet(S) /\ Cardinality(S) \in Nat /\ Cardinality(S) \in 0 .. Sudoku!N * Sudoku!N
<1> TAKE S \in SUBSET Sudoku!Cells
<1>0. PICK n \in Nat : n = Sudoku!N
  BY BoardSizes
<1>1. IsFiniteSet(Sudoku!Cells) /\ Cardinality(Sudoku!Cells) = n * n
  BY <1>0, BoardSizes
<1>2. IsFiniteSet(S) /\ Cardinality(S) \in Nat /\ Cardinality(S) <= Cardinality(Sudoku!Cells)
  BY <1>1, FS_Subset, FS_CardinalityType
<1> QED
  BY <1>0, <1>1, <1>2

\* What CountInv says is enough for the types of the counters.
LEMMA CountersTyped ==
  ASSUME Sudoku!SolverAssumption, NEW dat \in [Sudoku!Cells -> SUBSET Sudoku!Digits],
         NEW nom, nom = [c \in Sudoku!Cells |-> nom[c]],
         \A c \in Sudoku!Cells : nom[c] = Cardinality(dat[c]) \/ nom[c] = Cardinality(dat[c]) - 1
  PROVE  /\ nom \in [Sudoku!Cells -> -Sudoku!N .. Sudoku!N]
         /\ Sudoku!SumFunction(nom) \in -(Sudoku!N * Sudoku!N * Sudoku!N) .. Sudoku!N * Sudoku!N * Sudoku!N
<1>0. PICK n \in Nat : n = Sudoku!N /\ n > 1
  BY BoardSizes
<1>1. \A c \in Sudoku!Cells : nom[c] \in -n .. n
  <2> TAKE c \in Sudoku!Cells
  <2>1. Cardinality(dat[c]) \in Nat /\ Cardinality(dat[c]) <= n
    BY <1>0, Candidates
  <2> QED
    BY <1>0, <2>1
<1>2. nom \in [Sudoku!Cells -> -n .. n]
  BY <1>1
<1>3. IsFiniteSet(Sudoku!Cells) /\ Cardinality(Sudoku!Cells) = n * n
  BY <1>0, BoardSizes
<1>4. Sums(nom)[Sudoku!Cells] \in -(n * (n * n)) .. n * (n * n)
  BY <1>2, <1>3, SumsBounded
<1>5. n * (n * n) = n * n * n
  OBVIOUS
<1>6. DOMAIN nom = Sudoku!Cells
  BY <1>2
<1> QED
  BY <1>0, <1>2, <1>4, <1>5, <1>6, SumUnfolds

\* Taking candidates away (Keep), in checkPossible and hiddenSingle.
LEMMA KeepCounts ==
  ASSUME Sudoku!SolverAssumption, BoardInv, step # "start",
         NEW new \in [Sudoku!Cells -> SUBSET Sudoku!Digits],
         \A c \in Sudoku!Cells : new[c] \subseteq data[c],
         Sudoku!Keep(new)
  PROVE  /\ \A c \in Sudoku!Cells :
              /\ Cardinality(new[c]) \in Nat /\ Cardinality(data[c]) \in Nat
              /\ nominee'[c] = nominee[c] - (Cardinality(data[c]) - Cardinality(new[c]))
              /\ nominee[c] \in Int
              /\ Cardinality(new[c]) <= Cardinality(data[c])
         /\ DOMAIN nominee' = Sudoku!Cells /\ nominee' = [c \in Sudoku!Cells |-> nominee'[c]]
         /\ countPossibility' = Sudoku!SumFunction(nominee')
<1> DEFINE less == [c \in Sudoku!Cells |-> Cardinality(data[c] \ new[c])]
<1>1. data \in [Sudoku!Cells -> SUBSET Sudoku!Digits] /\ nominee \in [Sudoku!Cells -> Int]
  <2>1. Sudoku!N \in Nat
    BY BoardSizes
  <2> QED
    BY <2>1 DEF BoardInv, Sudoku!BoardSound, Sudoku!TypeOK
<1>2. ASSUME NEW c \in Sudoku!Cells
      PROVE  /\ Cardinality(new[c]) \in Nat /\ Cardinality(data[c]) \in Nat
             /\ Cardinality(data[c] \ new[c]) = Cardinality(data[c]) - Cardinality(new[c])
             /\ Cardinality(new[c]) <= Cardinality(data[c])
             /\ Cardinality(data[c] \ new[c]) \in Nat
  <2>1. /\ new[c] \in SUBSET Sudoku!Digits /\ data[c] \in SUBSET Sudoku!Digits
        /\ data[c] \ new[c] \in SUBSET Sudoku!Digits /\ data[c] \cap new[c] = new[c] /\ new[c] \in SUBSET data[c]
    BY <1>1
  <2>2. /\ IsFiniteSet(data[c]) /\ Cardinality(new[c]) \in Nat /\ Cardinality(data[c]) \in Nat
        /\ Cardinality(data[c] \ new[c]) \in Nat
    BY <2>1, Candidates
  <2>3. Cardinality(data[c] \ new[c]) = Cardinality(data[c]) - Cardinality(data[c] \cap new[c])
    BY <2>2, FS_Difference
  <2>4. Cardinality(new[c]) <= Cardinality(data[c])
    BY <2>1, <2>2, FS_Subset
  <2> QED
    BY <2>1, <2>2, <2>3, <2>4
<1>3. /\ nominee' = [c \in Sudoku!Cells |-> nominee[c] - less[c]]
      /\ countPossibility' = countPossibility - Sudoku!SumFunction(less)
  BY SameCardinality DEF Sudoku!Keep
<1>4. less \in [Sudoku!Cells -> Int]
  BY <1>2
<1>5. IsFiniteSet(Sudoku!Cells)
  BY BoardSizes
<1>6. Sums(nominee')[Sudoku!Cells] = Sums(nominee)[Sudoku!Cells] - Sums(less)[Sudoku!Cells]
  <2> HIDE DEF less
  <2> QED
    BY <1>1, <1>3, <1>4, <1>5, SumsOfDifference
<1>7. countPossibility = Sudoku!SumFunction(nominee)
  BY DEF BoardInv, Sudoku!BoardSound, Sudoku!CountsAgree
<1>8. DOMAIN nominee = Sudoku!Cells /\ DOMAIN nominee' = Sudoku!Cells /\ DOMAIN less = Sudoku!Cells
  BY <1>1, <1>3
<1>9. countPossibility' = Sudoku!SumFunction(nominee')
  <2> HIDE DEF less
  <2> QED
    BY <1>3, <1>6, <1>7, <1>8, SumUnfolds
<1>10. ASSUME NEW c \in Sudoku!Cells
       PROVE  /\ nominee'[c] = nominee[c] - (Cardinality(data[c]) - Cardinality(new[c]))
              /\ nominee[c] \in Int
  BY <1>1, <1>2, <1>3
<1>11. nominee' = [c \in Sudoku!Cells |-> nominee'[c]]
  <2> HIDE DEF less
  <2> QED
    BY <1>3
<1> HIDE DEF less
<1> QED
  BY <1>2, <1>8, <1>9, <1>10, <1>11

\* The invariant after a step that takes candidates away, but none of a fixed
\* cell, and none of the solution before checkCell has found a cell.
LEMMA KeepInv ==
  ASSUME Sudoku!SolverAssumption, BoardInv, step # "start",
         NEW new \in [Sudoku!Cells -> SUBSET Sudoku!Digits],
         \A c \in Sudoku!Cells : new[c] \subseteq data[c],
         \A c \in Sudoku!Cells : checked[c] # 0 => new[c] = data[c],
         found = {} => \A c \in Sudoku!Cells : solution[c] \in new[c],
         Sudoku!Keep(new), UNCHANGED <<res, shown>>,
         step' \in {"show1", "show2", "checkCell3"},
         found # {} => step' = "show2"
  PROVE  BoardInv'
<1>1. /\ data' = new /\ checked' = checked /\ countCell' = countCell /\ solution' = solution /\ found' = found
      /\ res' = res /\ shown' = shown
  BY DEF Sudoku!Keep
<1>2. /\ \A c \in Sudoku!Cells :
           /\ Cardinality(new[c]) \in Nat /\ Cardinality(data[c]) \in Nat
           /\ nominee'[c] = nominee[c] - (Cardinality(data[c]) - Cardinality(new[c]))
           /\ nominee[c] \in Int
           /\ Cardinality(new[c]) <= Cardinality(data[c])
      /\ DOMAIN nominee' = Sudoku!Cells /\ nominee' = [c \in Sudoku!Cells |-> nominee'[c]]
      /\ countPossibility' = Sudoku!SumFunction(nominee')
  BY KeepCounts
<1>3. \A c \in Sudoku!Cells :
        /\ \/ nominee'[c] = Cardinality(data'[c])
           \/ nominee'[c] = Cardinality(data'[c]) - 1 /\ nominee'[c] <= 0
        /\ nominee[c] = Cardinality(data[c]) => nominee'[c] = Cardinality(data'[c])
        /\ nominee[c] # Cardinality(data[c]) => nominee'[c] # Cardinality(data'[c])
  <2> TAKE c \in Sudoku!Cells
  <2>1. \/ nominee[c] = Cardinality(data[c])
        \/ nominee[c] = Cardinality(data[c]) - 1 /\ nominee[c] <= 0
    BY DEF BoardInv, CountInv
  <2>2. PICK a \in Nat, b \in Nat, n \in Int, m \in Int :
          a = Cardinality(new[c]) /\ b = Cardinality(data[c]) /\ n = nominee[c] /\ m = nominee'[c]
    BY <1>2
  <2>3. m = n - (b - a) /\ a <= b /\ data'[c] = new[c]
    BY <1>1, <1>2, <2>2
  <2> QED
    BY <2>1, <2>2, <2>3
<1>4. Done' = Done
  BY <1>3 DEF Done
<1>5. data' \in [Sudoku!Cells -> SUBSET Sudoku!Digits]
  BY <1>1
<1>6. /\ nominee' \in [Sudoku!Cells -> -Sudoku!N .. Sudoku!N]
      /\ Sudoku!SumFunction(nominee') \in -(Sudoku!N * Sudoku!N * Sudoku!N) .. Sudoku!N * Sudoku!N * Sudoku!N
  BY <1>2, <1>3, <1>5, CountersTyped
<1>7. Sudoku!TypeOK'
  BY <1>1, <1>2, <1>5, <1>6 DEF BoardInv, Sudoku!BoardSound, Sudoku!TypeOK
<1>8. CountInv' /\ EarlyInv'
  BY <1>1, <1>3, <1>4 DEF BoardInv, CountInv, EarlyInv
<1>9. SolvedInv' /\ FixedInv'
  BY <1>1 DEF BoardInv, SolvedInv, FixedInv
<1>10. Sudoku!CountsAgree' /\ Sudoku!ShownIsSolution' /\ Sudoku!SolutionKept'
  BY <1>1, <1>2 DEF BoardInv, Sudoku!BoardSound, Sudoku!CountsAgree, Sudoku!ShownIsSolution, Sudoku!SolutionKept
<1>11. Sudoku!NomineeCounts'
  <2> SUFFICES ASSUME found = {}, NEW c \in Sudoku!Cells, checked[c] = 0
               PROVE  nominee'[c] = Cardinality(data'[c])
    BY <1>1, SameCardinality DEF Sudoku!NomineeCounts, Sudoku!Unfixed
  <2>1. nominee[c] = Cardinality(data[c])
    BY SameCardinality DEF BoardInv, Sudoku!BoardSound, Sudoku!NomineeCounts, Sudoku!Unfixed
  <2> QED
    BY <1>3, <2>1
<1> QED
  BY <1>7, <1>8, <1>9, <1>10, <1>11 DEF BoardInv, Sudoku!BoardSound

\* checkPossible.
LEMMA CheckPossibleInv ==
  ASSUME Sudoku!SolverAssumption, BoardInv, Sudoku!checkPossible
  PROVE  BoardInv'
<1>1. /\ data \in [Sudoku!Cells -> SUBSET Sudoku!Digits] /\ solution \in [Sudoku!Cells -> Sudoku!Digits]
      /\ checked \in [Sudoku!Cells -> 0 .. Sudoku!N] /\ Sudoku!N \in Nat /\ Sudoku!Digits = 1 .. Sudoku!N
  BY BoardSizes DEF BoardInv, Sudoku!BoardSound, Sudoku!TypeOK, Sudoku!Grid
<1>2. PICK new : new = Sudoku!Eliminated
  OBVIOUS
<1>3. \A c \in Sudoku!Cells : Sudoku!Seen(c) \subseteq Sudoku!Cells
  BY DEF Sudoku!Seen, Sudoku!SameRow, Sudoku!SameColumn, Sudoku!SameBox, Sudoku!Cells
<1>4. new \in [Sudoku!Cells -> SUBSET Sudoku!Digits]
  BY <1>1, <1>2 DEF Sudoku!Eliminated
<1>5. \A c \in Sudoku!Cells : new[c] \subseteq data[c] /\ (checked[c] # 0 => new[c] = data[c])
  BY <1>2 DEF Sudoku!Eliminated, Sudoku!Unfixed
<1>6. ASSUME found = {}, NEW c \in Sudoku!Cells PROVE solution[c] \in new[c]
  <2>1. solution[c] \in data[c]
    BY <1>6 DEF BoardInv, Sudoku!BoardSound, Sudoku!SolutionKept, Sudoku!checkPossible
  <2>2. CASE checked[c] # 0
    BY <1>5, <2>1, <2>2
  <2>3. CASE checked[c] = 0
    <3>1. ASSUME NEW e \in Sudoku!Seen(c) PROVE checked[e] # solution[c]
      <4>1. e \in Sudoku!Cells /\ checked[e] \in {0, solution[e]} /\ solution[c] # 0
        BY <1>1, <1>3, <1>6 DEF BoardInv, FixedInv
      <4>2. e = c \/ solution[c] # solution[e]
        BY DEF BoardInv, SolvedInv
      <4> QED
        BY <2>3, <4>1, <4>2
    <3>2. new[c] = data[c] \ {checked[e] : e \in Sudoku!Seen(c)}
      BY <1>2, <2>3 DEF Sudoku!Eliminated, Sudoku!Unfixed
    <3> QED
      BY <2>1, <3>1, <3>2
  <2> QED
    BY <2>2, <2>3
<1>7. /\ Sudoku!Keep(new) /\ UNCHANGED <<res, shown>> /\ step # "start"
      /\ step' \in {"show1", "show2", "checkCell3"} /\ (found # {} => step' = "show2")
  BY <1>2 DEF Sudoku!checkPossible, BoardInv, FixedInv
<1> QED
  BY <1>4, <1>5, <1>6, <1>7, KeepInv

\* Every digit has its place in each column and in each row of the solution:
\* a column has as many cells as there are digits, and none twice.
LEMMA DigitInColumn ==
  ASSUME Sudoku!SolverAssumption, BoardInv, NEW c \in Sudoku!Cells, NEW n \in Sudoku!Digits
  PROVE  \E e \in Sudoku!SameColumn(c) : solution[e] = n
<1> DEFINE f == [r \in 1 .. Sudoku!N |-> solution[<<r, c[2]>>]]
<1>1. /\ solution \in [Sudoku!Cells -> 1 .. Sudoku!N] /\ n \in 1 .. Sudoku!N /\ c[2] \in 1 .. Sudoku!N
      /\ \A r \in 1 .. Sudoku!N : <<r, c[2]>> \in Sudoku!Cells
  BY BoardSizes DEF BoardInv, Sudoku!BoardSound, Sudoku!TypeOK, Sudoku!Grid, Sudoku!Cells
<1>2. f \in [1 .. Sudoku!N -> 1 .. Sudoku!N]
  BY <1>1
<1>3. ASSUME NEW r \in 1 .. Sudoku!N, NEW q \in 1 .. Sudoku!N, r # q PROVE f[r] # f[q]
  <2>1. <<q, c[2]>> \in Sudoku!Seen(<<r, c[2]>>) \ {<<r, c[2]>>}
    BY <1>1, <1>3 DEF Sudoku!Seen, Sudoku!SameColumn
  <2>2. solution[<<r, c[2]>>] # solution[<<q, c[2]>>]
    BY <1>1, <2>1 DEF BoardInv, SolvedInv
  <2> QED
    BY <2>2
<1>4. IsFiniteSet(1 .. Sudoku!N)
  BY BoardSizes
<1>5. f \in Injection(1 .. Sudoku!N, 1 .. Sudoku!N)
  <2> HIDE DEF f
  <2> QED
    BY <1>2, <1>3 DEF Injection, IsInjective
<1>6. f \in Surjection(1 .. Sudoku!N, 1 .. Sudoku!N)
  <2> HIDE DEF f
  <2> QED
    BY <1>4, <1>5, FS_Injection
<1>7. PICK r \in 1 .. Sudoku!N : f[r] = n
  <2> HIDE DEF f
  <2> QED
    BY <1>1, <1>6 DEF Surjection
<1>8. <<r, c[2]>> \in Sudoku!SameColumn(c)
  BY DEF Sudoku!SameColumn
<1> QED
  BY <1>7, <1>8

LEMMA DigitInRow ==
  ASSUME Sudoku!SolverAssumption, BoardInv, NEW c \in Sudoku!Cells, NEW n \in Sudoku!Digits
  PROVE  \E e \in Sudoku!SameRow(c) : solution[e] = n
<1> DEFINE f == [r \in 1 .. Sudoku!N |-> solution[<<c[1], r>>]]
<1>1. /\ solution \in [Sudoku!Cells -> 1 .. Sudoku!N] /\ n \in 1 .. Sudoku!N /\ c[1] \in 1 .. Sudoku!N
      /\ \A r \in 1 .. Sudoku!N : <<c[1], r>> \in Sudoku!Cells
  BY BoardSizes DEF BoardInv, Sudoku!BoardSound, Sudoku!TypeOK, Sudoku!Grid, Sudoku!Cells
<1>2. f \in [1 .. Sudoku!N -> 1 .. Sudoku!N]
  BY <1>1
<1>3. ASSUME NEW r \in 1 .. Sudoku!N, NEW q \in 1 .. Sudoku!N, r # q PROVE f[r] # f[q]
  <2>1. <<c[1], q>> \in Sudoku!Seen(<<c[1], r>>) \ {<<c[1], r>>}
    BY <1>1, <1>3 DEF Sudoku!Seen, Sudoku!SameRow
  <2>2. solution[<<c[1], r>>] # solution[<<c[1], q>>]
    BY <1>1, <2>1 DEF BoardInv, SolvedInv
  <2> QED
    BY <2>2
<1>4. IsFiniteSet(1 .. Sudoku!N)
  BY BoardSizes
<1>5. f \in Injection(1 .. Sudoku!N, 1 .. Sudoku!N)
  <2> HIDE DEF f
  <2> QED
    BY <1>2, <1>3 DEF Injection, IsInjective
<1>6. f \in Surjection(1 .. Sudoku!N, 1 .. Sudoku!N)
  <2> HIDE DEF f
  <2> QED
    BY <1>4, <1>5, FS_Injection
<1>7. PICK r \in 1 .. Sudoku!N : f[r] = n
  <2> HIDE DEF f
  <2> QED
    BY <1>1, <1>6 DEF Surjection
<1>8. <<c[1], r>> \in Sudoku!SameRow(c)
  BY DEF Sudoku!SameRow
<1> QED
  BY <1>7, <1>8

\* What the three loops of hiddenSingle have after p steps, from what they had
\* before: the body of its recursive definition.
HiddenStep(f, p) ==
  IF p = 0 THEN data
  ELSE LET g == f[p - 1]
           c == Sudoku!CellAt(p - 1)
           n == Sudoku!DigitAt(p - 1)
       IN  IF c \in Sudoku!Unfixed /\ n \in g[c] /\ Sudoku!OnlyPlace(g, c, n)
             THEN [g EXCEPT ![c] = {n}] ELSE g

\* Candidates as hiddenSingle may leave them.
HiddenGood(g) ==
  /\ g \in [Sudoku!Cells -> SUBSET Sudoku!Digits]
  /\ \A c \in Sudoku!Cells : g[c] \subseteq data[c] /\ solution[c] \in g[c]
  /\ \A c \in Sudoku!Cells : checked[c] # 0 => g[c] = data[c]

LEMMA HiddenOneMore ==
  ASSUME Sudoku!SolverAssumption, BoardInv, NEW g, HiddenGood(g), NEW c \in Sudoku!Unfixed,
         NEW n \in g[c], Sudoku!OnlyPlace(g, c, n)
  PROVE  HiddenGood([g EXCEPT ![c] = {n}])
<1>1. c \in Sudoku!Cells /\ checked[c] = 0 /\ n \in Sudoku!Digits
  BY DEF Sudoku!Unfixed, HiddenGood
<1>2. solution[c] = n
  <2>1. \A e \in Sudoku!SameColumn(c) \cup Sudoku!SameRow(c) : e \in Sudoku!Cells /\ solution[e] \in g[e]
    BY <1>1 DEF Sudoku!SameColumn, Sudoku!SameRow, Sudoku!Cells, HiddenGood
  <2>2. CASE {d \in Sudoku!SameColumn(c) : n \in g[d]} = {c}
    <3>1. PICK e \in Sudoku!SameColumn(c) : solution[e] = n
      BY <1>1, DigitInColumn
    <3> QED
      BY <2>1, <2>2, <3>1
  <2>3. CASE {d \in Sudoku!SameRow(c) : n \in g[d]} = {c}
    <3>1. PICK e \in Sudoku!SameRow(c) : solution[e] = n
      BY <1>1, DigitInRow
    <3> QED
      BY <2>1, <2>3, <3>1
  <2> QED
    BY <2>2, <2>3 DEF Sudoku!OnlyPlace
<1> QED
  BY <1>1, <1>2 DEF HiddenGood

\* The recursive definition has a solution.
HiddenSolved(m) == \E f : f = [p \in 0 .. m |-> HiddenStep(f, p)]

LEMMA HiddenSolution ==
  ASSUME NEW m \in Nat
  PROVE  HiddenSolved(m)
<1> DEFINE S == {k \in Nat : ~HiddenSolved(k)}
<1> SUFFICES ASSUME S # {} PROVE FALSE
  OBVIOUS
<1>1. PICK k \in S : \A j \in S : k <= j
  BY SmallestElement
<1>2. HiddenSolved(0)
  <2> DEFINE f == [p \in 0 .. 0 |-> data]
  <2>1. f = [p \in 0 .. 0 |-> HiddenStep(f, p)]
    BY DEF HiddenStep
  <2> QED
    BY <2>1 DEF HiddenSolved
<1>3. k \in Nat /\ k # 0 /\ k - 1 \in Nat /\ ~(k <= k - 1)
  BY <1>1, <1>2
<1>4. HiddenSolved(k - 1) /\ ~HiddenSolved(k)
  BY <1>1, <1>3
<1>5. PICK f : f = [p \in 0 .. k - 1 |-> HiddenStep(f, p)]
  BY <1>4 DEF HiddenSolved
<1> DEFINE g == [p \in 0 .. k |-> IF p < k THEN f[p] ELSE HiddenStep(f, k)]
<1>6. ASSUME NEW p \in 0 .. k PROVE g[p] = HiddenStep(g, p)
  <2>1. p = 0 \/ g[p - 1] = f[p - 1]
    BY <1>3
  <2>2. HiddenStep(g, p) = HiddenStep(f, p)
    <3> HIDE DEF g
    <3> QED
      BY <2>1 DEF HiddenStep
  <2>3. CASE p < k
    BY <1>3, <1>5, <2>2, <2>3
  <2>4. CASE p = k
    BY <1>3, <2>2, <2>4
  <2> QED
    BY <1>3, <2>3, <2>4
<1>7. g = [p \in 0 .. k |-> HiddenStep(g, p)]
  BY <1>6
<1> QED
  BY <1>4, <1>7 DEF HiddenSolved

LEMMA HiddenReturns ==
  ASSUME Sudoku!SolverAssumption, BoardInv, step # "start", found = {}
  PROVE  HiddenGood(Sudoku!Hidden)
<1>0. PICK m \in Nat : m = Sudoku!N * Sudoku!N * Sudoku!N
  BY BoardSizes
<1> DEFINE after == CHOOSE f : f = [p \in 0 .. m |-> HiddenStep(f, p)]
           S == {p \in 0 .. m : ~HiddenGood(after[p])}
<1>1. after = [p \in 0 .. m |-> HiddenStep(after, p)]
  BY HiddenSolution DEF HiddenSolved
<1>2. Sudoku!Hidden = after[m]
  BY <1>0 DEF Sudoku!Hidden, HiddenStep
<1> HIDE DEF after
<1>3. HiddenGood(data)
  BY DEF HiddenGood, BoardInv, Sudoku!BoardSound, Sudoku!TypeOK, Sudoku!SolutionKept
<1>4. ASSUME S # {} PROVE FALSE
  <2>1. S \in SUBSET Nat
    OBVIOUS
  <2>2. PICK p \in S : \A q \in S : p <= q
    BY <1>4, <2>1, SmallestElement
  <2>3. p \in 0 .. m /\ after[p] = HiddenStep(after, p) /\ ~HiddenGood(after[p])
    BY <1>1
  <2>4. p # 0
    BY <1>3, <2>3 DEF HiddenStep
  <2>5. p - 1 \in 0 .. m /\ ~(p <= p - 1)
    BY <2>3, <2>4
  <2>6. HiddenGood(after[p - 1])
    BY <2>2, <2>5
  <2>7. PICK g, c, n : g = after[p - 1] /\ c = Sudoku!CellAt(p - 1) /\ n = Sudoku!DigitAt(p - 1)
    OBVIOUS
  <2>8. after[p] = IF c \in Sudoku!Unfixed /\ n \in g[c] /\ Sudoku!OnlyPlace(g, c, n)
                   THEN [g EXCEPT ![c] = {n}] ELSE g
    BY <2>3, <2>4, <2>7 DEF HiddenStep
  <2>9. HiddenGood(after[p])
    <3>1. CASE c \in Sudoku!Unfixed /\ n \in g[c] /\ Sudoku!OnlyPlace(g, c, n)
      <4>1. HiddenGood(g)
        BY <2>6, <2>7
      <4>2. HiddenGood([g EXCEPT ![c] = {n}])
        BY <3>1, <4>1, HiddenOneMore
      <4> QED
        BY <2>8, <3>1, <4>2
    <3>2. CASE ~(c \in Sudoku!Unfixed /\ n \in g[c] /\ Sudoku!OnlyPlace(g, c, n))
      <4>1. after[p] = g
        BY <2>8, <3>2
      <4> QED
        BY <2>6, <2>7, <4>1
    <3> QED
      BY <3>1, <3>2
  <2> QED
    BY <2>3, <2>9
<1> QED
  BY <1>2, <1>4

\* hiddenSingle.
LEMMA HiddenSingleInv ==
  ASSUME Sudoku!SolverAssumption, BoardInv, Sudoku!hiddenSingle
  PROVE  BoardInv'
<1>1. step = "hiddenSingle" /\ found = {} /\ step' = "checkCell3" /\ UNCHANGED <<res, shown>>
  BY DEF Sudoku!hiddenSingle, BoardInv, FixedInv
<1>2. PICK new : new = Sudoku!Hidden
  OBVIOUS
<1>3. HiddenGood(new)
  BY <1>1, <1>2, HiddenReturns
<1>4. Sudoku!Keep(new)
  BY <1>2 DEF Sudoku!hiddenSingle
<1> QED
  BY <1>1, <1>3, <1>4, KeepInv DEF HiddenGood

\* The cells that checkCell fixes are not done, and have one candidate: the
\* digit of the solution.
LEMMA SinglesRight ==
  ASSUME Sudoku!SolverAssumption, BoardInv, step \in {"checkCell1", "checkCell2", "checkCell3"}
  PROVE  /\ Sudoku!Singles \in SUBSET Sudoku!Cells /\ Sudoku!Singles \cap Done = {}
         /\ \A c \in Sudoku!Singles :
              /\ checked[c] = 0 /\ nominee[c] = 1 /\ Cardinality(data[c]) = 1
              /\ data[c] = {solution[c]} /\ Sudoku!FirstCandidate(c) = solution[c] - 1
              /\ solution[c] \in 1 .. Sudoku!N
         /\ step = "checkCell1" => Sudoku!Singles = {}
<1>1. found = {} /\ step # "start"
  BY DEF BoardInv, FixedInv
<1>2. data \in [Sudoku!Cells -> SUBSET Sudoku!Digits] /\ solution \in [Sudoku!Cells -> Sudoku!Digits]
  BY DEF BoardInv, Sudoku!BoardSound, Sudoku!TypeOK, Sudoku!Grid
<1>3. ASSUME NEW c \in Sudoku!Singles
      PROVE  /\ c \in Sudoku!Cells /\ checked[c] = 0 /\ nominee[c] = 1 /\ Cardinality(data[c]) = 1
             /\ c \notin Done
             /\ data[c] = {solution[c]} /\ Sudoku!FirstCandidate(c) = solution[c] - 1
             /\ solution[c] \in 1 .. Sudoku!N
  <2>1. c \in Sudoku!Cells /\ checked[c] = 0 /\ nominee[c] = 1
    BY DEF Sudoku!Singles, Sudoku!Unfixed
  <2>2. Cardinality(data[c]) = 1
    BY <1>1, <2>1, SameCardinality DEF BoardInv, Sudoku!BoardSound, Sudoku!NomineeCounts, Sudoku!Unfixed
  <2>3. solution[c] \in data[c]
    BY <1>1, <2>1 DEF BoardInv, Sudoku!BoardSound, Sudoku!SolutionKept
  <2>4. IsFiniteSet(data[c])
    BY <1>2, <2>1, Candidates
  <2>5. PICK x : data[c] = {x}
    BY <2>2, <2>4, FS_Singleton
  <2>6. data[c] = {solution[c]} /\ solution[c] \in 1 .. Sudoku!N
    BY <1>2, <2>1, <2>3, <2>5, BoardSizes
  <2>7. Sudoku!FirstCandidate(c) = solution[c] - 1
    <3>1. PICK s \in 1 .. Sudoku!N : s = solution[c]
      BY <2>6
    <3>2. s <= s
      BY BoardSizes
    <3>3. (CHOOSE n \in {s} : \A m \in {s} : n <= m) = s
      BY <3>2
    <3> QED
      BY <2>6, <3>1, <3>3 DEF Sudoku!FirstCandidate
  <2> QED
    BY <2>1, <2>2, <2>6, <2>7 DEF Done
<1>4. step = "checkCell1" => Sudoku!Singles = {}
  <2> SUFFICES ASSUME step = "checkCell1", NEW c \in Sudoku!Singles PROVE FALSE
    OBVIOUS
  <2>1. nominee[c] = Sudoku!N /\ nominee[c] = 1
    BY DEF BoardInv, EarlyInv, Sudoku!Singles
  <2> QED
    BY <2>1, BoardSizes
<1> QED
  BY <1>3, <1>4

\* The invariant after checkCell has fixed the singles, and goes on to a call
\* that may follow.
LEMMA FixInv ==
  ASSUME Sudoku!SolverAssumption, BoardInv, step \in {"checkCell1", "checkCell2", "checkCell3"},
         Sudoku!FixCells, res' \in BOOLEAN, shown' = shown,
         step' \in {"checkPossible1", "checkPossible2", "hiddenSingle", "show2"},
         Sudoku!Singles # {} => step' \in {"checkPossible2", "show2"}
  PROVE  BoardInv'
<1>1. /\ found = {} /\ step # "start" /\ found' = Sudoku!Singles
      /\ data' = data /\ solution' = solution
      /\ checked' = [c \in Sudoku!Cells |-> IF c \in Sudoku!Singles THEN Sudoku!FirstCandidate(c) ELSE checked[c]]
      /\ nominee' = [c \in Sudoku!Cells |-> IF c \in Sudoku!Singles THEN 0 ELSE nominee[c]]
      /\ countCell' = countCell + Cardinality(Sudoku!Singles)
      /\ countPossibility' = countPossibility - Cardinality(Sudoku!Singles)
  BY SameCardinality DEF Sudoku!FixCells, BoardInv, FixedInv
<1>2. /\ data \in [Sudoku!Cells -> SUBSET Sudoku!Digits] /\ nominee \in [Sudoku!Cells -> Int]
      /\ checked \in [Sudoku!Cells -> 0 .. Sudoku!N] /\ Sudoku!N \in Nat
  <2>1. Sudoku!N \in Nat
    BY BoardSizes
  <2> QED
    BY <2>1 DEF BoardInv, Sudoku!BoardSound, Sudoku!TypeOK
<1>3. /\ Sudoku!Singles \in SUBSET Sudoku!Cells /\ Sudoku!Singles \cap Done = {}
      /\ \A c \in Sudoku!Singles :
           /\ checked[c] = 0 /\ nominee[c] = 1 /\ Cardinality(data[c]) = 1
           /\ data[c] = {solution[c]} /\ Sudoku!FirstCandidate(c) = solution[c] - 1
           /\ solution[c] \in 1 .. Sudoku!N
  BY SinglesRight
<1>4. \A c \in Sudoku!Cells :
        /\ c \in Sudoku!Singles => nominee'[c] = 0 /\ Cardinality(data[c]) = 1
        /\ c \notin Sudoku!Singles => nominee'[c] = nominee[c] /\ checked'[c] = checked[c]
        /\ \/ nominee[c] = Cardinality(data[c])
           \/ nominee[c] = Cardinality(data[c]) - 1 /\ nominee[c] <= 0
  BY <1>1, <1>3 DEF BoardInv, CountInv
<1>5. Done' = Done \cup Sudoku!Singles
  BY <1>1, <1>3, <1>4 DEF Done
<1>6. \A c \in Sudoku!Cells :
        \/ nominee'[c] = Cardinality(data'[c])
        \/ nominee'[c] = Cardinality(data'[c]) - 1 /\ nominee'[c] <= 0
  BY <1>1, <1>4
<1>7. countCell' = Cardinality(Done')
  <2>1. /\ Done \in SUBSET Sudoku!Cells /\ IsFiniteSet(Done) /\ IsFiniteSet(Sudoku!Singles)
        /\ Cardinality(Done) \in Nat /\ Cardinality(Sudoku!Singles) \in Nat
    BY <1>3, SetsOfCells DEF Done
  <2>2. Cardinality(Done \cup Sudoku!Singles)
          = Cardinality(Done) + Cardinality(Sudoku!Singles) - Cardinality(Done \cap Sudoku!Singles)
    BY <2>1, FS_Union
  <2>3. Done \cap Sudoku!Singles = {} /\ Cardinality({}) = 0
    BY <1>3, FS_EmptySet
  <2>4. countCell = Cardinality(Done)
    BY <1>1 DEF BoardInv, CountInv
  <2>5. Cardinality(Done \cup Sudoku!Singles) = Cardinality(Done) + Cardinality(Sudoku!Singles)
    <3>1. PICK a \in Nat, b \in Nat : a = Cardinality(Done) /\ b = Cardinality(Sudoku!Singles)
      BY <2>1
    <3>2. a + b - 0 = a + b
      OBVIOUS
    <3> QED
      BY <2>2, <2>3, <3>1, <3>2
  <2> QED
    BY <1>1, <1>5, <2>4, <2>5
<1>8. countPossibility' = Sudoku!SumFunction(nominee')
  <2> DEFINE one == [c \in Sudoku!Cells |-> IF c \in Sudoku!Singles THEN 1 ELSE 0]
  <2>1. IsFiniteSet(Sudoku!Cells)
    BY BoardSizes
  <2>2. one \in [Sudoku!Cells -> Int]
    OBVIOUS
  <2>3. nominee' = [c \in Sudoku!Cells |-> nominee[c] - one[c]]
    BY <1>1, <1>2, <1>3
  <2>4. Sums(one)[Sudoku!Cells] = Cardinality(Sudoku!Singles)
    <3>1. PICK u \in Int : u = 1
      OBVIOUS
    <3>2. one = [c \in Sudoku!Cells |-> IF c \in Sudoku!Singles THEN u ELSE 0]
      BY <3>1
    <3>3. Sums(one)[Sudoku!Cells] = u * Cardinality(Sudoku!Singles)
      <4> HIDE DEF one
      <4> QED
        BY <1>3, <2>1, <3>2, SumsOfEqual
    <3>4. Cardinality(Sudoku!Singles) \in Nat
      BY <1>3, SetsOfCells
    <3> QED
      BY <3>1, <3>3, <3>4
  <2> HIDE DEF one
  <2>5. Sums(nominee')[Sudoku!Cells] = Sums(nominee)[Sudoku!Cells] - Sums(one)[Sudoku!Cells]
    BY <1>2, <2>1, <2>2, <2>3, SumsOfDifference
  <2>6. DOMAIN nominee = Sudoku!Cells /\ DOMAIN nominee' = Sudoku!Cells
    BY <1>2, <2>3
  <2>7. countPossibility = Sudoku!SumFunction(nominee)
    BY <1>1 DEF BoardInv, Sudoku!BoardSound, Sudoku!CountsAgree
  <2> QED
    BY <1>1, <2>4, <2>5, <2>6, <2>7, SumUnfolds
<1>9. \A c \in Sudoku!Cells :
        /\ checked'[c] \in 0 .. Sudoku!N
        /\ checked'[c] # 0 => data[c] = {solution[c]} /\ c \in Done'
  <2> TAKE c \in Sudoku!Cells
  <2>1. CASE c \in Sudoku!Singles
    <3>1. checked'[c] = solution[c] - 1 /\ data[c] = {solution[c]} /\ solution[c] \in 1 .. Sudoku!N
      BY <1>1, <1>3, <2>1
    <3>2. c \in Done'
      BY <1>5, <2>1
    <3> QED
      BY <1>2, <3>1, <3>2
  <2>2. CASE c \notin Sudoku!Singles
    <3>1. checked'[c] = checked[c] /\ checked[c] \in 0 .. Sudoku!N
      BY <1>1, <1>2, <2>2
    <3>2. checked[c] # 0 => data[c] = {solution[c]} /\ c \in Done
      BY <1>1 DEF BoardInv, FixedInv, CountInv
    <3> QED
      BY <1>5, <3>1, <3>2
  <2> QED
    BY <2>1, <2>2
<1>10. Sudoku!TypeOK'
  <2>1. nominee' = [c \in Sudoku!Cells |-> nominee'[c]]
    BY <1>1
  <2>2. /\ nominee' \in [Sudoku!Cells -> -Sudoku!N .. Sudoku!N]
        /\ Sudoku!SumFunction(nominee') \in -(Sudoku!N * Sudoku!N * Sudoku!N) .. Sudoku!N * Sudoku!N * Sudoku!N
    BY <1>1, <1>2, <1>6, <2>1, CountersTyped
  <2>3. Done' \in SUBSET Sudoku!Cells
    BY <1>3, <1>5 DEF Done
  <2>4. countCell' \in 0 .. Sudoku!N * Sudoku!N
    BY <1>7, <2>3, SetsOfCells
  <2>5. checked' \in [Sudoku!Cells -> 0 .. Sudoku!N]
    BY <1>1, <1>9
  <2> QED
    BY <1>1, <1>3, <1>8, <2>2, <2>4, <2>5 DEF BoardInv, Sudoku!BoardSound, Sudoku!TypeOK
<1>11. CountInv' /\ EarlyInv' /\ SolvedInv'
  BY <1>1, <1>6, <1>7, <1>9 DEF BoardInv, CountInv, EarlyInv, SolvedInv
<1>12. FixedInv'
  <2>1. found' = {} => \A c \in Sudoku!Cells : checked'[c] \in {0, solution[c]}
    BY <1>1, <1>4 DEF BoardInv, FixedInv
  <2> QED
    BY <1>1, <1>9, <2>1 DEF FixedInv
<1>13. Sudoku!CountsAgree' /\ Sudoku!ShownIsSolution' /\ Sudoku!SolutionKept'
  BY <1>1, <1>8 DEF BoardInv, Sudoku!BoardSound, Sudoku!CountsAgree, Sudoku!ShownIsSolution, Sudoku!SolutionKept
<1>14. Sudoku!NomineeCounts'
  <2> SUFFICES ASSUME found' = {}, NEW c \in Sudoku!Cells, checked'[c] = 0
               PROVE  nominee'[c] = Cardinality(data'[c])
    BY SameCardinality DEF Sudoku!NomineeCounts, Sudoku!Unfixed
  <2>1. c \notin Sudoku!Singles /\ nominee'[c] = nominee[c] /\ checked[c] = 0
    BY <1>1, <1>4
  <2>2. nominee[c] = Cardinality(data[c])
    BY <1>1, <2>1, SameCardinality DEF BoardInv, Sudoku!BoardSound, Sudoku!NomineeCounts, Sudoku!Unfixed
  <2> QED
    BY <1>1, <2>1, <2>2
<1> QED
  BY <1>10, <1>11, <1>12, <1>13, <1>14 DEF BoardInv, Sudoku!BoardSound

\* checkCell.
LEMMA CheckCellInv ==
  ASSUME Sudoku!SolverAssumption, BoardInv, Sudoku!checkCell
  PROVE  BoardInv'
<1>1. res \in BOOLEAN
  BY DEF BoardInv, Sudoku!BoardSound, Sudoku!TypeOK
<1>2. CASE step = "checkCell1"
  <2>1. Sudoku!FixCells /\ step' = "checkPossible1" /\ res' = res /\ shown' = shown
    BY <1>2 DEF Sudoku!checkCell
  <2>2. Sudoku!Singles = {}
    BY <1>2, SinglesRight
  <2> QED
    BY <1>1, <1>2, <2>1, <2>2, FixInv
<1>3. CASE step = "checkCell2"
  <2>1. /\ Sudoku!FixCells /\ res' \in BOOLEAN /\ shown' = shown
        /\ Sudoku!Singles # {} => res' = TRUE
        /\ step' = IF res' THEN "checkPossible2" ELSE "hiddenSingle"
    BY <1>3 DEF Sudoku!checkCell, Sudoku!Returns
  <2> QED
    BY <1>3, <2>1, FixInv
<1>4. CASE step = "checkCell3"
  <2>1. Sudoku!FixCells /\ step' = "show2" /\ res' = res /\ shown' = shown
    BY <1>4 DEF Sudoku!checkCell
  <2> QED
    BY <1>1, <1>4, <2>1, FixInv
<1> QED
  BY <1>2, <1>3, <1>4 DEF Sudoku!checkCell

\* start: the givens are done, all other cells have every digit.
LEMMA StartInv ==
  ASSUME Sudoku!SolverAssumption, BoardInv, Sudoku!start
  PROVE  BoardInv'
<1>1. /\ step = "start" /\ step' = "checkCell1" /\ found = {} /\ found' = {}
      /\ nominee = [c \in Sudoku!Cells |-> Sudoku!N] /\ countCell = 0 /\ countPossibility = 0
      /\ checked' = checked /\ solution' = solution /\ res' = res /\ shown' = shown
      /\ data' = [c \in Sudoku!Cells |-> IF c \in Sudoku!Unfixed THEN Sudoku!Digits ELSE data[c]]
      /\ nominee' = [c \in Sudoku!Cells |-> IF c \in Sudoku!Unfixed THEN nominee[c] ELSE 0]
      /\ countCell' = countCell + Cardinality(Sudoku!Cells \ Sudoku!Unfixed)
      /\ countPossibility' = countPossibility + Sudoku!N * Cardinality(Sudoku!Unfixed)
  BY SameCardinality DEF Sudoku!start, BoardInv, EarlyInv, FixedInv
<1>2. PICK n \in Nat : n = Sudoku!N /\ n > 1 /\ Cardinality(Sudoku!Digits) = n
  BY BoardSizes
<1>3. /\ data \in [Sudoku!Cells -> SUBSET Sudoku!Digits] /\ checked \in [Sudoku!Cells -> 0 .. Sudoku!N]
      /\ solution \in [Sudoku!Cells -> Sudoku!Digits]
  BY DEF BoardInv, Sudoku!BoardSound, Sudoku!TypeOK, Sudoku!Grid
<1>4. ASSUME NEW c \in Sudoku!Cells
      PROVE  /\ checked[c] = 0 => nominee'[c] = n /\ Cardinality(data'[c]) = n /\ data'[c] = Sudoku!Digits
             /\ checked[c] # 0 => /\ nominee'[c] = 0 /\ Cardinality(data'[c]) = 1
                                  /\ data'[c] = {solution[c]} /\ data'[c] = data[c]
  <2>1. checked[c] = 0 => nominee'[c] = n /\ Cardinality(data'[c]) = n /\ data'[c] = Sudoku!Digits
    BY <1>1, <1>2 DEF Sudoku!Unfixed
  <2>2. checked[c] # 0 => nominee'[c] = 0 /\ data'[c] = data[c] /\ data[c] = {solution[c]}
    BY <1>1 DEF Sudoku!Unfixed, BoardInv, FixedInv
  <2>3. Cardinality({solution[c]}) = 1
    BY FS_Singleton
  <2> QED
    BY <2>1, <2>2, <2>3
<1>5. data' \in [Sudoku!Cells -> SUBSET Sudoku!Digits]
  BY <1>1, <1>3
<1>6. Done' = Sudoku!Cells \ Sudoku!Unfixed
  BY <1>2, <1>4 DEF Done, Sudoku!Unfixed
<1>7. Sudoku!Unfixed \in SUBSET Sudoku!Cells /\ Sudoku!Cells \ Sudoku!Unfixed \in SUBSET Sudoku!Cells
  BY DEF Sudoku!Unfixed
<1>8. Cardinality(Sudoku!Unfixed) \in Nat /\ Cardinality(Sudoku!Cells \ Sudoku!Unfixed) \in 0 .. Sudoku!N * Sudoku!N
      /\ Cardinality(Sudoku!Cells \ Sudoku!Unfixed) \in Nat
  BY <1>7, SetsOfCells
<1>9. countCell' = Cardinality(Done') /\ countCell' \in 0 .. Sudoku!N * Sudoku!N
  BY <1>1, <1>6, <1>8
<1>10. countPossibility' = Sudoku!SumFunction(nominee')
  <2>1. nominee' = [c \in Sudoku!Cells |-> IF c \in Sudoku!Unfixed THEN n ELSE 0]
    BY <1>1, <1>2
  <2>2. IsFiniteSet(Sudoku!Cells) /\ n \in Int
    BY BoardSizes
  <2>3. Sums(nominee')[Sudoku!Cells] = n * Cardinality(Sudoku!Unfixed)
    BY <1>7, <2>1, <2>2, SumsOfEqual
  <2>4. DOMAIN nominee' = Sudoku!Cells
    BY <2>1
  <2>5. n * Cardinality(Sudoku!Unfixed) \in Int
    BY <1>8, <2>2
  <2>6. countPossibility' = n * Cardinality(Sudoku!Unfixed)
    BY <1>1, <1>2, <2>5
  <2> QED
    BY <2>3, <2>4, <2>6, SumUnfolds
<1>11. \A c \in Sudoku!Cells :
         \/ nominee'[c] = Cardinality(data'[c])
         \/ nominee'[c] = Cardinality(data'[c]) - 1 /\ nominee'[c] <= 0
  BY <1>4
<1>12. Sudoku!TypeOK'
  <2>1. nominee' = [c \in Sudoku!Cells |-> nominee'[c]]
    BY <1>1
  <2>2. /\ nominee' \in [Sudoku!Cells -> -Sudoku!N .. Sudoku!N]
        /\ Sudoku!SumFunction(nominee') \in -(Sudoku!N * Sudoku!N * Sudoku!N) .. Sudoku!N * Sudoku!N * Sudoku!N
    BY <1>5, <1>11, <2>1, CountersTyped
  <2> QED
    BY <1>1, <1>5, <1>9, <1>10, <2>2 DEF BoardInv, Sudoku!BoardSound, Sudoku!TypeOK
<1>13. CountInv'
  <2>1. \A c \in Sudoku!Cells : checked'[c] # 0 => c \in Done'
    BY <1>1, <1>6 DEF Sudoku!Unfixed
  <2> QED
    BY <1>9, <1>11, <2>1 DEF CountInv
<1>14. EarlyInv'
  <2>1. Sudoku!Unfixed' = Sudoku!Unfixed
    BY <1>1 DEF Sudoku!Unfixed
  <2>2. \A c \in Sudoku!Unfixed : nominee'[c] = Sudoku!N
    BY <1>2, <1>4 DEF Sudoku!Unfixed
  <2> QED
    BY <1>1, <2>1, <2>2 DEF EarlyInv
<1>15. SolvedInv' /\ FixedInv'
  BY <1>1, <1>4 DEF BoardInv, SolvedInv, FixedInv
<1>16. Sudoku!CountsAgree' /\ Sudoku!ShownIsSolution'
  BY <1>1, <1>10 DEF BoardInv, Sudoku!BoardSound, Sudoku!CountsAgree, Sudoku!ShownIsSolution
<1>17. Sudoku!SolutionKept' /\ Sudoku!NomineeCounts'
  BY <1>1, <1>3, <1>4, SameCardinality DEF Sudoku!SolutionKept, Sudoku!NomineeCounts, Sudoku!Unfixed
<1> QED
  BY <1>12, <1>13, <1>14, <1>15, <1>16, <1>17 DEF BoardInv, Sudoku!BoardSound

\* currentValue: a fixed cell has one candidate, which is printed.
LEMMA CurrentValueInv ==
  ASSUME Sudoku!SolverAssumption, BoardInv, Sudoku!currentValue
  PROVE  BoardInv'
<1>1. /\ step \in {"show1", "show2"} /\ step' = IF step = "show1" THEN "checkCell2" ELSE "exec"
      /\ UNCHANGED <<data, checked, nominee, countCell, countPossibility, res, solution, found>>
  BY DEF Sudoku!currentValue
<1>2. PICK u \in {0} \cup Sudoku!Digits :
        shown' = [c \in Sudoku!Cells |->
                    IF c \in Sudoku!Unfixed THEN 0
                    ELSE IF data[c] = {} THEN u
                    ELSE CHOOSE n \in data[c] : \A m \in data[c] : n >= m]
  BY DEF Sudoku!currentValue
<1>3. /\ solution \in [Sudoku!Cells -> 1 .. Sudoku!N] /\ Sudoku!N \in Nat
  BY BoardSizes DEF BoardInv, Sudoku!BoardSound, Sudoku!TypeOK, Sudoku!Grid
<1>4. ASSUME NEW c \in Sudoku!Cells PROVE shown'[c] \in {0, solution[c]}
  <2>1. CASE checked[c] = 0
    BY <1>2, <2>1 DEF Sudoku!Unfixed
  <2>2. CASE checked[c] # 0
    <3>1. data[c] = {solution[c]}
      BY <2>2 DEF BoardInv, FixedInv
    <3>2. PICK s \in 1 .. Sudoku!N : s = solution[c]
      BY <1>3
    <3>3. (CHOOSE n \in {s} : \A m \in {s} : n >= m) = s
      BY <1>3
    <3>4. shown'[c] = CHOOSE n \in data[c] : \A m \in data[c] : n >= m
      BY <1>2, <2>2, <3>1 DEF Sudoku!Unfixed
    <3> QED
      BY <3>1, <3>2, <3>3, <3>4
  <2> QED
    BY <2>1, <2>2
<1>5. shown' \in [Sudoku!Cells -> 0 .. Sudoku!N]
  <2>1. \A c \in Sudoku!Cells : shown'[c] \in 0 .. Sudoku!N
    BY <1>3, <1>4
  <2>2. shown' = [c \in Sudoku!Cells |-> shown'[c]]
    BY <1>2
  <2> QED
    BY <2>1, <2>2
<1>6. Sudoku!TypeOK' /\ Sudoku!ShownIsSolution'
  BY <1>1, <1>4, <1>5 DEF BoardInv, Sudoku!BoardSound, Sudoku!TypeOK, Sudoku!ShownIsSolution
<1>7. found # {} => step' = "exec"
  BY <1>1 DEF BoardInv, FixedInv
<1>8. Sudoku!CountsAgree' /\ Sudoku!NomineeCounts' /\ Sudoku!SolutionKept'
  BY <1>1 DEF BoardInv, Sudoku!BoardSound, Sudoku!CountsAgree, Sudoku!NomineeCounts, Sudoku!SolutionKept,
     Sudoku!Unfixed
<1>9. SolvedInv' /\ EarlyInv' /\ FixedInv' /\ CountInv'
  BY <1>1, <1>7 DEF BoardInv, SolvedInv, EarlyInv, FixedInv, CountInv, Done
<1> QED
  BY <1>6, <1>8, <1>9 DEF BoardInv, Sudoku!BoardSound

\* The constructor and setInit.
LEMMA BoardStart ==
  ASSUME Sudoku!SolverAssumption, Sudoku!Init
  PROVE  BoardInv
<1>1. PICK p \in Puzzles :
        /\ solution = p.solution
        /\ data = [c \in Sudoku!Cells |-> IF c \in p.given THEN {p.solution[c]} ELSE {}]
        /\ checked = [c \in Sudoku!Cells |-> IF c \in p.given THEN p.solution[c] ELSE 0]
  BY DEF Sudoku!Init
<1>2. /\ solution \in Sudoku!Grid
      /\ \A c \in Sudoku!Cells : \A e \in Sudoku!Seen(c) \ {c} : solution[c] # solution[e]
  BY <1>1 DEF Sudoku!SolverAssumption
<1>3. /\ nominee = [c \in Sudoku!Cells |-> Sudoku!N] /\ countCell = 0 /\ countPossibility = 0
      /\ step = "start" /\ res = FALSE /\ shown = [c \in Sudoku!Cells |-> 0] /\ found = {}
  BY DEF Sudoku!Init
<1>4. PICK n \in Nat : n = Sudoku!N /\ Sudoku!Digits = 1 .. n
  BY BoardSizes
<1>5. /\ \A c \in Sudoku!Cells : solution[c] \in 1 .. n
      /\ data \in [Sudoku!Cells -> SUBSET Sudoku!Digits] /\ checked \in [Sudoku!Cells -> 0 .. n]
  BY <1>1, <1>2, <1>4 DEF Sudoku!Grid
<1>6. 0 \in 0 .. n * n /\ 0 \in -(n * n * n) .. n * n * n /\ n \in -n .. n /\ 0 \in 0 .. n
  <2>1. n * n \in Nat
    OBVIOUS
  <2>2. PICK k \in Nat : k = n * n
    BY <2>1
  <2>3. k * n \in Nat
    OBVIOUS
  <2> QED
    BY <2>2, <2>3
<1>7. Sudoku!TypeOK
  BY <1>2, <1>3, <1>4, <1>5, <1>6 DEF Sudoku!TypeOK
<1>8. FixedInv
  BY <1>1, <1>3, <1>5 DEF FixedInv
<1> QED
  BY <1>2, <1>3, <1>7, <1>8 DEF BoardInv, Sudoku!BoardSound, Sudoku!CountsAgree, Sudoku!NomineeCounts,
     Sudoku!SolutionKept, Sudoku!ShownIsSolution, SolvedInv, EarlyInv, CountInv

LEMMA BoardStep ==
  ASSUME Sudoku!SolverAssumption, BoardInv, Sudoku!Next
  PROVE  BoardInv'
BY StartInv, CheckCellInv, CheckPossibleInv, HiddenSingleInv, CurrentValueInv DEF Sudoku!Next

LEMMA BoardStutters ==
  ASSUME BoardInv, UNCHANGED sudoku
  PROVE  BoardInv'
BY DEF sudoku, BoardInv, Sudoku!BoardSound, Sudoku!TypeOK, Sudoku!CountsAgree, Sudoku!NomineeCounts,
   Sudoku!SolutionKept, Sudoku!ShownIsSolution, Sudoku!Unfixed, SolvedInv, EarlyInv, FixedInv, CountInv, Done

\* In Qt/Solver, for a grid of any size and any solvable puzzle: the counters
\* of solver.cpp stay in step (countPossibility is the sum of nominee, nominee
\* the number of candidates until a cell is found), elimination and hidden
\* singles never lose the solution before checkCell has found a cell, and every
\* digit main prints is the one of the solution, although checkCell fixes cells
\* to a wrong number.
THEOREM SolverBoardSound ==
  SpecSamples => []BoardSound
<1> DEFINE Inv == prog = "solver" => BoardInv
<1>0. Sudoku!SolverAssumption
  BY SampleAssumptions
<1>1. InitSamples => Inv
  BY <1>0, BoardStart DEF InitSamples
<1>2. Inv /\ [NextSamples]_all => Inv'
  <2> SUFFICES ASSUME Inv, [NextSamples]_all, prog' = "solver" PROVE BoardInv'
    OBVIOUS
  <2>1. prog = "solver" /\ (Sudoku!Next \/ UNCHANGED sudoku)
    BY DEF NextSamples, OfParent, OfBalance, OfSolver, OfServer, Over, all
  <2> QED
    BY <1>0, <2>1, BoardStep, BoardStutters
<1>3. Inv => BoardSound
  BY DEF BoardInv, BoardSound
<1> QED
  BY <1>1, <1>2, <1>3, PTL DEF SpecSamples
=============================================================================
