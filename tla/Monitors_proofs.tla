--------------------------- MODULE Monitors_proofs ---------------------------
(***************************************************************************)
(* Proofs about the monitors of Qt, for any number of interfaces,          *)
(* connections, packets, clients, processes, sockets and rounds.           *)
(***************************************************************************)
EXTENDS MCMonitors, Vectors_proofs, FiniteSetTheorems

-----------------------------------------------------------------------------
(* The connection tracker of Qt/libpcap: what the unlocked vectors still   *)
(* promise, and that only a race breaks the rest.                          *)

\* An iterator of a thread is of an element or of end(), and is there only
\* between the look and the use.
IteratorInv ==
  /\ \A t \in Threads : it[t] = NoIterator \/ it[t].pos >= 1
  /\ \A d \in Devices : it[d] # NoIterator => todo[d] # << >>
  /\ ppc = "erase" <=> it[Printer] # NoIterator

Working(d) == todo[d] # << >> /\ it[d] # NoIterator

\* The iterator is of an element with that connection.
Holds(q, iter, cn) ==
  /\ iter.cap = cap[q] /\ iter.pos \in 1 .. Len(queue[q])
  /\ queue[q][iter.pos].conn = cn

\* What a capture thread has seen by std::find is still so.
DeviceSees(d) ==
  LET call == Head(todo[d]) IN
  IF call.op = "push" THEN \A k \in 1 .. Len(queue[call.q]) : queue[call.q][k].conn # call.conn
  ELSE Holds(call.q, it[d], call.conn)

\* What the print thread has seen by size(), at() and std::find is still so.
PrinterSees ==
  /\ ppc \in {"at", "find"} => i <= Len(queue["wait"])
  /\ ppc = "find" => queue["wait"][i].conn = inst /\ queue["wait"][i].age > TIMEOUT
  /\ ppc = "show" => i <= Len(queue[shown])
  /\ ppc = "erase" =>
       /\ it[Printer].cap = cap["wait"] /\ it[Printer].pos <= Len(queue["wait"])
       /\ "wait" \notin raced => queue["wait"][it[Printer].pos].age > TIMEOUT

\* Only a thread that is marked stale may be wrong about a queue.
LookInv ==
  /\ \A d \in Devices \ stale : Working(d) => DeviceSees(d)
  /\ Printer \notin stale => PrinterSees

\* No connection is twice in a queue that no race has touched.
UniqueInv ==
  \A q \in Queues \ raced : \A k, l \in 1 .. Len(queue[q]) :
    queue[q][k].conn = queue[q][l].conn => k = l

RaceInv == IteratorInv /\ LookInv /\ UniqueInv /\ EndsBadlyByRace

-----------------------------------------------------------------------------
(* Type correctness.                                                       *)

\* A call is what Push and Remove make.
LEMMA CallType ==
  ASSUME NEW q \in Queues, NEW cn \in Conns
  PROVE  Push(q, cn) \in Call /\ Remove(q, cn) \in Call
BY DEF Push, Remove, Call

\* got_packet makes calls for the connection of the packet and its reverse:
\* a SYN,ACK first removes and then pushes, everything else does one of both.
LEMMA CallsType ==
  ASSUME NEW cn \in Conns, NEW F
  PROVE  Calls(cn, F) \in Seq(Call)
<1>1. Back(cn) \in Conns
  BY TrackerAssumption DEF TrackerAssumption
<1>2. "wait" \in Queues /\ "connected" \in Queues
  BY DEF Queues
<1>3. /\ Push("wait", cn) \in Call /\ Push("connected", cn) \in Call
      /\ Remove("wait", Back(cn)) \in Call
      /\ Remove("connected", cn) \in Call /\ Remove("connected", Back(cn)) \in Call
  BY <1>1, <1>2, CallType
<1> DEFINE A == CASE F = {"SYN"} -> <<Push("wait", cn)>>
                  [] F = {"SYN", "ACK"} -> <<Remove("wait", Back(cn)), Push("connected", cn)>>
                  [] OTHER -> << >>
           B == IF F \cap {"FIN", "RST"} # {}
                  THEN <<Remove("connected", cn), Remove("connected", Back(cn))>> ELSE << >>
<1> HIDE DEF Call
<1>4. A \in Seq(Call)
  BY <1>3, Z3
<1>5. B \in Seq(Call)
  BY <1>3
<1> HIDE DEF A, B
<1>6. A \o B \in Seq(Call)
  BY <1>4, <1>5, ConcatProperties
<1> QED
  BY <1>6 DEF Calls, A, B

\* std::find returns an iterator that is not the initial one.
LEMMA FindType ==
  ASSUME TypeOK, NEW q \in Queues, NEW cn
  PROVE  /\ Find(q, cn) \in 1 .. Len(queue[q]) + 1
         /\ Find(q, cn) <= Len(queue[q]) => queue[q][Find(q, cn)].conn = cn
         /\ Find(q, cn) > Len(queue[q]) => \A k \in 1 .. Len(queue[q]) : queue[q][k].conn # cn
         /\ IteratorAt(q, Find(q, cn)) \in Iterator
         /\ IteratorAt(q, Find(q, cn)) # NoIterator
         /\ IteratorAt(q, Find(q, cn)).pos = Find(q, cn)
         /\ IteratorAt(q, Find(q, cn)).cap = cap[q]
<1>1. queue[q] \in Seq(Address) /\ cap[q] \in Nat
  BY DEF TypeOK
<1>2. At(q, cn) \in SUBSET DOMAIN queue[q] /\ DOMAIN queue[q] = 1 .. Len(queue[q]) /\ Len(queue[q]) \in Nat
  BY <1>1, LenProperties DEF At
<1>3. /\ Find(q, cn) \in 1 .. Len(queue[q]) + 1
      /\ Find(q, cn) <= Len(queue[q]) => Find(q, cn) \in At(q, cn)
      /\ Find(q, cn) > Len(queue[q]) => At(q, cn) = {}
  BY <1>1, <1>2, FirstIndexProperties DEF Find
<1>4. \A k : k \in At(q, cn) <=> k \in 1 .. Len(queue[q]) /\ queue[q][k].conn = cn
  BY <1>2 DEF At
<1>5. IteratorAt(q, Find(q, cn)) = [pos |-> Find(q, cn), cap |-> cap[q]]
  BY DEF IteratorAt
<1>6. Find(q, cn) \in Nat /\ Find(q, cn) # 0
  BY <1>2, <1>3
<1> QED
  BY <1>1, <1>3, <1>4, <1>5, <1>6 DEF Iterator, NoIterator

\* push_back adds one element at the end and leaves the other queue alone.
LEMMA PushFacts ==
  ASSUME TypeOK, NEW q \in Queues, NEW e \in Address, PushBack(q, e)
  PROVE  /\ queue' \in [Queues -> Seq(Address)] /\ cap' \in [Queues -> Nat] /\ outcome' = outcome
         /\ \A r \in Queues \ {q} : queue'[r] = queue[r] /\ cap'[r] = cap[r]
         /\ Len(queue'[q]) = Len(queue[q]) + 1
         /\ \A k \in 1 .. Len(queue[q]) : queue'[q][k] = queue[q][k]
         /\ queue'[q][Len(queue[q]) + 1] = e
<1>1. queue \in [Queues -> Seq(Address)] /\ cap \in [Queues -> Nat]
  BY DEF TypeOK
<1>2. queue[q] \in Seq(Address) /\ cap[q] \in Nat
  BY <1>1
<1>3. /\ Append(queue[q], e) \in Seq(Address)
      /\ Len(Append(queue[q], e)) = Len(queue[q]) + 1
      /\ \A k \in 1 .. Len(queue[q]) : Append(queue[q], e)[k] = queue[q][k]
      /\ Append(queue[q], e)[Len(queue[q]) + 1] = e
  BY <1>2, AppendProperties
<1> DEFINE s == Append(queue[q], e)
           n == IF Len(queue[q]) < cap[q] THEN cap[q] ELSE IF cap[q] = 0 THEN 1 ELSE 2 * cap[q]
<1>4. queue' = [queue EXCEPT ![q] = s] /\ cap' = [cap EXCEPT ![q] = n] /\ outcome' = outcome
  BY DEF PushBack
<1>5. n \in Nat
  BY <1>2
<1> HIDE DEF s, n
<1>6. queue' \in [Queues -> Seq(Address)] /\ queue'[q] = s /\ \A r \in Queues \ {q} : queue'[r] = queue[r]
  BY <1>1, <1>3, <1>4 DEF s
<1>7. cap' \in [Queues -> Nat] /\ \A r \in Queues \ {q} : cap'[r] = cap[r]
  BY <1>1, <1>4, <1>5
<1> QED
  BY <1>3, <1>4, <1>6, <1>7 DEF s

\* erase takes out the element of the iterator when that is valid, and
\* corrupts the vector, which the model leaves alone, when it is not.
LEMMA EraseFacts ==
  ASSUME TypeOK, NEW q \in Queues, NEW iter \in Iterator, iter.pos >= 1, Erase(q, iter)
  PROVE  /\ queue' \in [Queues -> Seq(Address)] /\ cap' = cap
         /\ \A r \in Queues \ {q} : queue'[r] = queue[r]
         /\ \/ /\ iter.cap = cap[q] /\ iter.pos \in 1 .. Len(queue[q]) /\ outcome' = outcome
               /\ Len(queue'[q]) = Len(queue[q]) - 1
               /\ \A k \in 1 .. Len(queue[q]) : k < iter.pos => queue'[q][k] = queue[q][k]
               /\ \A k \in 1 .. Len(queue[q]) : k > iter.pos => queue'[q][k - 1] = queue[q][k]
            \/ /\ ~(iter.cap = cap[q] /\ iter.pos <= Len(queue[q]))
               /\ outcome' = "corrupted" /\ queue' = queue
<1>1. queue \in [Queues -> Seq(Address)] /\ queue[q] \in Seq(Address) /\ Len(queue[q]) \in Nat
  BY DEF TypeOK
<1>2. iter.pos \in Nat \ {0}
  BY DEF Iterator
<1>3. CASE iter.cap = cap[q] /\ iter.pos <= Len(queue[q])
  <2> DEFINE s == RemoveIndex(queue[q], iter.pos)
  <2>1. /\ s \in Seq(Address) /\ Len(s) = Len(queue[q]) - 1
        /\ \A k \in 1 .. Len(queue[q]) : k < iter.pos => s[k] = queue[q][k]
        /\ \A k \in 1 .. Len(queue[q]) : k > iter.pos => s[k - 1] = queue[q][k]
    BY <1>1, <1>2, <1>3, RemoveIndexProperties
  <2>2. queue' = [queue EXCEPT ![q] = s] /\ outcome' = outcome /\ cap' = cap
    BY <1>3 DEF Erase
  <2> HIDE DEF s
  <2>3. queue' \in [Queues -> Seq(Address)] /\ queue'[q] = s /\ \A r \in Queues \ {q} : queue'[r] = queue[r]
    BY <1>1, <2>1, <2>2
  <2>4. iter.pos \in 1 .. Len(queue[q])
    BY <1>1, <1>2, <1>3
  <2> QED
    BY <1>3, <2>1, <2>2, <2>3, <2>4
<1>4. CASE ~(iter.cap = cap[q] /\ iter.pos <= Len(queue[q]))
  BY <1>1, <1>4 DEF Erase
<1> QED
  BY <1>3, <1>4

\* A second passes for the elements of wait_queue and for nothing else.
LEMMA TickFacts ==
  ASSUME TypeOK, Tick
  PROVE  /\ queue' \in [Queues -> Seq(Address)] /\ queue'["connected"] = queue["connected"]
         /\ Len(queue'["wait"]) = Len(queue["wait"])
         /\ \A k \in 1 .. Len(queue["wait"]) :
              /\ queue'["wait"][k].conn = queue["wait"][k].conn
              /\ queue["wait"][k].age > TIMEOUT => queue'["wait"][k].age > TIMEOUT
<1> DEFINE s == queue["wait"]
           r == [k \in DOMAIN s |-> Aged(s[k])]
<1>1. "wait" \in Queues /\ "connected" \in Queues /\ TIMEOUT \in Nat
  BY TrackerAssumption DEF Queues, TrackerAssumption
<1>2. queue \in [Queues -> Seq(Address)] /\ s \in Seq(Address)
  BY <1>1 DEF TypeOK
<1>3. DOMAIN s = 1 .. Len(s) /\ Len(s) \in Nat
  BY <1>2, LenProperties
<1>4. ASSUME NEW k \in 1 .. Len(s)
      PROVE  /\ Aged(s[k]) \in Address
             /\ Aged(s[k]).conn = s[k].conn
             /\ s[k].age > TIMEOUT => Aged(s[k]).age > TIMEOUT
  <2>1. s[k] \in Address
    BY <1>2, ElementOfSeq
  <2>2. s[k].age \in 0 .. TIMEOUT + 1 /\ s[k].conn \in Conns
    BY <2>1 DEF Address, Ages
  <2>3. Older(s[k].age) \in 0 .. TIMEOUT + 1 /\ (s[k].age > TIMEOUT => Older(s[k].age) > TIMEOUT)
    BY <1>1, <2>2 DEF Older
  <2> QED
    BY <2>1, <2>2, <2>3 DEF Aged, Address, Ages
<1>5. r \in [1 .. Len(s) -> Address]
  BY <1>3, <1>4
<1>6. r \in Seq(Address) /\ Len(r) = Len(s)
  BY <1>3, <1>5, FunctionIsSeq
<1>7. queue' = [queue EXCEPT !["wait"] = r]
  BY DEF Tick
<1>8. \A k \in 1 .. Len(s) : r[k].conn = s[k].conn /\ (s[k].age > TIMEOUT => r[k].age > TIMEOUT)
  BY <1>3, <1>4
<1> HIDE DEF r
<1>9. queue' \in [Queues -> Seq(Address)] /\ queue'["wait"] = r /\ queue'["connected"] = queue["connected"]
  BY <1>1, <1>2, <1>6, <1>7
<1> QED
  BY <1>6, <1>8, <1>9

\* The initial state is typed, and nobody has looked at a queue.
LEMMA InitRace == Init => TypeOK /\ RaceInv
<1> SUFFICES ASSUME Init PROVE TypeOK /\ RaceInv
  OBVIOUS
<1>1. TIMEOUT \in Nat /\ Printer \notin Devices
  BY TrackerAssumption DEF TrackerAssumption
<1>2. NoIterator \in Iterator
  BY DEF NoIterator, Iterator
<1>3. queue = [q \in Queues |-> << >>] /\ todo = [d \in Devices |-> << >>]
  BY DEF Init
<1>4. queue \in [Queues -> Seq(Address)] /\ todo \in [Devices -> Seq(Call)]
  BY <1>3, EmptySeq
<1>5. TypeOK
  BY <1>1, <1>2, <1>4 DEF Init, TypeOK, Threads, Ages, Queues
<1>6. "wait" \in Queues /\ "connected" \in Queues
  BY DEF Queues
<1>7. \A q \in Queues : Len(queue[q]) = 0
  BY <1>3, EmptySeq
<1>8. IteratorInv
  BY <1>1, <1>2 DEF Init, IteratorInv, Threads
<1>9. LookInv
  BY DEF Init, LookInv, Working, PrinterSees
<1>10. UniqueInv
  BY <1>7 DEF UniqueInv
<1>11. EndsBadlyByRace
  BY DEF Init, EndsBadlyByRace
<1> QED
  BY <1>5, <1>8, <1>9, <1>10, <1>11 DEF RaceInv

\* The head and the tail of the calls a capture thread has to make.
LEMMA TodoType ==
  ASSUME TypeOK, NEW d \in Devices, todo[d] # << >>
  PROVE  /\ Head(todo[d]).q \in Queues /\ Head(todo[d]).conn \in Conns
         /\ Head(todo[d]).op \in {"push", "remove"}
         /\ [todo EXCEPT ![d] = Tail(@)] \in [Devices -> Seq(Call)]
<1>1. todo \in [Devices -> Seq(Call)] /\ todo[d] \in Seq(Call)
  BY DEF TypeOK
<1>2. Head(todo[d]) \in Call /\ Tail(todo[d]) \in Seq(Call)
  BY <1>1, HeadTailProperties
<1>3. [todo EXCEPT ![d] = Tail(@)] \in [Devices -> Seq(Call)]
  BY <1>1, <1>2
<1> QED
  BY <1>2, <1>3 DEF Call

\* Every step keeps the state typed, and iterators between look and use.
LEMMA TypeStep ==
  ASSUME TypeOK, IteratorInv, [Next]_vars
  PROVE  TypeOK' /\ IteratorInv'
<1> USE DEF printer
<1>0. TIMEOUT \in Nat /\ Printer \notin Devices /\ Printer \in Threads /\ Devices \subseteq Threads
      /\ "wait" \in Queues /\ "connected" \in Queues
  BY TrackerAssumption DEF TrackerAssumption, Threads, Queues
<1>1. ASSUME NEW d \in Devices, FiltInterface(d) PROVE TypeOK' /\ IteratorInv'
  BY <1>1 DEF FiltInterface, TypeOK, IteratorInv
<1>2. ASSUME NEW d \in Devices, NEW p \in Packets, GotPacket(d, p[1], p[2])
      PROVE  TypeOK' /\ IteratorInv'
  <2>1. p[1] \in Conns
    BY TrackerAssumption DEF TrackerAssumption
  <2>2. Calls(p[1], p[2]) \in Seq(Call)
    BY <2>1, CallsType
  <2>3. /\ todo' = [todo EXCEPT ![d] = Calls(p[1], p[2])] /\ todo[d] = << >>
        /\ open' \subseteq open \cup {p[1]}
        /\ UNCHANGED <<queue, cap, dev, age, it, printer, outcome, stale, raced>>
    BY <1>2 DEF GotPacket
  <2>4. todo' \in [Devices -> Seq(Call)]
    BY <2>2, <2>3 DEF TypeOK
  <2>5. open' \subseteq Conns
    BY <2>1, <2>3 DEF TypeOK
  <2>6. TypeOK'
    BY <2>3, <2>4, <2>5 DEF TypeOK
  <2>7. \A e \in Devices : e # d => todo'[e] = todo[e]
    BY <2>3 DEF TypeOK
  <2>8. IteratorInv'
    BY <2>3, <2>7 DEF IteratorInv
  <2> QED
    BY <2>6, <2>8
<1>3. ASSUME NEW d \in Devices, Search(d) PROVE TypeOK' /\ IteratorInv'
  <2> DEFINE call == Head(todo[d])
             k == Find(call.q, call.conn)
  <2>1. todo[d] # << >> /\ it[d] = NoIterator
    BY <1>3 DEF Search
  <2>2. call.q \in Queues /\ call.conn \in Conns /\ [todo EXCEPT ![d] = Tail(@)] \in [Devices -> Seq(Call)]
    BY <2>1, TodoType
  <2>3. IteratorAt(call.q, k) \in Iterator /\ IteratorAt(call.q, k) # NoIterator
        /\ IteratorAt(call.q, k).pos >= 1
    <3> HIDE DEF call
    <3>1. /\ k \in 1 .. Len(queue[call.q]) + 1
          /\ IteratorAt(call.q, k) \in Iterator /\ IteratorAt(call.q, k) # NoIterator
          /\ IteratorAt(call.q, k).pos = k
      BY <2>2, FindType
    <3> QED
      BY <3>1
  <2>4. \/ todo' = [todo EXCEPT ![d] = Tail(@)] /\ it' = it
        \/ it' = [it EXCEPT ![d] = IteratorAt(call.q, k)] /\ todo' = todo
    BY <1>3 DEF Search
  <2>5. stale' = stale \ {d} /\ UNCHANGED <<queue, cap, dev, age, printer, outcome, raced, open>>
    BY <1>3 DEF Search
  <2>6. it' \in [Threads -> Iterator] /\ todo' \in [Devices -> Seq(Call)]
    <3>1. it \in [Threads -> Iterator] /\ todo \in [Devices -> Seq(Call)]
      BY DEF TypeOK
    <3>2. [it EXCEPT ![d] = IteratorAt(call.q, k)] \in [Threads -> Iterator]
      BY <2>3, <3>1
    <3> HIDE DEF call, k
    <3> QED
      BY <2>2, <2>4, <3>1, <3>2
  <2>7. TypeOK'
    BY <2>5, <2>6 DEF TypeOK
  <2>8. IteratorInv'
    BY <1>0, <2>1, <2>3, <2>4, <2>5 DEF IteratorInv, TypeOK
  <2> QED
    BY <2>7, <2>8
<1>4. ASSUME NEW d \in Devices, Apply(d) PROVE TypeOK' /\ IteratorInv'
  <2> DEFINE call == Head(todo[d])
             e == [conn |-> call.conn, age |-> age[d]]
  <2>1. todo[d] # << >> /\ it[d] # NoIterator
    BY <1>4 DEF Apply
  <2>2. call.q \in Queues /\ call.conn \in Conns /\ [todo EXCEPT ![d] = Tail(@)] \in [Devices -> Seq(Call)]
    BY <2>1, TodoType
  <2>3. e \in Address
    BY <2>2 DEF TypeOK, Address
  <2>4. it[d] \in Iterator /\ it[d].pos >= 1
    BY <1>0, <2>1 DEF TypeOK, IteratorInv
  <2>5. PushBack(call.q, e) \/ Erase(call.q, it[d])
    BY <1>4 DEF Apply
  <2>6. /\ queue' \in [Queues -> Seq(Address)] /\ cap' \in [Queues -> Nat]
        /\ outcome' \in {outcome, "corrupted"}
    <3> HIDE DEF e
    <3>1. CASE PushBack(call.q, e)
      BY <2>2, <2>3, <3>1, PushFacts
    <3>2. CASE Erase(call.q, it[d])
      BY <2>2, <2>4, <3>2, EraseFacts DEF TypeOK
    <3> QED
      BY <2>5, <3>1, <3>2
  <2>7. /\ todo' = [todo EXCEPT ![d] = Tail(@)] /\ it' = [it EXCEPT ![d] = NoIterator]
        /\ age' = [age EXCEPT ![d] = 0] /\ UNCHANGED <<dev, printer, open>>
    BY <1>4 DEF Apply
  <2>8. stale' \subseteq Threads /\ raced' \subseteq Queues
    BY <1>4, <2>2 DEF Apply, Changes, TypeOK
  <2>9. it' \in [Threads -> Iterator] /\ age' \in [Devices -> Ages]
    BY <1>0, <2>7 DEF TypeOK, Iterator, NoIterator, Ages
  <2>10. TypeOK'
    BY <2>2, <2>6, <2>7, <2>8, <2>9 DEF TypeOK
  <2>11. IteratorInv'
    BY <1>0, <2>7 DEF IteratorInv, TypeOK
  <2> QED
    BY <2>10, <2>11
<1>5. CASE Awake
  BY <1>5 DEF Awake, TypeOK, IteratorInv
<1>6. CASE Size
  BY <1>6 DEF Size, TypeOK, IteratorInv, Queues
<1>7. ASSUME NEW q \in Queues, Throws(q) PROVE TypeOK' /\ IteratorInv'
  BY <1>7 DEF Throws, TypeOK, IteratorInv
<1>8. CASE ReadAt
  <2>1. CASE Throws("wait")
    BY <1>0, <1>7, <2>1
  <2>2. CASE ~Throws("wait")
    <3>1. i \in 1 .. Len(queue["wait"])
      BY <1>8, <2>2 DEF ReadAt, TypeOK
    <3>2. queue["wait"][i] \in Address
      BY <1>0, <3>1, ElementOfSeq DEF TypeOK
    <3>3. queue["wait"][i].conn \in Conns
      BY <3>2 DEF Address
    <3>4. /\ ppc = "at" /\ ppc' \in {"find", "size"} /\ i' \in {i, i + 1}
          /\ inst' \in {inst, queue["wait"][i].conn}
          /\ UNCHANGED <<queue, cap, dev, todo, age, it, shown, outcome, stale, raced, open>>
      BY <1>8, <2>2 DEF ReadAt
    <3> QED
      BY <3>3, <3>4 DEF TypeOK, IteratorInv
  <2> QED
    BY <2>1, <2>2
<1>9. CASE FindExpired
  <2> DEFINE k == Find("wait", inst)
  <2>1. IteratorAt("wait", k) \in Iterator /\ IteratorAt("wait", k) # NoIterator
        /\ IteratorAt("wait", k).pos >= 1
    BY <1>0, FindType
  <2>2. \/ it' = [it EXCEPT ![Printer] = IteratorAt("wait", k)] /\ ppc' = "erase" /\ i' = i
        \/ ppc' = "size" /\ i' = 1 /\ it' = it
    BY <1>9 DEF FindExpired
  <2>3. /\ ppc = "find" /\ inst' = NoConn
        /\ UNCHANGED <<queue, cap, dev, todo, age, shown, outcome, stale, raced, open>>
    BY <1>9 DEF FindExpired
  <2> HIDE DEF k
  <2>4. it' \in [Threads -> Iterator]
    BY <1>0, <2>1, <2>2 DEF TypeOK
  <2>5. TypeOK'
    BY <2>2, <2>3, <2>4 DEF TypeOK
  <2>6. IteratorInv'
    BY <1>0, <2>1, <2>2, <2>3 DEF IteratorInv, TypeOK
  <2> QED
    BY <2>5, <2>6
<1>10. CASE EraseExpired
  <2>1. it[Printer] \in Iterator /\ it[Printer].pos >= 1
    BY <1>0, <1>10 DEF EraseExpired, IteratorInv, TypeOK
  <2>2. Erase("wait", it[Printer])
    BY <1>10 DEF EraseExpired
  <2>3. queue' \in [Queues -> Seq(Address)] /\ cap' = cap /\ outcome' \in {outcome, "corrupted"}
    BY <1>0, <2>1, <2>2, EraseFacts
  <2>4. /\ it' = [it EXCEPT ![Printer] = NoIterator] /\ ppc' = "size" /\ i' = 1
        /\ UNCHANGED <<dev, todo, age, inst, shown, open>>
    BY <1>10 DEF EraseExpired
  <2>5. stale' \subseteq Threads /\ raced' \subseteq Queues
    BY <1>0, <1>10 DEF EraseExpired, Changes, TypeOK
  <2>6. it' \in [Threads -> Iterator]
    BY <1>0, <2>4 DEF TypeOK, Iterator, NoIterator
  <2>7. TypeOK'
    BY <2>3, <2>4, <2>5, <2>6 DEF TypeOK
  <2>8. IteratorInv'
    BY <1>0, <2>4 DEF IteratorInv, TypeOK
  <2> QED
    BY <2>7, <2>8
<1>11. CASE PrintSize
  BY <1>11 DEF PrintSize, TypeOK, IteratorInv, Queues
<1>12. CASE PrintAt
  <2>1. CASE Throws(shown)
    BY <1>7, <2>1 DEF TypeOK
  <2>2. CASE ~Throws(shown)
    BY <1>12, <2>2 DEF PrintAt, TypeOK, IteratorInv
  <2> QED
    BY <2>1, <2>2
<1>13. CASE Tick
  <2>1. queue' \in [Queues -> Seq(Address)]
    BY <1>13, TickFacts
  <2>2. age' = [d \in Devices |-> IF Using(d, "wait") THEN Older(age[d]) ELSE 0]
        /\ UNCHANGED <<cap, dev, todo, it, printer, outcome, stale, raced, open>>
    BY <1>13 DEF Tick
  <2>3. \A d \in Devices : (IF Using(d, "wait") THEN Older(age[d]) ELSE 0) \in Ages
    <3> SUFFICES ASSUME NEW d \in Devices PROVE (IF Using(d, "wait") THEN Older(age[d]) ELSE 0) \in Ages
      OBVIOUS
    <3>1. age[d] \in 0 .. TIMEOUT + 1
      BY DEF TypeOK, Ages
    <3> QED
      BY <1>0, <3>1 DEF Older, Ages
  <2>4. age' \in [Devices -> Ages]
    BY <2>2, <2>3
  <2> QED
    BY <2>1, <2>2, <2>4 DEF TypeOK, IteratorInv
<1>14. CASE Complete
  BY <1>14 DEF Complete, TypeOK, IteratorInv
<1>15. CASE UNCHANGED vars
  BY <1>15 DEF vars, TypeOK, IteratorInv
<1> QED
  BY <1>1, <1>2, <1>3, <1>4, <1>5, <1>6, <1>8, <1>9, <1>10, <1>11, <1>12, <1>13, <1>14, <1>15
     DEF Next, PrintState

-----------------------------------------------------------------------------
(* What the threads have seen, and races.                                  *)

\* A change of queue q marks every other thread that is in the middle of
\* using q; the others still see what they saw.
LEMMA OtherDeviceSees ==
  ASSUME TypeOK, LookInv, NEW t \in Threads, NEW q \in Queues, Changes(t, q),
         \A r \in Queues \ {q} : queue'[r] = queue[r] /\ cap'[r] = cap[r],
         NEW u \in Devices, u # t, u \notin stale', todo'[u] = todo[u], it'[u] = it[u],
         Working(u)'
  PROVE  DeviceSees(u)'
<1>1. Working(u)
  BY DEF Working
<1>2. u \in Threads
  BY DEF Threads
<1>3. u \notin stale /\ ~Using(u, q)
  BY <1>2 DEF Changes
<1>4. Head(todo[u]).q # q /\ Head(todo[u]).q \in Queues
  BY <1>1, <1>3, TodoType DEF Using, Working
<1>5. DeviceSees(u)
  BY <1>1, <1>3 DEF LookInv
<1> QED
  BY <1>4, <1>5 DEF DeviceSees, Holds

\* The same for the print thread.
LEMMA PrinterStillSees ==
  ASSUME TypeOK, LookInv, NEW t \in Threads, t # Printer, NEW q \in Queues, Changes(t, q),
         \A r \in Queues \ {q} : queue'[r] = queue[r] /\ cap'[r] = cap[r],
         Printer \notin stale', UNCHANGED printer, it'[Printer] = it[Printer]
  PROVE  PrinterSees'
<1>1. Printer \in Threads /\ "wait" \in Queues
  BY DEF Threads, Queues
<1>2. Printer \notin stale /\ ~Using(Printer, q)
  BY <1>1 DEF Changes
<1>3. PrinterSees
  BY <1>2 DEF LookInv
<1>4. /\ ppc \in {"at", "find", "erase"} => q # "wait"
      /\ ppc = "show" => q # shown
  BY <1>2 DEF Using
<1>5. raced \subseteq raced'
  BY DEF Changes
<1>6. shown \in Queues
  BY DEF TypeOK
<1> QED
  BY <1>1, <1>3, <1>4, <1>5, <1>6 DEF PrinterSees, printer

\* push_back of an element that is not there keeps the elements distinct.
LEMMA PushKeepsUnique ==
  ASSUME TypeOK, UniqueInv, NEW q \in Queues, NEW e \in Address, PushBack(q, e),
         raced \subseteq raced',
         q \notin raced' => \A k \in 1 .. Len(queue[q]) : queue[q][k].conn # e.conn
  PROVE  UniqueInv'
<1> SUFFICES ASSUME NEW r \in Queues, r \notin raced',
                    NEW k \in 1 .. Len(queue'[r]), NEW l \in 1 .. Len(queue'[r]),
                    queue'[r][k].conn = queue'[r][l].conn
             PROVE  k = l
  BY DEF UniqueInv
<1>1. r \notin raced
  OBVIOUS
<1>2. \A m, n \in 1 .. Len(queue[r]) : queue[r][m].conn = queue[r][n].conn => m = n
  BY <1>1 DEF UniqueInv
<1>3. CASE r # q
  <2>1. queue'[r] = queue[r]
    BY <1>3, PushFacts
  <2> QED
    BY <1>2, <2>1
<1>4. CASE r = q
  <2>1. /\ Len(queue'[q]) = Len(queue[q]) + 1 /\ Len(queue[q]) \in Nat
        /\ \A m \in 1 .. Len(queue[q]) : queue'[q][m] = queue[q][m]
        /\ queue'[q][Len(queue[q]) + 1] = e
    <3>1. Len(queue[q]) \in Nat
      BY DEF TypeOK
    <3> QED
      BY <3>1, PushFacts
  <2>2. CASE k \in 1 .. Len(queue[q]) /\ l \in 1 .. Len(queue[q])
    <3>1. queue[q][k].conn = queue[q][l].conn
      BY <1>4, <2>1, <2>2
    <3> QED
      BY <1>2, <1>4, <2>2, <3>1
  <2>3. CASE k = Len(queue[q]) + 1 /\ l \in 1 .. Len(queue[q])
    BY <1>4, <2>1, <2>3
  <2>4. CASE l = Len(queue[q]) + 1 /\ k \in 1 .. Len(queue[q])
    BY <1>4, <2>1, <2>4
  <2> QED
    BY <1>4, <2>1, <2>2, <2>3, <2>4
<1> QED
  BY <1>3, <1>4

\* erase keeps the elements distinct.
LEMMA EraseKeepsUnique ==
  ASSUME TypeOK, UniqueInv, NEW q \in Queues, NEW iter \in Iterator, iter.pos >= 1,
         Erase(q, iter), raced \subseteq raced'
  PROVE  UniqueInv'
<1> SUFFICES ASSUME NEW r \in Queues, r \notin raced',
                    NEW k \in 1 .. Len(queue'[r]), NEW l \in 1 .. Len(queue'[r]),
                    queue'[r][k].conn = queue'[r][l].conn
             PROVE  k = l
  BY DEF UniqueInv
<1>1. \A m, n \in 1 .. Len(queue[r]) : queue[r][m].conn = queue[r][n].conn => m = n
  BY DEF UniqueInv
<1>2. CASE r # q
  BY <1>1, <1>2, EraseFacts
<1>3. CASE r = q /\ queue' = queue
  BY <1>1, <1>3
<1>4. CASE r = q /\ queue' # queue
  <2> DEFINE p == iter.pos
  <2>1. /\ Len(queue'[q]) = Len(queue[q]) - 1 /\ p \in 1 .. Len(queue[q])
        /\ \A m \in 1 .. Len(queue[q]) : m < p => queue'[q][m] = queue[q][m]
        /\ \A m \in 1 .. Len(queue[q]) : m > p => queue'[q][m - 1] = queue[q][m]
    BY <1>4, EraseFacts
  <2>2. Len(queue[q]) \in Nat
    BY DEF TypeOK
  <2> HIDE DEF p
  <2>3. \A m \in 1 .. Len(queue'[q]) :
          queue'[q][m] = IF m < p THEN queue[q][m] ELSE queue[q][m + 1]
    <3> SUFFICES ASSUME NEW m \in 1 .. Len(queue'[q])
                 PROVE  queue'[q][m] = IF m < p THEN queue[q][m] ELSE queue[q][m + 1]
      OBVIOUS
    <3>1. CASE m < p
      BY <2>1, <2>2, <3>1
    <3>2. CASE ~(m < p)
      <4>1. m + 1 \in 1 .. Len(queue[q]) /\ m + 1 > p /\ (m + 1) - 1 = m
        BY <2>1, <2>2, <3>2
      <4> QED
        BY <2>1, <3>2, <4>1
    <3> QED
      BY <3>1, <3>2
  <2>4. /\ k \in Nat /\ l \in Nat /\ p \in Nat
        /\ k \in 1 .. Len(queue[q]) /\ k + 1 \in 1 .. Len(queue[q])
        /\ l \in 1 .. Len(queue[q]) /\ l + 1 \in 1 .. Len(queue[q])
    BY <1>4, <2>1, <2>2
  <2>5. (IF k < p THEN k ELSE k + 1) = (IF l < p THEN l ELSE l + 1)
    BY <1>1, <1>4, <2>3, <2>4
  <2> QED
    BY <2>4, <2>5
<1> QED
  BY <1>2, <1>3, <1>4

\* Every step keeps what RaceInv says of looks and races.
LEMMA RaceStep ==
  ASSUME TypeOK, RaceInv, [Next]_vars, TypeOK', IteratorInv'
  PROVE  RaceInv'
<1> SUFFICES LookInv' /\ UniqueInv' /\ EndsBadlyByRace'
  BY DEF RaceInv
<1>0. /\ TIMEOUT \in Nat /\ Printer \notin Devices /\ Printer \in Threads /\ Devices \subseteq Threads
      /\ "wait" \in Queues /\ "connected" \in Queues
      /\ IteratorInv /\ LookInv /\ UniqueInv /\ EndsBadlyByRace
  BY TrackerAssumption DEF TrackerAssumption, Threads, Queues, RaceInv
<1>a. \A u \in Devices : queue' = queue /\ cap' = cap /\ todo'[u] = todo[u] /\ it'[u] = it[u]
                           /\ (u \in stale => u \in stale')
        => (u \notin stale' /\ Working(u)' => DeviceSees(u)')
  BY <1>0 DEF LookInv, Working, DeviceSees, Holds
<1>b. UNCHANGED <<queue, cap, it, printer, stale, raced>> => (Printer \notin stale' => PrinterSees')
  BY <1>0 DEF LookInv, PrinterSees, printer
<1>c. queue' = queue /\ raced \subseteq raced' => UniqueInv'
  BY <1>0 DEF UniqueInv
<1>d. outcome' = outcome /\ raced \subseteq raced' => EndsBadlyByRace'
  BY <1>0 DEF EndsBadlyByRace
<1>1. ASSUME NEW d \in Devices, FiltInterface(d) PROVE LookInv' /\ UniqueInv' /\ EndsBadlyByRace'
  <2>1. UNCHANGED <<queue, cap, todo, age, it, printer, outcome, stale, raced, open>>
    BY <1>1 DEF FiltInterface
  <2> QED
    BY <1>a, <1>b, <1>c, <1>d, <2>1 DEF LookInv
<1>2. ASSUME NEW d \in Devices, NEW p \in Packets, GotPacket(d, p[1], p[2])
      PROVE  LookInv' /\ UniqueInv' /\ EndsBadlyByRace'
  <2>1. /\ UNCHANGED <<queue, cap, dev, age, it, printer, outcome, stale, raced>>
        /\ todo[d] = << >> /\ \A u \in Devices : u # d => todo'[u] = todo[u]
    BY <1>2 DEF GotPacket, TypeOK
  <2>2. it'[d] = NoIterator
    BY <1>0, <2>1 DEF IteratorInv
  <2>3. \A u \in Devices : u \notin stale' /\ Working(u)' => DeviceSees(u)'
    BY <1>a, <2>1, <2>2 DEF Working
  <2> QED
    BY <1>b, <1>c, <1>d, <2>1, <2>3 DEF LookInv
<1>3. ASSUME NEW d \in Devices, Search(d) PROVE LookInv' /\ UniqueInv' /\ EndsBadlyByRace'
  <2> DEFINE call == Head(todo[d])
             k == Find(call.q, call.conn)
  <2>1. todo[d] # << >> /\ it[d] = NoIterator
    BY <1>3 DEF Search
  <2>2. call.q \in Queues /\ call.conn \in Conns /\ call.op \in {"push", "remove"}
    BY <2>1, TodoType
  <2>3. \/ it' = it /\ todo' = [todo EXCEPT ![d] = Tail(@)]
        \/ /\ it' = [it EXCEPT ![d] = IteratorAt(call.q, k)] /\ todo' = todo
           /\ ~(k <= Len(queue[call.q]) <=> call.op = "push")
    BY <1>3 DEF Search
  <2>4. stale' = stale \ {d} /\ UNCHANGED <<queue, cap, dev, age, printer, outcome, raced, open>>
    BY <1>3 DEF Search
  <2>5. \A u \in Devices : u # d => todo'[u] = todo[u] /\ it'[u] = it[u]
    <3>1. \E x, y : /\ todo' \in {todo, [todo EXCEPT ![d] = x]}
                    /\ it' \in {it, [it EXCEPT ![d] = y]}
      BY <2>3
    <3> QED
      BY <1>0, <3>1 DEF TypeOK
  <2>6. it'[Printer] = it[Printer] /\ (Printer \in stale' <=> Printer \in stale)
    BY <1>0, <2>3, <2>4 DEF TypeOK
  <2>7. Working(d)' => DeviceSees(d)'
    <3>1. CASE it' = it
      BY <2>1, <3>1 DEF Working
    <3>2. CASE it' # it
      <4>1. todo' = todo /\ it'[d] = IteratorAt(call.q, k)
            /\ ~(k <= Len(queue[call.q]) <=> call.op = "push")
        BY <1>0, <2>3, <3>2 DEF TypeOK
      <4>2. /\ k \in 1 .. Len(queue[call.q]) + 1
            /\ k <= Len(queue[call.q]) => queue[call.q][k].conn = call.conn
            /\ k > Len(queue[call.q]) => \A n \in 1 .. Len(queue[call.q]) : queue[call.q][n].conn # call.conn
            /\ IteratorAt(call.q, k).pos = k /\ IteratorAt(call.q, k).cap = cap[call.q]
        BY <2>2, FindType
      <4>3. Len(queue[call.q]) \in Nat
        BY <2>2 DEF TypeOK
      <4>a. it'[d].pos = k /\ it'[d].cap = cap[call.q] /\ queue' = queue /\ cap' = cap
        BY <2>4, <4>1, <4>2
      <4>b. call = Head(todo'[d])
        BY <4>1
      <4> HIDE DEF call, k
      <4>4. CASE call.op = "push"
        <5>1. k > Len(queue[call.q])
          BY <4>1, <4>2, <4>3, <4>4
        <5> QED
          BY <4>a, <4>b, <4>2, <4>4, <5>1 DEF DeviceSees
      <4>5. CASE call.op # "push"
        <5>1. k <= Len(queue[call.q])
          BY <4>1, <4>2, <4>3, <4>5
        <5> QED
          BY <4>a, <4>b, <4>2, <4>5, <5>1 DEF DeviceSees, Holds
      <4> QED
        BY <4>4, <4>5
    <3> QED
      BY <3>1, <3>2
  <2>8. ASSUME NEW u \in Devices, u \notin stale', Working(u)' PROVE DeviceSees(u)'
    <3>1. CASE u = d
      BY <2>7, <2>8, <3>1
    <3>2. CASE u # d
      BY <1>a, <2>4, <2>5, <2>8, <3>2
    <3> QED
      BY <3>1, <3>2
  <2>9. Printer \notin stale' => PrinterSees'
    BY <1>0, <2>4, <2>6 DEF LookInv, PrinterSees, printer
  <2> QED
    BY <1>c, <1>d, <2>4, <2>8, <2>9 DEF LookInv
<1>4. ASSUME NEW d \in Devices, Apply(d) PROVE LookInv' /\ UniqueInv' /\ EndsBadlyByRace'
  <2> DEFINE call == Head(todo[d])
             e == [conn |-> call.conn, age |-> age[d]]
  <2>1. todo[d] # << >> /\ it[d] # NoIterator /\ Working(d)
    BY <1>4 DEF Apply, Working
  <2>2. call.q \in Queues /\ call.conn \in Conns /\ call.op \in {"push", "remove"}
    BY <2>1, TodoType
  <2>3. e \in Address /\ e.conn = call.conn
    BY <2>2 DEF TypeOK, Address
  <2>4. it[d] \in Iterator /\ it[d].pos >= 1
    BY <1>0, <2>1 DEF TypeOK, IteratorInv
  <2>5. /\ call.op = "push" => PushBack(call.q, e)
        /\ call.op # "push" => Erase(call.q, it[d])
        /\ Changes(d, call.q)
        /\ \A u \in Devices : u # d => todo'[u] = todo[u] /\ it'[u] = it[u]
        /\ it'[Printer] = it[Printer] /\ it'[d] = NoIterator
        /\ UNCHANGED printer
    BY <1>0, <1>4 DEF Apply, TypeOK
  <2> HIDE DEF e, call
  <2>6. \A r \in Queues \ {call.q} : queue'[r] = queue[r] /\ cap'[r] = cap[r]
    <3>1. CASE call.op = "push"
      BY <2>2, <2>3, <2>5, <3>1, PushFacts
    <3>2. CASE call.op # "push"
      BY <2>2, <2>4, <2>5, <3>2, EraseFacts
    <3> QED
      BY <3>1, <3>2
  <2>7. raced \subseteq raced' /\ (call.q \notin raced' => d \notin stale)
        /\ (d \in stale => raced' # {})
    BY <2>5 DEF Changes
  <2>8. d \notin stale => DeviceSees(d)
    BY <1>0, <2>1 DEF LookInv
  <2>9. LookInv'
    <3>1. ASSUME NEW u \in Devices, u \notin stale', Working(u)' PROVE DeviceSees(u)'
      <4>1. u # d
        BY <2>5, <3>1 DEF Working
      <4>2. todo'[u] = todo[u] /\ it'[u] = it[u] /\ d \in Threads
        BY <1>0, <2>5, <4>1
      <4> QED
        BY <1>0, <2>2, <2>5, <2>6, <3>1, <4>1, <4>2, OtherDeviceSees
    <3>2. Printer \notin stale' => PrinterSees'
      <4>1. d \in Threads /\ d # Printer
        BY <1>0
      <4> QED
        BY <1>0, <2>2, <2>5, <2>6, <4>1, PrinterStillSees
    <3> QED
      BY <3>1, <3>2 DEF LookInv
  <2>10. UniqueInv'
    <3>1. CASE call.op = "push"
      <4>1. call.q \notin raced' => \A k \in 1 .. Len(queue[call.q]) : queue[call.q][k].conn # e.conn
        BY <2>3, <2>7, <2>8, <3>1 DEF DeviceSees, call
      <4> QED
        BY <1>0, <2>2, <2>3, <2>5, <2>7, <3>1, <4>1, PushKeepsUnique
    <3>2. CASE call.op # "push"
      BY <1>0, <2>2, <2>4, <2>5, <2>7, <3>2, EraseKeepsUnique
    <3> QED
      BY <3>1, <3>2
  <2>11. EndsBadlyByRace'
    <3>1. CASE outcome' = outcome
      BY <1>d, <2>7, <3>1
    <3>2. CASE outcome' # outcome
      <4>1. call.op # "push"
        BY <2>2, <2>3, <2>5, <3>2, PushFacts
      <4>2. ~(it[d].cap = cap[call.q] /\ it[d].pos <= Len(queue[call.q]))
        BY <2>2, <2>4, <2>5, <3>2, <4>1, EraseFacts
      <4>3. d \in stale
        BY <2>8, <4>1, <4>2, <2>2 DEF DeviceSees, Holds, call, TypeOK
      <4> QED
        BY <2>7, <4>3 DEF EndsBadlyByRace
    <3> QED
      BY <3>1, <3>2
  <2> QED
    BY <2>9, <2>10, <2>11
<1>p. ASSUME UNCHANGED <<queue, cap, todo>>, \A u \in Devices : it'[u] = it[u],
             stale' \in {stale, stale \ {Printer}}, raced \subseteq raced', outcome' = outcome,
             Printer \notin stale' => PrinterSees'
      PROVE  LookInv' /\ UniqueInv' /\ EndsBadlyByRace'
  <2>1. \A u \in Devices : (u \in stale => u \in stale')
    BY <1>0, <1>p
  <2>2. \A u \in Devices : u \notin stale' /\ Working(u)' => DeviceSees(u)'
    BY <1>a, <1>p, <2>1
  <2> QED
    BY <1>c, <1>d, <1>p, <2>2 DEF LookInv
<1>5. CASE Awake
  <2>1. Printer \notin stale' => PrinterSees'
    BY <1>5 DEF Awake, PrinterSees
  <2> QED
    BY <1>5, <1>p, <2>1 DEF Awake
<1>6. CASE Size
  <2>1. PrinterSees'
    BY <1>6 DEF Size, PrinterSees
  <2> QED
    BY <1>6, <1>p, <2>1 DEF Size
<1>7. ASSUME NEW q \in Queues, Throws(q), Printer \notin stale => i <= Len(queue[q])
      PROVE  LookInv' /\ UniqueInv' /\ EndsBadlyByRace'
  <2>1. /\ UNCHANGED <<queue, cap, dev, todo, age, it, printer, stale, open>>
        /\ raced \subseteq raced' /\ i > Len(queue[q])
        /\ (Printer \in stale => raced' # {})
    BY <1>7 DEF Throws
  <2>2. Printer \in stale
    BY <1>7, <2>1 DEF TypeOK
  <2>3. LookInv'
    BY <1>a, <2>1, <2>2 DEF LookInv
  <2> QED
    BY <1>c, <2>1, <2>2, <2>3 DEF EndsBadlyByRace
<1>8. CASE ReadAt
  <2>0. ppc = "at" /\ (Printer \notin stale => i <= Len(queue["wait"]))
    BY <1>0, <1>8 DEF ReadAt, LookInv, PrinterSees
  <2>1. CASE Throws("wait")
    BY <1>0, <1>7, <2>0, <2>1
  <2>2. CASE ~Throws("wait")
    <3>1. Printer \notin stale' => PrinterSees'
      BY <1>8, <2>2 DEF ReadAt, PrinterSees, Expired
    <3> QED
      BY <1>8, <1>p, <2>2, <3>1 DEF ReadAt
  <2> QED
    BY <2>1, <2>2
<1>9. CASE FindExpired
  <2> DEFINE k == Find("wait", inst)
  <2>1. /\ k \in 1 .. Len(queue["wait"]) + 1
        /\ k <= Len(queue["wait"]) => queue["wait"][k].conn = inst
        /\ IteratorAt("wait", k).pos = k /\ IteratorAt("wait", k).cap = cap["wait"]
    BY <1>0, FindType
  <2>2. \/ /\ it' = [it EXCEPT ![Printer] = IteratorAt("wait", k)] /\ ppc' = "erase"
           /\ k <= Len(queue["wait"])
        \/ ppc' = "size" /\ it' = it
    BY <1>9 DEF FindExpired
  <2>3. ppc = "find" /\ UNCHANGED <<queue, cap, dev, todo, age, shown, outcome, stale, raced, open>>
    BY <1>9 DEF FindExpired
  <2> HIDE DEF k
  <2>4. \A u \in Devices : it'[u] = it[u]
    BY <1>0, <2>2 DEF TypeOK
  <2>5. Printer \notin stale' => PrinterSees'
    <3>1. CASE ppc' = "size"
      BY <3>1 DEF PrinterSees
    <3>2. CASE ppc' # "size"
      <4>1. /\ it'[Printer] = IteratorAt("wait", k) /\ ppc' = "erase"
            /\ k \in 1 .. Len(queue["wait"]) /\ queue["wait"][k].conn = inst
        BY <1>0, <2>1, <2>2, <3>2 DEF TypeOK
      <4>2. ASSUME Printer \notin stale, "wait" \notin raced
            PROVE  queue["wait"][k].age > TIMEOUT
        <5>1. /\ i \in 1 .. Len(queue["wait"]) /\ queue["wait"][i].conn = inst
              /\ queue["wait"][i].age > TIMEOUT
          BY <1>0, <2>3, <4>2 DEF LookInv, PrinterSees, TypeOK
        <5>2. k = i
          BY <1>0, <4>1, <4>2, <5>1 DEF UniqueInv
        <5> QED
          BY <5>1, <5>2
      <4>3. it'[Printer].pos = k /\ it'[Printer].cap = cap["wait"] /\ k <= Len(queue["wait"])
        BY <2>1, <4>1, <1>0 DEF TypeOK
      <4> QED
        BY <2>3, <4>1, <4>2, <4>3 DEF PrinterSees
    <3> QED
      BY <3>1, <3>2
  <2> QED
    BY <1>p, <2>3, <2>4, <2>5
<1>10. CASE EraseExpired
  <2>1. it[Printer] \in Iterator /\ it[Printer].pos >= 1
    BY <1>0, <1>10 DEF EraseExpired, IteratorInv, TypeOK
  <2>2. /\ ppc = "erase" /\ Erase("wait", it[Printer]) /\ Changes(Printer, "wait") /\ ppc' = "size"
        /\ todo' = todo /\ \A u \in Devices : it'[u] = it[u]
    BY <1>0, <1>10 DEF EraseExpired, TypeOK
  <2>3. \A r \in Queues \ {"wait"} : queue'[r] = queue[r] /\ cap'[r] = cap[r]
    BY <1>0, <2>1, <2>2, EraseFacts
  <2>4. raced \subseteq raced' /\ (Printer \in stale => raced' # {})
    BY <2>2 DEF Changes
  <2>5. LookInv'
    <3>1. ASSUME NEW u \in Devices, u \notin stale', Working(u)' PROVE DeviceSees(u)'
      <4>1. u # Printer /\ todo'[u] = todo[u] /\ it'[u] = it[u]
        BY <1>0, <2>2
      <4> QED
        BY <1>0, <2>2, <2>3, <3>1, <4>1, OtherDeviceSees
    <3>2. PrinterSees'
      BY <2>2 DEF PrinterSees
    <3> QED
      BY <3>1, <3>2 DEF LookInv
  <2>6. UniqueInv'
    BY <1>0, <2>1, <2>2, <2>4, EraseKeepsUnique
  <2>7. EndsBadlyByRace'
    <3>1. CASE outcome' = outcome
      BY <1>d, <2>4, <3>1
    <3>2. CASE outcome' # outcome
      <4>1. ~(it[Printer].cap = cap["wait"] /\ it[Printer].pos <= Len(queue["wait"]))
        BY <1>0, <2>1, <2>2, <3>2, EraseFacts
      <4>2. Printer \in stale
        BY <1>0, <2>2, <4>1 DEF LookInv, PrinterSees
      <4> QED
        BY <2>4, <4>2 DEF EndsBadlyByRace
    <3> QED
      BY <3>1, <3>2
  <2> QED
    BY <2>5, <2>6, <2>7
<1>11. CASE PrintSize
  <2>1. PrinterSees'
    BY <1>11 DEF PrintSize, PrinterSees
  <2> QED
    BY <1>11, <1>p, <2>1 DEF PrintSize
<1>12. CASE PrintAt
  <2>0. ppc = "show" /\ shown \in Queues /\ (Printer \notin stale => i <= Len(queue[shown]))
    BY <1>0, <1>12 DEF PrintAt, LookInv, PrinterSees, TypeOK
  <2>1. CASE Throws(shown)
    BY <1>7, <2>0, <2>1
  <2>2. CASE ~Throws(shown)
    <3>1. PrinterSees'
      BY <1>12, <2>2 DEF PrintAt, PrinterSees
    <3> QED
      BY <1>12, <1>p, <2>2, <3>1 DEF PrintAt
  <2> QED
    BY <2>1, <2>2
<1>13. CASE Tick
  <2>1. /\ queue'["connected"] = queue["connected"] /\ Len(queue'["wait"]) = Len(queue["wait"])
        /\ \A k \in 1 .. Len(queue["wait"]) :
              /\ queue'["wait"][k].conn = queue["wait"][k].conn
              /\ queue["wait"][k].age > TIMEOUT => queue'["wait"][k].age > TIMEOUT
    BY <1>13, TickFacts
  <2>2. UNCHANGED <<cap, dev, todo, it, printer, outcome, stale, raced, open>>
    BY <1>13 DEF Tick
  <2>3. \A q \in Queues : /\ Len(queue'[q]) = Len(queue[q])
                          /\ \A k \in 1 .. Len(queue[q]) : queue'[q][k].conn = queue[q][k].conn
    BY <2>1 DEF Queues
  <2>4. UniqueInv'
    BY <1>0, <2>2, <2>3 DEF UniqueInv
  <2>5. ASSUME NEW u \in Devices, u \notin stale', Working(u)' PROVE DeviceSees(u)'
    <3>1. DeviceSees(u) /\ Head(todo[u]).q \in Queues
      BY <1>0, <2>2, <2>5, TodoType DEF LookInv, Working
    <3> QED
      BY <2>2, <2>3, <3>1 DEF DeviceSees, Holds
  <2>6. ASSUME Printer \notin stale' PROVE PrinterSees'
    <3>1. PrinterSees /\ shown \in Queues /\ i \in Nat \ {0} /\ it[Printer] \in Iterator
      BY <1>0, <2>2, <2>6 DEF LookInv, TypeOK
    <3>2. UNCHANGED <<ppc, i, inst, shown>>
      BY <2>2 DEF printer
    <3>3. ppc = "erase" => it[Printer].pos >= 1 /\ it[Printer].pos \in Nat
      BY <1>0, <3>1 DEF IteratorInv, Iterator
    <3>4. Len(queue["wait"]) \in Nat
      BY <1>0 DEF TypeOK
    <3> QED
      BY <2>1, <2>2, <2>3, <3>1, <3>2, <3>3, <3>4 DEF PrinterSees
  <2> QED
    BY <1>d, <2>2, <2>4, <2>5, <2>6 DEF LookInv
<1>14. CASE Complete
  <2>1. UNCHANGED <<queue, cap, dev, todo, age, it, printer, stale, raced, open>>
        /\ outcome' = "complete"
    BY <1>14 DEF Complete
  <2> QED
    BY <1>a, <1>b, <1>c, <2>1 DEF LookInv, EndsBadlyByRace
<1>15. CASE UNCHANGED vars
  BY <1>a, <1>b, <1>c, <1>d, <1>15 DEF vars, LookInv, printer
<1> QED
  BY <1>1, <1>2, <1>3, <1>4, <1>5, <1>6, <1>8, <1>9, <1>10, <1>11, <1>12, <1>13, <1>14, <1>15
     DEF Next, PrintState

-----------------------------------------------------------------------------
(* The connections of a queue.                                             *)

\* push_back adds the connection of the element.
LEMMA ListedPush ==
  ASSUME TypeOK, TypeOK', NEW q \in Queues, NEW e \in Address, PushBack(q, e)
  PROVE  Listed(q)' = Listed(q) \cup {e.conn}
<1>1. /\ Len(queue'[q]) = Len(queue[q]) + 1 /\ Len(queue[q]) \in Nat
      /\ \A k \in 1 .. Len(queue[q]) : queue'[q][k] = queue[q][k]
      /\ queue'[q][Len(queue[q]) + 1] = e
  <2>1. Len(queue[q]) \in Nat
    BY DEF TypeOK
  <2> QED
    BY <2>1, PushFacts
<1>2. DOMAIN queue[q] = 1 .. Len(queue[q]) /\ DOMAIN queue'[q] = 1 .. Len(queue'[q])
  BY LenProperties DEF TypeOK
<1>3. ASSUME NEW x \in Listed(q)' PROVE x \in Listed(q) \cup {e.conn}
  <2>1. PICK k \in 1 .. Len(queue'[q]) : queue'[q][k].conn = x
    BY <1>2, <1>3 DEF Listed
  <2>2. CASE k = Len(queue[q]) + 1
    BY <1>1, <2>1, <2>2
  <2>3. CASE k # Len(queue[q]) + 1
    <3>1. k \in 1 .. Len(queue[q]) /\ queue[q][k].conn = x
      BY <1>1, <2>1, <2>3
    <3> QED
      BY <1>2, <3>1 DEF Listed
  <2> QED
    BY <2>2, <2>3
<1>4. ASSUME NEW x \in Listed(q) PROVE x \in Listed(q)'
  <2>1. PICK k \in 1 .. Len(queue[q]) : queue[q][k].conn = x
    BY <1>2, <1>4 DEF Listed
  <2>2. k \in 1 .. Len(queue'[q]) /\ queue'[q][k].conn = x
    BY <1>1, <2>1
  <2> QED
    BY <1>2, <2>2 DEF Listed
<1>5. e.conn \in Listed(q)'
  <2>1. Len(queue[q]) + 1 \in 1 .. Len(queue'[q])
    BY <1>1
  <2> QED
    BY <1>1, <1>2, <2>1 DEF Listed
<1> QED
  BY <1>3, <1>4, <1>5

\* erase takes out at most the connection of the iterator's element, and does
\* so for good when the elements are distinct.
LEMMA ListedErase ==
  ASSUME TypeOK, TypeOK', NEW q \in Queues, NEW iter \in Iterator, iter.pos >= 1, Erase(q, iter),
         iter.cap = cap[q], iter.pos <= Len(queue[q])
  PROVE  /\ Listed(q) \subseteq Listed(q)' \cup {queue[q][iter.pos].conn}
         /\ Listed(q)' \subseteq Listed(q)
         /\ (\A k, l \in 1 .. Len(queue[q]) : queue[q][k].conn = queue[q][l].conn => k = l)
              => queue[q][iter.pos].conn \notin Listed(q)'
<1> DEFINE p == iter.pos
<1>1. /\ Len(queue'[q]) = Len(queue[q]) - 1 /\ p \in 1 .. Len(queue[q]) /\ Len(queue[q]) \in Nat
      /\ \A k \in 1 .. Len(queue[q]) : k < p => queue'[q][k] = queue[q][k]
      /\ \A k \in 1 .. Len(queue[q]) : k > p => queue'[q][k - 1] = queue[q][k]
  <2>1. Len(queue[q]) \in Nat
    BY DEF TypeOK
  <2> QED
    BY <2>1, EraseFacts
<1>2. DOMAIN queue[q] = 1 .. Len(queue[q]) /\ DOMAIN queue'[q] = 1 .. Len(queue'[q])
  BY LenProperties DEF TypeOK
<1> HIDE DEF p
<1>3. ASSUME NEW x \in Listed(q) PROVE x \in Listed(q)' \cup {queue[q][p].conn}
  <2>1. PICK k \in 1 .. Len(queue[q]) : queue[q][k].conn = x
    BY <1>2, <1>3 DEF Listed
  <2>2. CASE k < p
    <3>1. k \in 1 .. Len(queue'[q]) /\ queue'[q][k].conn = x
      BY <1>1, <2>1, <2>2
    <3> QED
      BY <1>2, <3>1 DEF Listed
  <2>3. CASE k > p
    <3>1. k - 1 \in 1 .. Len(queue'[q]) /\ queue'[q][k - 1].conn = x
      BY <1>1, <2>1, <2>3
    <3> QED
      BY <1>2, <3>1 DEF Listed
  <2>4. CASE k = p
    BY <2>1, <2>4
  <2> QED
    BY <1>1, <2>2, <2>3, <2>4
<1>4. ASSUME NEW k \in 1 .. Len(queue'[q])
      PROVE  \E l \in 1 .. Len(queue[q]) : l # p /\ queue'[q][k] = queue[q][l]
  <2>1. CASE k < p
    <3>1. k \in 1 .. Len(queue[q]) /\ k # p
      BY <1>1, <2>1
    <3> QED
      BY <1>1, <2>1, <3>1
  <2>2. CASE ~(k < p)
    <3>1. k + 1 \in 1 .. Len(queue[q]) /\ k + 1 > p /\ (k + 1) - 1 = k
      BY <1>1, <2>2
    <3> QED
      BY <1>1, <3>1
  <2> QED
    BY <2>1, <2>2
<1>5. Listed(q)' \subseteq Listed(q)
  BY <1>2, <1>4 DEF Listed
<1>6. ASSUME \A k, l \in 1 .. Len(queue[q]) : queue[q][k].conn = queue[q][l].conn => k = l
      PROVE  queue[q][p].conn \notin Listed(q)'
  <2> SUFFICES ASSUME queue[q][p].conn \in Listed(q)' PROVE FALSE
    OBVIOUS
  <2>1. PICK k \in 1 .. Len(queue'[q]) : queue'[q][k].conn = queue[q][p].conn
    BY <1>2 DEF Listed
  <2>2. PICK l \in 1 .. Len(queue[q]) : l # p /\ queue'[q][k] = queue[q][l]
    BY <1>4
  <2> QED
    BY <1>1, <1>6, <2>1, <2>2
<1> QED
  BY <1>3, <1>5, <1>6 DEF p

\* A queue that is the same, or has only aged, has the same connections.
LEMMA ListedSame ==
  ASSUME TypeOK, TypeOK', NEW q \in Queues, Len(queue'[q]) = Len(queue[q]),
         \A k \in 1 .. Len(queue[q]) : queue'[q][k].conn = queue[q][k].conn
  PROVE  Listed(q)' = Listed(q)
<1>1. DOMAIN queue[q] = 1 .. Len(queue[q]) /\ DOMAIN queue'[q] = 1 .. Len(queue'[q])
  BY LenProperties DEF TypeOK
<1> QED
  BY <1>1 DEF Listed

-----------------------------------------------------------------------------
(* With one interface, connected_queue is what the packets say.            *)

\* The connections that the calls s have still to push to, or to remove from,
\* connected_queue.
Pending(s, o) ==
  {s[k].conn : k \in {k \in 1 .. Len(s) : s[k].op = o /\ s[k].q = "connected"}}

\* With one interface connected_queue and the calls to come make up the open
\* connections, and only wait_queue changes behind the capture thread's back.
OpenInv ==
  \A d \in Devices : Devices = {d} =>
    /\ d \in stale => Working(d) /\ Head(todo[d]).q = "wait"
    /\ Pending(todo[d], "push") = {} \/ Pending(todo[d], "remove") = {}
    /\ outcome = "running" =>
         /\ "connected" \notin raced
         /\ open = (Listed("connected") \ Pending(todo[d], "remove"))
                     \cup Pending(todo[d], "push")

\* A call that is made, or skipped, is no longer pending.
LEMMA PendingTail ==
  ASSUME NEW s \in Seq(Call), s # << >>, NEW o
  PROVE  Pending(s, o) = Pending(Tail(s), o) \cup
           (IF Head(s).op = o /\ Head(s).q = "connected" THEN {Head(s).conn} ELSE {})
<1>1. /\ Len(s) \in Nat /\ Len(s) >= 1 /\ Head(s) = s[1]
      /\ Len(Tail(s)) = Len(s) - 1
      /\ \A k \in 1 .. Len(Tail(s)) : Tail(s)[k] = s[k + 1]
  BY HeadTailProperties, EmptySeq, LenProperties
<1> DEFINE N(t) == {k \in 1 .. Len(t) : t[k].op = o /\ t[k].q = "connected"}
<1>2. \A x : x \in Pending(s, o) <=> \E k \in N(s) : x = s[k].conn
  BY DEF Pending
<1>3. \A x : x \in Pending(Tail(s), o) <=> \E k \in N(Tail(s)) : x = Tail(s)[k].conn
  BY DEF Pending
<1>4. \A k \in N(s) : k # 1 => k - 1 \in N(Tail(s)) /\ Tail(s)[k - 1] = s[k]
  <2> SUFFICES ASSUME NEW k \in N(s), k # 1
               PROVE  k - 1 \in N(Tail(s)) /\ Tail(s)[k - 1] = s[k]
    OBVIOUS
  <2>1. k \in 1 .. Len(s) /\ k - 1 \in 1 .. Len(Tail(s)) /\ (k - 1) + 1 = k
    BY <1>1
  <2>2. Tail(s)[k - 1] = s[k]
    BY <1>1, <2>1
  <2> QED
    BY <2>1, <2>2
<1>5. \A k \in N(Tail(s)) : k + 1 \in N(s) /\ Tail(s)[k] = s[k + 1]
  BY <1>1
<1>6. 1 \in N(s) <=> (Head(s).op = o /\ Head(s).q = "connected")
  BY <1>1
<1> HIDE DEF N
<1>7. ASSUME NEW x \in Pending(s, o)
      PROVE  x \in Pending(Tail(s), o) \/ (1 \in N(s) /\ x = Head(s).conn)
  <2>1. PICK k \in N(s) : x = s[k].conn
    BY <1>2
  <2>2. CASE k = 1
    BY <1>1, <2>1, <2>2
  <2>3. CASE k # 1
    BY <1>3, <1>4, <2>1, <2>3
  <2> QED
    BY <2>2, <2>3
<1>8. ASSUME NEW x \in Pending(Tail(s), o) PROVE x \in Pending(s, o)
  BY <1>2, <1>3, <1>5
<1>9. 1 \in N(s) => Head(s).conn \in Pending(s, o)
  BY <1>1, <1>2
<1> QED
  BY <1>6, <1>7, <1>8, <1>9

\* What got_packet will do to connected_queue: one push for a SYN,ACK, the
\* removal of both directions for FIN and RST, nothing for other packets.
LEMMA PendingCalls ==
  ASSUME NEW cn \in Conns, NEW F
  PROVE  /\ Pending(Calls(cn, F), "push") = IF F = {"SYN", "ACK"} THEN {cn} ELSE {}
         /\ Pending(Calls(cn, F), "remove") =
              IF F \cap {"FIN", "RST"} # {} THEN {cn, Back(cn)} ELSE {}
<1> DEFINE Wanted(s, o) == {k \in 1 .. Len(s) : s[k].op = o /\ s[k].q = "connected"}
<1>0. \A s, o : Pending(s, o) = {s[k].conn : k \in Wanted(s, o)}
  BY DEF Pending
<1>1. Back(cn) \in Conns /\ "wait" \in Queues /\ "connected" \in Queues
  BY TrackerAssumption DEF TrackerAssumption, Queues
<1> DEFINE pw == Push("wait", cn)      po == Push("connected", cn)
           rw == Remove("wait", Back(cn))
           rc == Remove("connected", cn)   rb == Remove("connected", Back(cn))
<1>2. pw \in Call /\ po \in Call /\ rw \in Call /\ rc \in Call /\ rb \in Call
  BY <1>1, CallType
<1>3. /\ pw.op = "push" /\ pw.q = "wait"
      /\ po.op = "push" /\ po.q = "connected" /\ po.conn = cn
      /\ rw.op = "remove" /\ rw.q = "wait"
      /\ rc.op = "remove" /\ rc.q = "connected" /\ rc.conn = cn
      /\ rb.op = "remove" /\ rb.q = "connected" /\ rb.conn = Back(cn)
  BY DEF Push, Remove
<1>4. /\ "push" # "remove" /\ "wait" # "connected"
  OBVIOUS
<1> DEFINE A == CASE F = {"SYN"} -> <<pw>> [] F = {"SYN", "ACK"} -> <<rw, po>> [] OTHER -> << >>
           B == IF F \cap {"FIN", "RST"} # {} THEN <<rc, rb>> ELSE << >>
<1>5. Calls(cn, F) = A \o B
  BY DEF Calls
<1> HIDE DEF pw, po, rw, rc, rb
<1>6. CASE F = {"SYN"}
  <2>1. F \cap {"FIN", "RST"} = {} /\ F # {"SYN", "ACK"}
    BY <1>6
  <2>2. Calls(cn, F) = <<pw>>
    BY <1>2, <1>5, <1>6, <2>1
  <2> DEFINE s == <<pw>>
  <2>3. Len(s) = 1 /\ s[1] = pw
    OBVIOUS
  <2> HIDE DEF s
  <2>4. Wanted(s, "push") = {}
    BY <1>3, <2>3
  <2>5. Pending(s, "push") = {}
    BY <1>0, <1>3, <2>3, <2>4
  <2>6. Wanted(s, "remove") = {}
    BY <1>3, <2>3
  <2>7. Pending(s, "remove") = {}
    BY <1>0, <1>3, <2>3, <2>6
  <2> QED
    BY <2>1, <2>2, <2>5, <2>7 DEF s
<1>7. CASE F = {"SYN", "ACK"}
  <2>1. F \cap {"FIN", "RST"} = {} /\ F # {"SYN"}
    BY <1>7
  <2>2. Calls(cn, F) = <<rw, po>>
    BY <1>2, <1>5, <1>7, <2>1
  <2> DEFINE s == <<rw, po>>
  <2>3. Len(s) = 2 /\ s[1] = rw /\ s[2] = po
    OBVIOUS
  <2> HIDE DEF s
  <2>4. Wanted(s, "push") = {2}
    BY <1>3, <2>3
  <2>5. Pending(s, "push") = {cn}
    BY <1>0, <1>3, <2>3, <2>4
  <2>6. Wanted(s, "remove") = {}
    BY <1>3, <2>3
  <2>7. Pending(s, "remove") = {}
    BY <1>0, <1>3, <2>3, <2>6
  <2> QED
    BY <1>7, <2>1, <2>2, <2>5, <2>7 DEF s
<1>8. CASE F # {"SYN"} /\ F # {"SYN", "ACK"} /\ F \cap {"FIN", "RST"} # {}
  <2>1. A = << >> /\ B = <<rc, rb>> /\ <<rc, rb>> \in Seq(Call)
    BY <1>2, <1>8
  <2>2. Calls(cn, F) = <<rc, rb>>
    BY <1>5, <2>1, ConcatEmptySeq
  <2> DEFINE s == <<rc, rb>>
  <2>3. Len(s) = 2 /\ s[1] = rc /\ s[2] = rb
    OBVIOUS
  <2> HIDE DEF s
  <2>4. Wanted(s, "push") = {}
    BY <1>3, <2>3
  <2>5. Pending(s, "push") = {}
    BY <1>0, <1>3, <2>3, <2>4
  <2>6. Wanted(s, "remove") = {1, 2}
    BY <1>3, <2>3
  <2>7. Pending(s, "remove") = {cn, Back(cn)}
    BY <1>0, <1>3, <2>3, <2>6
  <2> QED
    BY <1>8, <2>2, <2>5, <2>7 DEF s
<1>9. CASE F # {"SYN"} /\ F # {"SYN", "ACK"} /\ F \cap {"FIN", "RST"} = {}
  <2>1. A = << >> /\ B = << >>
    BY <1>9
  <2>2. Calls(cn, F) = << >>
    BY <1>5, <2>1, EmptySeq, ConcatEmptySeq
  <2>3. \A o : Wanted(<< >>, o) = {}
    OBVIOUS
  <2>4. \A o : Pending(<< >>, o) = {}
    BY <1>0, <2>3
  <2> QED
    BY <1>9, <2>2, <2>4
<1> QED
  BY <1>6, <1>7, <1>8, <1>9

\* Taking the next call from the list changes what is pending by that call.
LEMMA PendingStep ==
  ASSUME TypeOK, NEW d \in Devices, todo[d] # << >>, todo' = [todo EXCEPT ![d] = Tail(@)], NEW o
  PROVE  Pending(todo[d], o) = Pending(todo'[d], o) \cup
           (IF Head(todo[d]).op = o /\ Head(todo[d]).q = "connected"
              THEN {Head(todo[d]).conn} ELSE {})
<1>1. todo[d] \in Seq(Call) /\ todo'[d] = Tail(todo[d])
  BY DEF TypeOK
<1> QED
  BY <1>1, PendingTail

\* The open connections of one interface are followed by every step.
LEMMA OpenStep ==
  ASSUME TypeOK, RaceInv, OpenInv, [Next]_vars, TypeOK'
  PROVE  OpenInv'
<1> SUFFICES ASSUME NEW d \in Devices, Devices = {d}
             PROVE  /\ d \in stale' => Working(d)' /\ Head(todo'[d]).q = "wait"
                    /\ Pending(todo'[d], "push") = {} \/ Pending(todo'[d], "remove") = {}
                    /\ outcome' = "running" =>
                         /\ "connected" \notin raced'
                         /\ open' = (Listed("connected")' \ Pending(todo'[d], "remove"))
                                      \cup Pending(todo'[d], "push")
  BY DEF OpenInv
<1> DEFINE StaleOK == d \in stale => Working(d) /\ Head(todo[d]).q = "wait"
           OneKind == Pending(todo[d], "push") = {} \/ Pending(todo[d], "remove") = {}
           IsOpen == open = (Listed("connected") \ Pending(todo[d], "remove"))
                              \cup Pending(todo[d], "push")
           Goal == StaleOK' /\ OneKind' /\ (outcome' = "running" => "connected" \notin raced' /\ IsOpen')
<1> SUFFICES Goal
  OBVIOUS
<1>0. /\ Printer \notin Devices /\ Printer \in Threads /\ Devices \subseteq Threads
      /\ "wait" \in Queues /\ "connected" \in Queues
      /\ IteratorInv /\ LookInv /\ UniqueInv
      /\ StaleOK /\ OneKind /\ (outcome = "running" => "connected" \notin raced /\ IsOpen)
  BY TrackerAssumption DEF TrackerAssumption, Threads, Queues, RaceInv, OpenInv
<1>a. ASSUME UNCHANGED <<todo, open, raced>>, it'[d] = it[d], queue'["connected"] = queue["connected"],
             d \in stale' => d \in stale,
             outcome' = "running" => outcome = "running"
      PROVE  Goal
  <2>1. Listed("connected")' = Listed("connected")
    BY <1>0, <1>a, ListedSame
  <2> QED
    BY <1>0, <1>a, <2>1 DEF Working
<1>1. ASSUME NEW e \in Devices, FiltInterface(e) PROVE Goal
  BY <1>1, <1>a DEF FiltInterface
<1>2. ASSUME NEW e \in Devices, NEW p \in Packets, GotPacket(e, p[1], p[2]) PROVE Goal
  <2> DEFINE F == p[2]
             cn == p[1]
  <2>1. e = d /\ cn \in Conns
    BY TrackerAssumption DEF TrackerAssumption
  <2>2. /\ todo[d] = << >> /\ todo'[d] = Calls(cn, F)
        /\ open' = IF F = {"SYN", "ACK"} THEN open \cup {cn}
                   ELSE IF F \cap {"FIN", "RST"} # {} THEN open \ {cn, Back(cn)}
                   ELSE open
        /\ UNCHANGED <<queue, it, outcome, stale, raced>>
    BY <1>2, <2>1 DEF GotPacket, TypeOK
  <2> HIDE DEF F, cn
  <2>3. d \notin stale'
    BY <1>0, <2>2 DEF Working
  <2>4. /\ Pending(todo'[d], "push") = IF F = {"SYN", "ACK"} THEN {cn} ELSE {}
        /\ Pending(todo'[d], "remove") =
             IF F \cap {"FIN", "RST"} # {} THEN {cn, Back(cn)} ELSE {}
    BY <2>1, <2>2, PendingCalls
  <2>5. F = {"SYN", "ACK"} => F \cap {"FIN", "RST"} = {}
    OBVIOUS
  <2>6. Pending(todo[d], "push") = {} /\ Pending(todo[d], "remove") = {}
    <3>1. 1 .. Len(todo[d]) = {}
      BY <2>2
    <3> QED
      BY <3>1 DEF Pending
  <2>7. Listed("connected")' = Listed("connected")
    BY <1>0, <2>2, ListedSame
  <2>8. OneKind'
    BY <2>4, <2>5
  <2>9. ASSUME outcome' = "running" PROVE "connected" \notin raced' /\ IsOpen'
    <3>1. open = Listed("connected") /\ "connected" \notin raced'
      BY <1>0, <2>2, <2>6, <2>9
    <3>2. CASE F = {"SYN", "ACK"}
      BY <2>2, <2>4, <2>5, <2>7, <3>1, <3>2
    <3>3. CASE F # {"SYN", "ACK"} /\ F \cap {"FIN", "RST"} # {}
      <4>1. open' = open \ {cn, Back(cn)}
        BY <2>2, <3>3
      <4>2. Pending(todo'[d], "push") = {} /\ Pending(todo'[d], "remove") = {cn, Back(cn)}
        BY <2>4, <3>3
      <4> QED
        BY <2>7, <3>1, <4>1, <4>2
    <3>4. CASE F # {"SYN", "ACK"} /\ F \cap {"FIN", "RST"} = {}
      BY <2>2, <2>4, <2>7, <3>1, <3>4
    <3> QED
      BY <3>1, <3>2, <3>3, <3>4
  <2> QED
    BY <2>3, <2>8, <2>9
<1>3. ASSUME NEW e \in Devices, Search(e) PROVE Goal
  <2> DEFINE call == Head(todo[d])
             k == Find(call.q, call.conn)
  <2>1. e = d /\ todo[d] # << >> /\ it[d] = NoIterator
    BY <1>3 DEF Search
  <2>2. call.q \in Queues /\ call.conn \in Conns /\ call.op \in {"push", "remove"}
    BY <2>1, TodoType
  <2>3. d \notin stale' /\ UNCHANGED <<queue, open, outcome, raced>>
    BY <1>3, <2>1 DEF Search
  <2>4. Listed("connected")' = Listed("connected")
    BY <1>0, <2>3, ListedSame
  <2>5. \/ todo' = todo
        \/ todo' = [todo EXCEPT ![d] = Tail(@)] /\ (k <= Len(queue[call.q]) <=> call.op = "push")
    BY <1>3, <2>1 DEF Search
  <2>6. CASE todo' = todo
    BY <1>0, <2>3, <2>4, <2>6
  <2>7. CASE todo' # todo
    <3>1. todo' = [todo EXCEPT ![d] = Tail(@)] /\ (k <= Len(queue[call.q]) <=> call.op = "push")
      BY <2>5, <2>7
    <3>2. \A o : Pending(todo[d], o) = Pending(todo'[d], o) \cup
             (IF call.op = o /\ call.q = "connected" THEN {call.conn} ELSE {})
      BY <2>1, <3>1, PendingStep
    <3>3. call.q = "connected" => (call.conn \in Listed("connected") <=> call.op = "push")
      <4>1. /\ k \in 1 .. Len(queue[call.q]) + 1 /\ Len(queue[call.q]) \in Nat
            /\ k <= Len(queue[call.q]) => queue[call.q][k].conn = call.conn
            /\ k > Len(queue[call.q]) => \A n \in 1 .. Len(queue[call.q]) : queue[call.q][n].conn # call.conn
        <5>1. Len(queue[call.q]) \in Nat
          BY <2>2 DEF TypeOK
        <5>2. call.q \in Queues
          BY <2>2
        <5> HIDE DEF call
        <5> QED
          BY <5>1, <5>2, FindType
      <4>2. DOMAIN queue[call.q] = 1 .. Len(queue[call.q])
        BY <2>2, LenProperties DEF TypeOK
      <4>3. call.conn \in Listed(call.q) <=>
              \E n \in 1 .. Len(queue[call.q]) : queue[call.q][n].conn = call.conn
        BY <4>2 DEF Listed
      <4>4. k \in 1 .. Len(queue[call.q]) \/ k > Len(queue[call.q])
        BY <4>1
      <4>5. call.conn \in Listed(call.q) <=> k <= Len(queue[call.q])
        <5> HIDE DEF k, call
        <5> QED
          BY <4>1, <4>3, <4>4
      <4> QED
        BY <3>1, <4>5
    <3> HIDE DEF call, k
    <3>4. /\ Pending(todo[d], "push") = Pending(todo'[d], "push") \cup
               (IF call.op = "push" /\ call.q = "connected" THEN {call.conn} ELSE {})
          /\ Pending(todo[d], "remove") = Pending(todo'[d], "remove") \cup
               (IF call.op = "remove" /\ call.q = "connected" THEN {call.conn} ELSE {})
      BY <3>2
    <3>5. OneKind'
      BY <1>0, <3>4
    <3>6. ASSUME outcome' = "running" PROVE IsOpen' /\ "connected" \notin raced'
      <4>1. IsOpen /\ "connected" \notin raced'
        BY <1>0, <2>3, <3>6
      <4>2. CASE call.q # "connected"
        BY <2>3, <2>4, <3>4, <4>1, <4>2
      <4>3. CASE call.q = "connected" /\ call.op = "push"
        <5>1. /\ Pending(todo[d], "push") = Pending(todo'[d], "push") \cup {call.conn}
              /\ Pending(todo[d], "remove") = Pending(todo'[d], "remove")
              /\ Pending(todo[d], "remove") = {}
              /\ call.conn \in Listed("connected")
          BY <1>0, <3>3, <3>4, <4>3
        <5> QED
          BY <2>3, <2>4, <4>1, <5>1
      <4>4. CASE call.q = "connected" /\ call.op = "remove"
        <5>1. /\ Pending(todo[d], "push") = Pending(todo'[d], "push")
              /\ Pending(todo[d], "remove") = Pending(todo'[d], "remove") \cup {call.conn}
              /\ Pending(todo[d], "push") = {}
              /\ call.conn \notin Listed("connected")
          BY <1>0, <3>3, <3>4, <4>4
        <5> QED
          BY <2>3, <2>4, <4>1, <5>1
      <4> QED
        BY <2>2, <4>1, <4>2, <4>3, <4>4 DEF call
    <3> QED
      BY <2>3, <3>5, <3>6
  <2> QED
    BY <2>6, <2>7
<1>4. ASSUME NEW e \in Devices, outcome = "running", Apply(e) PROVE Goal
  <2> DEFINE call == Head(todo[d])
             el == [conn |-> call.conn, age |-> age[d]]
  <2>1. e = d /\ todo[d] # << >> /\ it[d] # NoIterator /\ Working(d)
    BY <1>4 DEF Apply, Working
  <2>2. call.q \in Queues /\ call.conn \in Conns /\ call.op \in {"push", "remove"}
    BY <2>1, TodoType
  <2>3. el \in Address /\ el.conn = call.conn
    BY <2>2 DEF TypeOK, Address
  <2>4. it[d] \in Iterator /\ it[d].pos >= 1
    BY <1>0, <2>1 DEF TypeOK, IteratorInv
  <2>5. /\ call.op = "push" => PushBack(call.q, el)
        /\ call.op # "push" => Erase(call.q, it[d])
        /\ Changes(d, call.q)
        /\ todo' = [todo EXCEPT ![d] = Tail(@)]
        /\ open' = open
    BY <1>4, <2>1 DEF Apply
  <2>6. /\ d \notin stale' /\ (raced' \subseteq raced \cup {call.q})
        /\ (d \notin stale => raced' = raced)
    BY <2>5 DEF Changes
  <2>7. /\ Pending(todo[d], "push") = Pending(todo'[d], "push") \cup
             (IF call.op = "push" /\ call.q = "connected" THEN {call.conn} ELSE {})
        /\ Pending(todo[d], "remove") = Pending(todo'[d], "remove") \cup
             (IF call.op = "remove" /\ call.q = "connected" THEN {call.conn} ELSE {})
    BY <2>1, <2>5, PendingStep
  <2>8. IsOpen /\ "connected" \notin raced
    BY <1>0, <1>4
  <2>9. d \notin stale => DeviceSees(d)
    BY <1>0, <2>1 DEF LookInv
  <2>10. OneKind'
    BY <1>0, <2>7
  <2>11. CASE call.q # "connected"
    <3>1. queue'["connected"] = queue["connected"]
      <4> HIDE DEF el, call
      <4>1. CASE call.op = "push"
        BY <1>0, <2>2, <2>3, <2>5, <2>11, <4>1, PushFacts
      <4>2. CASE call.op # "push"
        BY <1>0, <2>2, <2>4, <2>5, <2>11, <4>2, EraseFacts
      <4> QED
        BY <4>1, <4>2
    <3>2. Listed("connected")' = Listed("connected")
      BY <1>0, <3>1, ListedSame
    <3>3. "connected" \notin raced' /\ IsOpen'
      BY <2>5, <2>6, <2>7, <2>8, <2>11, <3>2
    <3> QED
      BY <2>6, <2>10, <3>3
  <2>12. CASE call.q = "connected" /\ call.op = "push"
    <3>1. Listed("connected")' = Listed("connected") \cup {call.conn}
      <4> HIDE DEF el, call
      <4> QED
        BY <1>0, <2>3, <2>5, <2>12, ListedPush
    <3>2. d \notin stale
      BY <1>0, <2>12
    <3>3. /\ Pending(todo[d], "push") = Pending(todo'[d], "push") \cup {call.conn}
          /\ Pending(todo[d], "remove") = Pending(todo'[d], "remove")
          /\ Pending(todo[d], "remove") = {}
      BY <1>0, <2>7, <2>12
    <3>4. IsOpen'
      BY <2>5, <2>8, <3>1, <3>3
    <3> QED
      BY <2>6, <2>8, <2>10, <3>2, <3>4
  <2>13. CASE call.q = "connected" /\ call.op = "remove"
    <3>1. d \notin stale
      BY <1>0, <2>13
    <3>2. /\ it[d].cap = cap["connected"] /\ it[d].pos <= Len(queue["connected"])
          /\ queue["connected"][it[d].pos].conn = call.conn
      <4>1. DeviceSees(d) /\ call.op # "push"
        BY <2>9, <2>13, <3>1
      <4>2. Len(queue["connected"]) \in Nat
        BY <1>0 DEF TypeOK, Queues
      <4> QED
        BY <2>13, <4>1, <4>2 DEF DeviceSees, Holds
    <3>3. \A k, l \in 1 .. Len(queue["connected"]) :
            queue["connected"][k].conn = queue["connected"][l].conn => k = l
      BY <1>0, <2>8 DEF UniqueInv
    <3>4. Erase("connected", it[d])
      BY <2>5, <2>13
    <3>5. /\ Listed("connected") \subseteq Listed("connected")' \cup {call.conn}
          /\ Listed("connected")' \subseteq Listed("connected")
          /\ call.conn \notin Listed("connected")'
      BY <1>0, <2>4, <3>2, <3>3, <3>4, ListedErase
    <3>6. /\ Pending(todo[d], "push") = Pending(todo'[d], "push")
          /\ Pending(todo[d], "remove") = Pending(todo'[d], "remove") \cup {call.conn}
          /\ Pending(todo[d], "push") = {}
      BY <1>0, <2>7, <2>13
    <3>7. Listed("connected")' = Listed("connected") \ {call.conn}
      BY <3>5
    <3>8. IsOpen'
      BY <2>5, <2>8, <3>6, <3>7
    <3> QED
      BY <2>6, <2>8, <2>10, <3>1, <3>8
  <2> QED
    BY <2>2, <2>11, <2>12, <2>13
<1>5. CASE Awake \/ Size \/ FindExpired \/ PrintSize
  <2>1. /\ UNCHANGED <<queue, todo, open, raced, outcome>>
        /\ stale' \in {stale, stale \ {Printer}} /\ it'[d] = it[d]
    BY <1>0, <1>5 DEF Awake, Size, FindExpired, PrintSize, TypeOK
  <2> QED
    BY <1>a, <2>1
<1>6. ASSUME NEW q \in Queues, Throws(q) PROVE Goal
  <2>1. UNCHANGED <<queue, todo, it, open, stale>> /\ outcome' = "terminated"
    BY <1>6 DEF Throws
  <2> QED
    BY <1>0, <2>1 DEF Working
<1>7. CASE ReadAt
  <2>1. CASE Throws("wait")
    BY <1>0, <1>6, <2>1
  <2>2. CASE ~Throws("wait")
    BY <1>7, <1>a, <2>2 DEF ReadAt
  <2> QED
    BY <2>1, <2>2
<1>8. CASE PrintAt
  <2>1. CASE Throws(shown)
    BY <1>6, <2>1 DEF TypeOK
  <2>2. CASE ~Throws(shown)
    BY <1>8, <1>a, <2>2 DEF PrintAt
  <2> QED
    BY <2>1, <2>2
<1>9. ASSUME outcome = "running", EraseExpired PROVE Goal
  <2>1. it[Printer] \in Iterator /\ it[Printer].pos >= 1
    BY <1>0, <1>9 DEF EraseExpired, IteratorInv, TypeOK
  <2>2. /\ Erase("wait", it[Printer]) /\ Changes(Printer, "wait")
        /\ todo' = todo /\ open' = open /\ it'[d] = it[d]
    BY <1>0, <1>9 DEF EraseExpired, TypeOK
  <2>3. queue'["connected"] = queue["connected"]
    BY <1>0, <2>1, <2>2, EraseFacts
  <2>4. Listed("connected")' = Listed("connected")
    BY <1>0, <2>3, ListedSame
  <2>5. raced' \subseteq raced \cup {"wait"} /\ (d \in stale' => d \in stale \/ Using(d, "wait"))
    BY <2>2 DEF Changes
  <2>6. Using(d, "wait") => Working(d) /\ Head(todo[d]).q = "wait"
    BY <1>0 DEF Using, Working
  <2>7. StaleOK'
    BY <1>0, <2>2, <2>5, <2>6 DEF Working
  <2> QED
    BY <1>0, <1>9, <2>2, <2>4, <2>5, <2>7
<1>10. CASE Tick
  <2>1. queue'["connected"] = queue["connected"]
    BY <1>10, TickFacts
  <2>2. UNCHANGED <<todo, it, outcome, stale, raced, open>>
    BY <1>10 DEF Tick
  <2> QED
    BY <1>a, <2>1, <2>2
<1>11. CASE Complete
  BY <1>11, <1>a DEF Complete
<1>12. CASE UNCHANGED vars
  BY <1>12, <1>a DEF vars
<1> HIDE DEF Goal
<1> QED
  BY <1>1, <1>2, <1>3, <1>4, <1>5, <1>7, <1>8, <1>9, <1>10, <1>11, <1>12 DEF Next, PrintState

-----------------------------------------------------------------------------
(* What follows from the invariants.                                       *)

\* Distinct elements mean that a connection has at most one position.
LEMMA UniqueIsNoDuplicates == TypeOK /\ UniqueInv => NoDuplicates
<1> SUFFICES ASSUME TypeOK, UniqueInv, NEW q \in Queues \ raced, NEW c \in Conns
             PROVE  Cardinality(At(q, c)) <= 1
  BY DEF NoDuplicates
<1>1. DOMAIN queue[q] = 1 .. Len(queue[q])
  BY LenProperties DEF TypeOK
<1>2. CASE At(q, c) = {}
  BY <1>2, FS_EmptySet
<1>3. CASE At(q, c) # {}
  <2>1. PICK k : k \in At(q, c)
    BY <1>3
  <2>2. At(q, c) = {k}
    BY <1>1, <2>1 DEF At, UniqueInv
  <2> QED
    BY <2>2, FS_Singleton
<1> QED
  BY <1>2, <1>3

\* Between two packets nothing is pending: the queue is the open connections.
LEMMA OpenIsConnected == TypeOK /\ RaceInv /\ OpenInv => ConnectedIsOpen
<1> SUFFICES ASSUME TypeOK, RaceInv, OpenInv, Cardinality(Devices) = 1, Idle, outcome = "running"
             PROVE  /\ Listed("connected") = open
                    /\ Len(queue["connected"]) = Cardinality(open)
  BY DEF ConnectedIsOpen
<1>1. PICK d : Devices = {d}
  BY FS_Singleton, TrackerAssumption DEF TrackerAssumption
<1>2. todo[d] = << >>
  BY <1>1 DEF Idle
<1>3. 1 .. Len(todo[d]) = {}
  BY <1>2
<1>4. Pending(todo[d], "push") = {} /\ Pending(todo[d], "remove") = {}
  BY <1>3 DEF Pending
<1>5. /\ "connected" \notin raced
      /\ open = (Listed("connected") \ Pending(todo[d], "remove")) \cup Pending(todo[d], "push")
  BY <1>1 DEF OpenInv
<1>6. Listed("connected") = open
  BY <1>4, <1>5
<1> DEFINE s == queue["connected"]
           f == [k \in 1 .. Len(s) |-> s[k].conn]
<1>7. "connected" \in Queues /\ s \in Seq(Address)
  BY DEF Queues, TypeOK
<1>8. DOMAIN s = 1 .. Len(s) /\ Len(s) \in Nat
  BY <1>7, LenProperties
<1>9. \A k, l \in 1 .. Len(s) : s[k].conn = s[l].conn => k = l
  BY <1>5, <1>7 DEF RaceInv, UniqueInv
<1>10. f \in [1 .. Len(s) -> open] /\ \A x \in open : \E k \in 1 .. Len(s) : f[k] = x
  BY <1>6, <1>8 DEF Listed
<1>11. f \in Bijection(1 .. Len(s), open)
  BY <1>9, <1>10 DEF Bijection, Injection, Surjection, IsInjective
<1>12. Cardinality(open) = Len(s)
  BY <1>8, <1>11, FS_CountingElements DEF ExistsBijection
<1> QED
  BY <1>6, <1>12

\* Only an answered or an expired connection leaves wait_queue in a step.
LEMMA LeavesStep ==
  ASSUME TypeOK, RaceInv, [Next]_vars, TypeOK', NEW c \in Conns,
         c \in Listed("wait"), c \notin Listed("wait")', "wait" \notin raced'
  PROVE  \/ \E k \in At("wait", c) : queue["wait"][k].age > TIMEOUT
         \/ \E d \in Devices :
              /\ todo[d] # << >> /\ Head(todo[d]) = Remove("wait", c)
              /\ Len(todo'[d]) < Len(todo[d])
<1> DEFINE Goal == \/ \E k \in At("wait", c) : queue["wait"][k].age > TIMEOUT
                   \/ \E d \in Devices :
                        /\ todo[d] # << >> /\ Head(todo[d]) = Remove("wait", c)
                        /\ Len(todo'[d]) < Len(todo[d])
<1> SUFFICES Goal
  OBVIOUS
<1> HIDE DEF Goal
<1>0. /\ Printer \notin Devices /\ Printer \in Threads /\ Devices \subseteq Threads
      /\ "wait" \in Queues /\ "connected" \in Queues /\ TIMEOUT \in Nat
      /\ IteratorInv /\ LookInv /\ UniqueInv
      /\ DOMAIN queue["wait"] = 1 .. Len(queue["wait"])
  BY TrackerAssumption, LenProperties DEF TrackerAssumption, Threads, Queues, RaceInv, TypeOK
<1>1. queue'["wait"] # queue["wait"]
  BY <1>0, ListedSame
<1>2. ASSUME NEW d \in Devices, Apply(d) PROVE Goal
  <2> DEFINE call == Head(todo[d])
             el == [conn |-> call.conn, age |-> age[d]]
  <2>1. todo[d] # << >> /\ it[d] # NoIterator /\ Working(d)
    BY <1>2 DEF Apply, Working
  <2>2. call.q \in Queues /\ call.conn \in Conns /\ call.op \in {"push", "remove"}
    BY <2>1, TodoType
  <2>3. el \in Address /\ it[d] \in Iterator /\ it[d].pos >= 1
    BY <1>0, <2>1, <2>2 DEF TypeOK, Address, IteratorInv
  <2>4. /\ call.op = "push" => PushBack(call.q, el)
        /\ call.op # "push" => Erase(call.q, it[d])
        /\ Changes(d, call.q)
        /\ todo'[d] = Tail(todo[d])
    BY <1>2 DEF Apply, TypeOK
  <2>5. call.q = "wait" /\ call.op # "push"
    <3> HIDE DEF call, el
    <3>1. CASE call.op = "push"
      <4>1. CASE call.q = "wait"
        BY <1>0, <2>3, <2>4, <3>1, <4>1, ListedPush
      <4>2. CASE call.q # "wait"
        BY <1>0, <1>1, <2>2, <2>3, <2>4, <3>1, <4>2, PushFacts
      <4> QED
        BY <4>1, <4>2
    <3>2. CASE call.op # "push" /\ call.q # "wait"
      BY <1>0, <1>1, <2>2, <2>3, <2>4, <3>2, EraseFacts
    <3> QED
      BY <3>1, <3>2
  <2>6. d \notin stale
    BY <2>4, <2>5 DEF Changes
  <2>7. DeviceSees(d)
    BY <1>0, <2>1, <2>6 DEF LookInv
  <2>8. it[d].cap = cap["wait"] /\ it[d].pos <= Len(queue["wait"]) /\ queue["wait"][it[d].pos].conn = call.conn
    <3>1. Len(queue["wait"]) \in Nat
      BY <1>0 DEF TypeOK
    <3> QED
      BY <2>5, <2>7, <3>1 DEF DeviceSees, Holds
  <2>9. Listed("wait") \subseteq Listed("wait")' \cup {call.conn}
    <3>1. Erase("wait", it[d])
      BY <2>4, <2>5
    <3> QED
      BY <1>0, <2>3, <2>8, <3>1, ListedErase
  <2>10. call.conn = c
    BY <2>9
  <2>11. call = Remove("wait", c)
    <3>1. call \in Call
      BY <2>1, HeadTailProperties DEF TypeOK
    <3> QED
      BY <2>2, <2>5, <2>10, <3>1 DEF Call, Remove
  <2>12. Len(todo'[d]) < Len(todo[d])
    <3>1. todo[d] \in Seq(Call)
      BY DEF TypeOK
    <3>2. Len(Tail(todo[d])) = Len(todo[d]) - 1 /\ Len(todo[d]) \in Nat
      BY <2>1, <3>1, HeadTailProperties, LenProperties
    <3> QED
      BY <2>4, <3>2
  <2> QED
    BY <2>1, <2>11, <2>12 DEF Goal
<1>3. CASE EraseExpired
  <2>1. it[Printer] \in Iterator /\ it[Printer].pos >= 1
    BY <1>0, <1>3 DEF EraseExpired, IteratorInv, TypeOK
  <2>2. ppc = "erase" /\ Erase("wait", it[Printer]) /\ Changes(Printer, "wait")
    BY <1>3 DEF EraseExpired
  <2>3. Printer \notin stale /\ "wait" \notin raced
    BY <2>2 DEF Changes
  <2>4. /\ it[Printer].cap = cap["wait"] /\ it[Printer].pos <= Len(queue["wait"])
        /\ queue["wait"][it[Printer].pos].age > TIMEOUT
    BY <1>0, <2>2, <2>3 DEF LookInv, PrinterSees
  <2>5. queue["wait"][it[Printer].pos].conn = c
    BY <1>0, <2>1, <2>2, <2>4, ListedErase
  <2>6. it[Printer].pos \in 1 .. Len(queue["wait"])
    BY <1>0, <2>1, <2>4 DEF Iterator, TypeOK
  <2> QED
    BY <1>0, <2>4, <2>5, <2>6 DEF Goal, At
<1>4. CASE Tick
  <2>1. Listed("wait")' = Listed("wait")
    BY <1>0, <1>4, TickFacts, ListedSame
  <2> QED
    BY <2>1
<1>5. CASE queue' = queue
  BY <1>1, <1>5
<1> QED
  BY <1>2, <1>3, <1>4, <1>5 DEF Next, PrintState, FiltInterface, Search, GotPacket, Awake, Size,
     ReadAt, Throws, FindExpired, PrintSize, PrintAt, Complete, vars

-----------------------------------------------------------------------------

\* For any number of interfaces the tracker keeps its types, and what a thread
\* relies on is so unless the thread is marked stale.
THEOREM TrackerInvariant == Spec => [](TypeOK /\ RaceInv /\ OpenInv)
<1>1. Init => TypeOK /\ RaceInv /\ OpenInv
  <2> SUFFICES ASSUME Init PROVE OpenInv
    BY InitRace
  <2> SUFFICES ASSUME NEW d \in Devices
               PROVE  /\ d \notin stale /\ Pending(todo[d], "push") = {}
                      /\ Pending(todo[d], "remove") = {} /\ raced = {}
                      /\ Listed("connected") = {} /\ open = {}
    BY DEF OpenInv
  <2>1. todo[d] = << >> /\ queue["connected"] = << >>
    BY DEF Init, Queues
  <2>2. 1 .. Len(todo[d]) = {} /\ DOMAIN queue["connected"] = {}
    BY <2>1
  <2> QED
    BY <2>2 DEF Init, Pending, Listed
<1>2. TypeOK /\ RaceInv /\ OpenInv /\ [Next]_vars => (TypeOK /\ RaceInv /\ OpenInv)'
  <2> SUFFICES ASSUME TypeOK, RaceInv, OpenInv, [Next]_vars
               PROVE  (TypeOK /\ RaceInv /\ OpenInv)'
    OBVIOUS
  <2>1. TypeOK' /\ IteratorInv'
    BY TypeStep DEF RaceInv
  <2>2. RaceInv'
    BY <2>1, RaceStep
  <2>3. OpenInv'
    BY <2>1, OpenStep
  <2> QED
    BY <2>1, <2>2, <2>3
<1> QED
  BY <1>1, <1>2, PTL DEF Spec

\* The queues tell what was captured (with one interface connected_queue is
\* the open connections between two packets), and the program ends badly only
\* after a race, for any set of connections and packets.
THEOREM TrackerQueuesSound == Spec => []QueuesSound
<1>1. TypeOK /\ RaceInv /\ OpenInv => QueuesSound
  BY OpenIsConnected DEF QueuesSound, RaceInv
<1> QED
  BY <1>1, TrackerInvariant, PTL

\* Without a race on it a queue holds a connection at most once, for any
\* number of interfaces.
THEOREM TrackerNoDuplicates == Spec => []NoDuplicates
<1>1. TypeOK /\ RaceInv /\ OpenInv => NoDuplicates
  BY UniqueIsNoDuplicates DEF RaceInv
<1> QED
  BY <1>1, TrackerInvariant, PTL

\* Without a race on it wait_queue loses a connection only by its answer or
\* its timeout, for any number of interfaces.
THEOREM TrackerWaits == Spec => WaitsForAnswerOrTimeout
<1> DEFINE Leaves ==
      \A c \in Conns :
       (/\ c \in Listed("wait") /\ c \notin Listed("wait")'
        /\ "wait" \notin raced')
       => \/ \E k \in At("wait", c) : queue["wait"][k].age > TIMEOUT
          \/ \E d \in Devices :
               /\ todo[d] # << >> /\ Head(todo[d]) = Remove("wait", c)
               /\ Len(todo'[d]) < Len(todo[d])
<1>1. TypeOK /\ RaceInv /\ OpenInv /\ (TypeOK /\ RaceInv /\ OpenInv)' /\ [Next]_vars => [Leaves]_vars
  BY LeavesStep
<1>2. [][Leaves]_vars => WaitsForAnswerOrTimeout
  BY DEF WaitsForAnswerOrTimeout
<1> QED
  BY <1>1, <1>2, TrackerInvariant, PTL DEF Spec

-----------------------------------------------------------------------------
(* The file transfer of the version server.                                *)

VersionTypes ==
  /\ cpc \in [Clients -> {"new", "version", "getFile", "trans", "recv", "close", "done", "killed"}]
  /\ spc \in {"serve", "accept", "write", "killed"}
  /\ cur \in Clients \cup {Version!None} /\ backlog \in Seq(Clients)
  /\ port \in Seq(Version!Peers)
  /\ got \in [Version!Peers -> Nat] /\ left \in Nat
  /\ created \subseteq Clients

\* A client whose call is under way or has returned is the one that is served,
\* and once it has returned getFile is over.
ServedInv ==
  \A c \in Clients :
    /\ cpc[c] \in {"getFile", "trans", "recv", "close"} => cur = c
    /\ cpc[c] \in {"trans", "recv", "close"} => spc = "serve"

\* A client is in the queue of a socket that was left open: bind fails from
\* then on, and getFile never accepts again.
PortInv ==
  (\E k \in DOMAIN port : port[k] \in Clients) => listening /\ spc = "serve"

VersionInv ==
  /\ VersionTypes /\ ServedInv /\ PortInv
  /\ spc = "write" => peer \in Strangers
  /\ Version!CallersWait

\* What a client does keeps the invariant.
LEMMA VersionClientStep ==
  ASSUME Version!VersionAssumption, VersionInv, NEW c \in Clients,
         Version!Client(c) \/ Version!Killed(c)
  PROVE  VersionInv'
<1>1. CASE Version!Connect(c)
  <2>1. /\ cpc[c] = "new" /\ cpc' = [cpc EXCEPT ![c] = "version"] /\ backlog' = Append(backlog, c)
        /\ UNCHANGED <<spc, cur, listening, port, peer, left, got, created>>
    BY <1>1 DEF Version!Connect, Version!Step
  <2>2. backlog' \in Seq(Clients)
    BY <2>1 DEF VersionInv, VersionTypes
  <2>3. VersionTypes' /\ ServedInv' /\ PortInv'
    BY <2>1, <2>2 DEF VersionInv, VersionTypes, ServedInv, PortInv
  <2>4. Version!CallersWait'
    BY <2>1 DEF VersionInv, VersionTypes, Version!CallersWait, Version!FileReachesNoClient,
                Version!EmptiedThenHangs
  <2> QED
    BY <2>1, <2>3, <2>4 DEF VersionInv
<1>2. CASE Version!FetchVersion(c)
  <2>1. /\ cpc[c] = "version" /\ cpc' = [cpc EXCEPT ![c] = "getFile"] /\ cur = c
        /\ UNCHANGED <<spc, cur, backlog, listening, port, peer, left, got, created>>
    BY <1>2 DEF Version!FetchVersion, Version!Step
  <2>2. VersionTypes' /\ ServedInv' /\ PortInv'
    BY <2>1 DEF VersionInv, VersionTypes, ServedInv, PortInv
  <2>3. Version!CallersWait'
    BY <2>1 DEF VersionInv, VersionTypes, Version!CallersWait, Version!FileReachesNoClient,
                Version!EmptiedThenHangs
  <2> QED
    BY <2>1, <2>2, <2>3 DEF VersionInv

<1>3. CASE Version!TransFile(c)
  <2>1. cpc[c] = "trans" /\ cur = c /\ spc = "serve"
    BY <1>3 DEF Version!TransFile, Version!Step, VersionInv, ServedInv
  <2>2. UNCHANGED <<spc, cur, backlog, listening, peer, left, got>>
    BY <1>3 DEF Version!TransFile
  <2>3. CASE listening
    <3>1. /\ cpc' = [cpc EXCEPT ![c] = "recv"] /\ port' = Append(port, c)
          /\ created' = created \cup {c}
      BY <1>3, <2>3 DEF Version!TransFile, Version!Step
    <3>2. port' \in Seq(Version!Peers)
      BY <3>1 DEF VersionInv, VersionTypes, Version!Peers
    <3>3. VersionTypes' /\ ServedInv'
      BY <2>1, <2>2, <3>1, <3>2 DEF VersionInv, VersionTypes, ServedInv
    <3>4. PortInv'
      BY <2>1, <2>2, <2>3 DEF PortInv
    <3>5. Version!CallersWait'
      BY <2>2, <3>1 DEF VersionInv, VersionTypes, Version!CallersWait, Version!FileReachesNoClient,
                        Version!EmptiedThenHangs
    <3> QED
      BY <2>1, <2>2, <3>3, <3>4, <3>5 DEF VersionInv
  <2>4. CASE ~listening
    <3>1. cpc' = [cpc EXCEPT ![c] = "close"] /\ UNCHANGED <<port, created>>
      BY <1>3, <2>4 DEF Version!TransFile, Version!Step
    <3>2. VersionTypes' /\ ServedInv' /\ PortInv'
      BY <2>1, <2>2, <3>1 DEF VersionInv, VersionTypes, ServedInv, PortInv
    <3>3. Version!CallersWait'
      BY <2>1, <2>2, <3>1 DEF VersionInv, VersionTypes, Version!CallersWait,
                        Version!FileReachesNoClient, Version!EmptiedThenHangs
    <3> QED
      BY <2>1, <2>2, <3>2, <3>3 DEF VersionInv
  <2> QED
    BY <2>3, <2>4
<1>4. CASE Version!Close(c)
  <2>1. /\ cpc[c] = "close" /\ cpc' = [cpc EXCEPT ![c] = "done"] /\ cur = c /\ cur' = Version!None
        /\ UNCHANGED <<spc, backlog, listening, port, peer, left, got, created>>
    BY <1>4 DEF Version!Close, Version!Step, VersionInv, ServedInv
  <2>2. VersionTypes' /\ ServedInv' /\ PortInv'
    BY <2>1 DEF VersionInv, VersionTypes, ServedInv, PortInv
  <2>3. Version!CallersWait'
    BY <2>1 DEF VersionInv, VersionTypes, Version!CallersWait, Version!FileReachesNoClient,
                Version!EmptiedThenHangs
  <2> QED
    BY <2>1, <2>2, <2>3 DEF VersionInv
<1>5. CASE Version!Killed(c)
  <2>1. /\ cpc' = [cpc EXCEPT ![c] = "killed"]
        /\ UNCHANGED <<spc, cur, backlog, listening, port, peer, left, got, created>>
    BY <1>5 DEF Version!Killed
  <2>2. VersionTypes' /\ ServedInv' /\ PortInv'
    BY <2>1 DEF VersionInv, VersionTypes, ServedInv, PortInv
  <2>3. Version!CallersWait'
    BY <2>1 DEF VersionInv, VersionTypes, Version!CallersWait, Version!FileReachesNoClient,
                Version!EmptiedThenHangs
  <2> QED
    BY <2>1, <2>2, <2>3 DEF VersionInv
<1> QED
  BY <1>1, <1>2, <1>3, <1>4, <1>5 DEF Version!Client

\* The reply to getFile puts its caller into transFile, and changes nobody else.
LEMMA ReplyStep ==
  ASSUME VersionInv, Version!Reply, cur \in Clients
  PROVE  /\ cpc' \in [Clients -> {"new", "version", "getFile", "trans", "recv", "close", "done", "killed"}]
         /\ \A c \in Clients : c # cur => cpc'[c] = cpc[c]
         /\ cpc'[cur] = IF cpc[cur] = "getFile" THEN "trans" ELSE cpc[cur]
  BY DEF VersionInv, VersionTypes, Version!Reply

\* Steps that change the connections of clients by the reply to one that is
\* served, and leave the server in its loop.
LEMMA RepliedStep ==
  ASSUME VersionInv, Version!Reply, cur \in Clients, spc' = "serve", port' \in Seq(Version!Peers),
         PortInv', UNCHANGED <<cur, backlog, left, got, created>>
  PROVE  VersionInv'
<1>1. VersionTypes'
  BY ReplyStep DEF VersionInv, VersionTypes
<1>2. ServedInv'
  BY ReplyStep DEF VersionInv, ServedInv
<1>3. Version!CallersWait'
  BY ReplyStep DEF VersionInv, VersionTypes, Version!CallersWait, Version!FileReachesNoClient,
                   Version!EmptiedThenHangs
<1> QED
  BY <1>1, <1>2, <1>3 DEF VersionInv

\* What the server does keeps the invariant.
LEMMA VersionServerStep ==
  ASSUME Version!VersionAssumption, VersionInv, Version!Server
  PROVE  VersionInv'
<1>1. CASE Version!Serve
  <2>1. /\ spc = "serve" /\ backlog # << >>
        /\ cur # Version!None => cpc[cur] \in {"done", "killed"}
        /\ cur' = Head(backlog) /\ backlog' = Tail(backlog)
        /\ UNCHANGED <<cpc, spc, listening, port, peer, left, got, created>>
    BY <1>1 DEF Version!Serve
  <2>2. cur' \in Clients /\ backlog' \in Seq(Clients)
    BY <2>1 DEF VersionInv, VersionTypes
  <2>3. VersionTypes' /\ PortInv'
    BY <2>1, <2>2 DEF VersionInv, VersionTypes, PortInv
  <2>4. ServedInv'
    BY <2>1 DEF VersionInv, VersionTypes, ServedInv, Version!VersionAssumption, Version!Peers
  <2>5. Version!CallersWait'
    BY <2>1 DEF VersionInv, Version!CallersWait, Version!FileReachesNoClient, Version!EmptiedThenHangs
  <2> QED
    BY <2>1, <2>3, <2>4, <2>5 DEF VersionInv
<1>2. CASE Version!GetFile
  <2>1. /\ spc = "serve" /\ cur \in Clients /\ cpc[cur] = "getFile"
        /\ UNCHANGED <<cur, backlog, port, peer, left, got, created>>
    BY <1>2 DEF Version!GetFile, VersionInv, VersionTypes
  <2>2. CASE ~listening /\ listening' = TRUE /\ spc' = "accept" /\ UNCHANGED cpc
    <3>1. \A c \in Clients : cpc[c] \notin {"trans", "recv", "close"}
      BY <2>1 DEF VersionInv, ServedInv
    <3>2. VersionTypes' /\ ServedInv' /\ PortInv'
      BY <2>1, <2>2, <3>1 DEF VersionInv, VersionTypes, ServedInv, PortInv
    <3>3. Version!CallersWait'
      BY <2>1, <2>2 DEF VersionInv, Version!CallersWait, Version!FileReachesNoClient,
                        Version!EmptiedThenHangs
    <3> QED
      BY <2>1, <2>2, <3>2, <3>3 DEF VersionInv
  <2>3. CASE Version!Reply /\ UNCHANGED <<spc, listening>>
    <3>1. PortInv' /\ port' \in Seq(Version!Peers)
      BY <2>1, <2>3 DEF VersionInv, VersionTypes, PortInv
    <3> QED
      BY <2>1, <2>3, <3>1, RepliedStep
  <2> QED
    BY <1>2, <2>2, <2>3 DEF Version!GetFile
<1>3. CASE Version!Accept
  <2>1. /\ spc = "accept" /\ port # << >> /\ port' = Tail(port)
        /\ UNCHANGED <<cur, backlog, listening, got, created>>
    BY <1>3 DEF Version!Accept, Version!TakeConnection
  <2>2. /\ port \in Seq(Version!Peers) /\ port' \in Seq(Version!Peers)
        /\ Len(port) \in Nat \ {0} /\ Len(port') = Len(port) - 1
        /\ \A k \in 1 .. Len(port') : port'[k] = port[k + 1]
    BY <2>1, HeadTailProperties DEF VersionInv, VersionTypes
  <2>3. \A k \in 1 .. Len(port) : port[k] \in Strangers
    BY <2>1, <2>2 DEF VersionInv, PortInv, Version!Peers
  <2>4. PortInv'
    <3>1. \A k \in 1 .. Len(port') : port'[k] \in Strangers
      BY <2>2, <2>3
    <3> QED
      BY <2>2, <3>1 DEF PortInv, Version!VersionAssumption
  <2>5. CASE peer' = Head(port) /\ left' = FileBlocks /\ spc' = "write" /\ UNCHANGED cpc
    <3>1. peer' \in Strangers
      BY <2>1, <2>2, <2>3, <2>5
    <3>2. VersionTypes' /\ ServedInv'
      BY <2>1, <2>2, <2>5 DEF VersionInv, VersionTypes, ServedInv, Version!VersionAssumption
    <3>3. Version!CallersWait'
      BY <2>1, <2>5 DEF VersionInv, Version!CallersWait, Version!FileReachesNoClient,
                        Version!EmptiedThenHangs
    <3> QED
      BY <2>4, <3>1, <3>2, <3>3 DEF VersionInv
  <2>6. CASE spc' = "serve" /\ Version!Reply /\ UNCHANGED <<peer, left>>
    <3>1. CASE cur \in Clients
      BY <2>1, <2>2, <2>4, <2>6, <3>1, RepliedStep
    <3>2. CASE cur = Version!None
      <4>1. cpc' \in {cpc, [cpc EXCEPT ![cur] = "trans"]}
        BY <2>6 DEF Version!Reply
      <4>2. cpc' = cpc
        BY <3>2, <4>1 DEF VersionInv, VersionTypes, Version!VersionAssumption, Version!Peers
      <4>3. VersionTypes' /\ ServedInv'
        BY <2>1, <2>2, <2>6, <4>2 DEF VersionInv, VersionTypes, ServedInv
      <4>4. Version!CallersWait'
        BY <2>1, <4>2 DEF VersionInv, Version!CallersWait, Version!FileReachesNoClient,
                          Version!EmptiedThenHangs
      <4> QED
        BY <2>4, <2>6, <4>3, <4>4 DEF VersionInv
    <3> QED
      BY <3>1, <3>2 DEF VersionInv, VersionTypes
  <2> QED
    BY <1>3, <2>5, <2>6 DEF Version!Accept, Version!TakeConnection
<1>4. CASE Version!Write
  <2>1. /\ spc = "write" /\ left > 0 /\ peer \in Strangers
        /\ UNCHANGED <<cpc, cur, backlog, listening, port, peer, created>>
    BY <1>4 DEF Version!Write, VersionInv
  <2>2. /\ got' \in [Version!Peers -> Nat] /\ left' \in Nat /\ spc' \in {"write", "killed"}
        /\ \A c \in Clients : got'[c] = got[c]
    <3>1. CASE got' = [got EXCEPT ![peer] = @ + 1] /\ left' = left - 1 /\ UNCHANGED spc
      BY <2>1, <3>1 DEF VersionInv, VersionTypes, Version!VersionAssumption, Version!Peers
    <3>2. CASE spc' = "killed" /\ UNCHANGED <<got, left>>
      BY <2>1, <3>2 DEF VersionInv, VersionTypes
    <3> QED
      BY <1>4, <3>1, <3>2 DEF Version!Write
  <2>3. VersionTypes' /\ ServedInv' /\ PortInv'
    BY <2>1, <2>2 DEF VersionInv, VersionTypes, ServedInv, PortInv
  <2>4. Version!CallersWait'
    BY <2>1, <2>2 DEF VersionInv, Version!CallersWait, Version!FileReachesNoClient,
                      Version!EmptiedThenHangs
  <2> QED
    BY <2>1, <2>3, <2>4 DEF VersionInv
<1>5. CASE Version!Finish
  <2>1. /\ spc = "write" /\ spc' = "serve" /\ listening' = FALSE /\ port' = << >>
        /\ UNCHANGED <<cur, backlog, left, got, created>>
    BY <1>5 DEF Version!Finish
  <2>2. \A c \in Clients : cpc[c] \notin {"trans", "recv", "close"}
    BY <2>1 DEF VersionInv, ServedInv
  <2>3. /\ cpc' \in [Clients -> {"new", "version", "getFile", "trans", "recv", "close", "done", "killed"}]
        /\ \A c \in Clients : cpc'[c] = IF c = cur /\ cpc[c] = "getFile" THEN "trans" ELSE cpc[c]
    BY <1>5, <2>2 DEF Version!Finish, VersionInv, VersionTypes
  <2>4. VersionTypes' /\ ServedInv' /\ PortInv'
    BY <2>1, <2>2, <2>3 DEF VersionInv, VersionTypes, ServedInv, PortInv
  <2>5. Version!CallersWait'
    BY <2>1, <2>2, <2>3 DEF VersionInv, VersionTypes, Version!CallersWait,
                            Version!FileReachesNoClient, Version!EmptiedThenHangs
  <2> QED
    BY <2>1, <2>4, <2>5 DEF VersionInv
<1> QED
  BY <1>1, <1>2, <1>3, <1>4, <1>5 DEF Version!Server

\* A stranger enters the queue and nothing else.
LEMMA VersionStrangerStep ==
  ASSUME Version!VersionAssumption, VersionInv, NEW s \in Strangers, Version!Stranger(s)
  PROVE  VersionInv'
<1>1. /\ port' = Append(port, s)
      /\ UNCHANGED <<cpc, spc, cur, backlog, listening, peer, left, got, created>>
  BY DEF Version!Stranger
<1>2. /\ port \in Seq(Version!Peers) /\ port' \in Seq(Version!Peers) /\ Len(port) \in Nat
      /\ Len(port') = Len(port) + 1 /\ port'[Len(port) + 1] = s
      /\ \A k \in 1 .. Len(port) : port'[k] = port[k]
  BY <1>1 DEF VersionInv, VersionTypes, Version!Peers
<1>3. PortInv'
  <2> SUFFICES ASSUME NEW k \in 1 .. Len(port'), port'[k] \in Clients PROVE listening' /\ spc' = "serve"
    BY <1>2 DEF PortInv
  <2>1. k # Len(port) + 1
    BY <1>2 DEF Version!VersionAssumption
  <2>2. k \in 1 .. Len(port) /\ port[k] \in Clients
    BY <1>2, <2>1
  <2> QED
    BY <1>1, <1>2, <2>2 DEF VersionInv, PortInv
<1>4. VersionTypes' /\ ServedInv'
  BY <1>1, <1>2 DEF VersionInv, VersionTypes, ServedInv
<1>5. Version!CallersWait'
  BY <1>1 DEF VersionInv, Version!CallersWait, Version!FileReachesNoClient, Version!EmptiedThenHangs
<1> QED
  BY <1>1, <1>3, <1>4, <1>5 DEF VersionInv

\* The invariant of the version server, for any number of clients and strangers.
LEMMA VersionInvariant ==
  SpecMonitors => []VersionInv
<1>1. InitMonitors => VersionInv
  <2> SUFFICES ASSUME InitMonitors PROVE VersionInv
    OBVIOUS
  <2>1. Version!Init
    BY DEF InitMonitors
  <2> QED
    BY <2>1 DEF Version!Init, VersionInv, VersionTypes, ServedInv, PortInv, Version!CallersWait,
                Version!FileReachesNoClient, Version!EmptiedThenHangs, Version!Peers
<1>2. VersionInv /\ [NextMonitors]_<<program, vars, processes, sockets, version>> => VersionInv'
  <2> SUFFICES ASSUME VersionInv, [NextMonitors]_<<program, vars, processes, sockets, version>>
               PROVE  VersionInv'
    OBVIOUS
  <2>0. Version!VersionAssumption
    BY MonitorAssumptions
  <2>1. CASE version' = version
    BY <2>1 DEF version, VersionInv, VersionTypes, ServedInv, PortInv, Version!CallersWait,
                Version!FileReachesNoClient, Version!EmptiedThenHangs
  <2>2. CASE Version!Next
    BY <2>0, <2>2, VersionClientStep, VersionServerStep, VersionStrangerStep DEF Version!Next
  <2> QED
    BY <2>1, <2>2 DEF NextMonitors
<1> QED
  BY <1>1, <1>2, PTL DEF SpecMonitors

\* getFile of the version server never sends the file to a client, and a
\* client that has emptied its output.txt waits for ever, for any number of
\* clients and of others that connect to the port (CallersWait).
THEOREM VersionCallersWait ==
  SpecMonitors => []CallersWait
<1>1. VersionInv => CallersWait
  BY DEF VersionInv, CallersWait
<1> QED
  BY <1>1, VersionInvariant, PTL

-----------------------------------------------------------------------------
(* The process monitor.                                                    *)

NodeSet == [pid : Pids, ticks : 0 .. MaxTicks, last_time : Nat]
ReadSet == [who : Nat, ticks : 0 .. MaxTicks]

ProcTypes ==
  /\ proc \in [Pids -> -1 .. MaxTicks] /\ born \in [Pids -> Nat]
  /\ round \in Nat /\ dir \subseteq Pids /\ opened \in Pids \cup {-1} /\ opened \notin dir
  /\ lst_task \in Seq(NodeSet) /\ reads \in [Pids -> Seq(ReadSet)]
  /\ garbled \in BOOLEAN

\* A pid has one node.
NodesOnce ==
  \A j, k \in 1 .. Len(lst_task) : lst_task[j].pid = lst_task[k].pid => j = k

\* The node of a pid holds its last read, of an earlier round when the pid is
\* still to be read in this one.
NodeInv ==
  /\ \A p \in Pids : reads[p] # << >> => \E k \in 1 .. Len(lst_task) : lst_task[k].pid = p
  /\ \A k \in 1 .. Len(lst_task) :
       LET p == lst_task[k].pid IN
       /\ reads[p] # << >> /\ lst_task[k].ticks = reads[p][1].ticks
       /\ lst_task[k].last_time <= round
       /\ p \in dir \/ opened = p => lst_task[k].last_time < round

\* A process that was read has not used less since.
ReadInv ==
  \A p \in Pids : reads[p] # << >> =>
    /\ reads[p][1].who <= born[p]
    /\ reads[p][1].who = born[p] /\ proc[p] # -1 => reads[p][1].ticks <= proc[p]

\* The line is about a process that was read.
LineInv ==
  pline # Processes!NoLine /\ ~garbled => pline.pid \in Pids /\ Len(reads[pline.pid]) >= 1

ProcInv ==
  /\ ProcTypes /\ NodesOnce /\ ReadInv /\ LineInv
  /\ ~garbled => NodeInv
  /\ Processes!UsageIsOwn

\* The node that readProc finds is the node of the pid.
LEMMA NodeFound ==
  ASSUME ProcTypes, NodesOnce, NEW id
  PROVE  \/ /\ Processes!Node(id) \in 1 .. Len(lst_task)
            /\ lst_task[Processes!Node(id)].pid = id
         \/ /\ Processes!Node(id) = 0
            /\ \A k \in 1 .. Len(lst_task) : lst_task[k].pid # id
<1>1. DOMAIN lst_task = 1 .. Len(lst_task) /\ Len(lst_task) \in Nat
  BY DEF ProcTypes
<1>2. CASE \E k \in 1 .. Len(lst_task) : lst_task[k].pid = id
  <2>1. PICK k \in 1 .. Len(lst_task) : lst_task[k].pid = id
    BY <1>2
  <2>2. \A j \in 1 .. k - 1 : lst_task[j].pid # id
    BY <1>1, <2>1 DEF NodesOnce
  <2>3. \E n \in DOMAIN lst_task : lst_task[n].pid = id /\ \A j \in 1 .. n - 1 : lst_task[j].pid # id
    BY <1>1, <2>1, <2>2
  <2>4. Processes!Node(id) = CHOOSE n \in DOMAIN lst_task :
                               lst_task[n].pid = id /\ \A j \in 1 .. n - 1 : lst_task[j].pid # id
    BY <1>1, <1>2 DEF Processes!Node
  <2> QED
    BY <1>1, <2>3, <2>4
<1>3. CASE ~\E k \in 1 .. Len(lst_task) : lst_task[k].pid = id
  BY <1>1, <1>3 DEF Processes!Node
<1> QED
  BY <1>2, <1>3

\* A line updates the node of its pid, or appends one.
LEMMA ShowStep ==
  ASSUME ProcTypes, NodesOnce, NEW id \in Pids, NEW t \in 0 .. MaxTicks, Processes!Show(id, t)
  PROVE  /\ lst_task' \in Seq(NodeSet) /\ NodesOnce'
         /\ \A k \in 1 .. Len(lst_task) :
              k \in 1 .. Len(lst_task') /\ lst_task'[k].pid = lst_task[k].pid
         /\ \E k \in 1 .. Len(lst_task') : lst_task'[k].pid = id
         /\ \A k \in 1 .. Len(lst_task') :
              \/ lst_task'[k] = Processes!TimeInfo(id, t)
              \/ k \in 1 .. Len(lst_task) /\ lst_task'[k] = lst_task[k] /\ lst_task[k].pid # id
         /\ pline' = Processes!Line(id, t)
<1>0. /\ Processes!TimeInfo(id, t) \in NodeSet /\ Processes!TimeInfo(id, t).pid = id
      /\ lst_task \in Seq(NodeSet) /\ Len(lst_task) \in Nat
  BY DEF Processes!TimeInfo, NodeSet, ProcTypes
<1>a. pline' = Processes!Line(id, t) /\ lst_task' = Processes!Stored(id, t)
  BY DEF Processes!Show
<1>1. CASE Processes!Node(id) = 0
  <2>1. \A k \in 1 .. Len(lst_task) : lst_task[k].pid # id
    BY <1>1, NodeFound
  <2>2. lst_task' = Append(lst_task, Processes!TimeInfo(id, t))
    BY <1>1, <1>a DEF Processes!Stored
  <2>3. /\ lst_task' \in Seq(NodeSet) /\ Len(lst_task') = Len(lst_task) + 1
        /\ \A k \in 1 .. Len(lst_task) : lst_task'[k] = lst_task[k]
        /\ lst_task'[Len(lst_task) + 1] = Processes!TimeInfo(id, t)
    BY <1>0, <2>2, AppendProperties
  <2>4. NodesOnce'
    <3> SUFFICES ASSUME NEW j \in 1 .. Len(lst_task'), NEW k \in 1 .. Len(lst_task'),
                        lst_task'[j].pid = lst_task'[k].pid, j < k
                 PROVE  FALSE
      BY <1>0, <2>3 DEF NodesOnce
    <3>1. j \in 1 .. Len(lst_task)
      BY <1>0, <2>3
    <3>2. CASE k \in 1 .. Len(lst_task)
      BY <2>3, <3>1, <3>2 DEF NodesOnce
    <3>3. CASE k = Len(lst_task) + 1
      BY <1>0, <2>1, <2>3, <3>1, <3>3
    <3> QED
      BY <1>0, <2>3, <3>2, <3>3
  <2>5. \A k \in 1 .. Len(lst_task') : k \in 1 .. Len(lst_task) \/ k = Len(lst_task) + 1
    BY <1>0, <2>3
  <2>6. \A k \in 1 .. Len(lst_task) : k \in 1 .. Len(lst_task')
    BY <1>0, <2>3
  <2>7. Len(lst_task) + 1 \in 1 .. Len(lst_task')
    BY <1>0, <2>3
  <2> QED
    BY <1>0, <1>a, <2>1, <2>3, <2>4, <2>5, <2>6, <2>7
<1>2. CASE Processes!Node(id) # 0
  <2> DEFINE n == Processes!Node(id)
  <2>1. n \in 1 .. Len(lst_task) /\ lst_task[n].pid = id
    BY <1>2, NodeFound
  <2>2. lst_task' = [lst_task EXCEPT ![n] = Processes!TimeInfo(id, t)]
    BY <1>2, <1>a DEF Processes!Stored
  <2> HIDE DEF n
  <2>3. /\ lst_task' \in Seq(NodeSet) /\ Len(lst_task') = Len(lst_task)
        /\ \A k \in 1 .. Len(lst_task) : k # n => lst_task'[k] = lst_task[k]
        /\ lst_task'[n] = Processes!TimeInfo(id, t)
    BY <1>0, <2>1, <2>2, ExceptSeq
  <2>4. \A k \in 1 .. Len(lst_task) : lst_task'[k].pid = lst_task[k].pid
    BY <1>0, <2>1, <2>3
  <2>5. NodesOnce'
    BY <2>3, <2>4 DEF NodesOnce
  <2>6. \A k \in 1 .. Len(lst_task) : k # n => lst_task[k].pid # id
    BY <2>1 DEF NodesOnce
  <2> QED
    BY <1>0, <1>a, <2>1, <2>3, <2>4, <2>5, <2>6
<1> QED
  BY <1>1, <1>2

\* What the line shows is left as it is by a step that reads no process.
LEMMA LineKept ==
  ASSUME ProcInv, UNCHANGED <<lst_task, pline, reads, garbled>>
  PROVE  NodesOnce' /\ LineInv' /\ Processes!UsageIsOwn'
<1>1. NodesOnce'
  BY DEF ProcInv, NodesOnce
<1>2. LineInv'
  BY DEF ProcInv, LineInv
<1>3. Processes!UsageIsOwn'
  BY DEF ProcInv, Processes!UsageIsOwn
<1> QED
  BY <1>1, <1>2, <1>3

\* What a process does keeps the invariant: a pid that is used again has
\* another owner than the last read.
LEMMA ProcWorldStep ==
  ASSUME Processes!ProcessAssumption, ProcInv, NEW p \in Pids,
         Processes!Start(p) \/ Processes!Run(p) \/ Processes!End(p)
  PROVE  ProcInv'
<1>0. UNCHANGED <<round, dir, opened, lst_task, pline, reads, garbled>>
  BY DEF Processes!Start, Processes!Run, Processes!End
<1>1. /\ proc \in [Pids -> -1 .. MaxTicks] /\ born \in [Pids -> Nat] /\ MaxTicks \in Nat
      /\ \A q \in Pids : reads[q] # << >> => reads[q][1] \in ReadSet
  <2>1. \A q \in Pids : reads[q] \in Seq(ReadSet)
    BY DEF ProcInv, ProcTypes
  <2> QED
    BY <2>1 DEF ProcInv, ProcTypes, Processes!ProcessAssumption
<1>2. proc' \in [Pids -> -1 .. MaxTicks] /\ born' \in [Pids -> Nat]
  <2>1. CASE Processes!Start(p)
    BY <1>1, <2>1 DEF Processes!Start
  <2>2. CASE Processes!Run(p)
    BY <1>1, <2>2 DEF Processes!Run
  <2>3. CASE Processes!End(p)
    BY <1>1, <2>3 DEF Processes!End, Processes!None
  <2> QED
    BY <2>1, <2>2, <2>3
<1>3. ProcTypes'
  BY <1>0, <1>2 DEF ProcInv, ProcTypes
<1>4. ReadInv'
  <2> SUFFICES ASSUME NEW q \in Pids, reads[q] # << >>
               PROVE  /\ reads[q][1].who <= born'[q]
                      /\ reads[q][1].who = born'[q] /\ proc'[q] # -1 => reads[q][1].ticks <= proc'[q]
    BY <1>0 DEF ReadInv
  <2>0. /\ reads[q][1].who \in Nat /\ reads[q][1].ticks \in Nat /\ reads[q][1].who <= born[q]
        /\ reads[q][1].who = born[q] /\ proc[q] # -1 => reads[q][1].ticks <= proc[q]
    BY <1>1 DEF ProcInv, ReadInv, ReadSet
  <2>1. CASE Processes!Start(p)
    BY <1>1, <2>0, <2>1 DEF Processes!Start
  <2>2. CASE Processes!Run(p)
    BY <1>1, <2>0, <2>2 DEF Processes!Run
  <2>3. CASE Processes!End(p)
    BY <1>1, <2>0, <2>3 DEF Processes!End, Processes!None
  <2> QED
    BY <2>1, <2>2, <2>3
<1>5. ~garbled' => NodeInv'
  BY <1>0 DEF ProcInv, NodeInv
<1> QED
  BY <1>0, <1>3, <1>4, <1>5, LineKept DEF ProcInv

\* A new round and an open leave the nodes behind the round.
LEMMA ProcWalkStep ==
  ASSUME ProcInv, Processes!NextRound \/ Processes!Open
  PROVE  ProcInv'
<1>0. UNCHANGED <<proc, born, lst_task, pline, reads, garbled>>
  BY DEF Processes!NextRound, Processes!Open, Processes!world
<1>1. ReadInv'
  BY <1>0 DEF ProcInv, ReadInv
<1>t. \A k \in 1 .. Len(lst_task) : lst_task[k].last_time \in Nat
  <2>1. \A k \in 1 .. Len(lst_task) : lst_task[k] \in NodeSet
    BY DEF ProcInv, ProcTypes
  <2> QED
    BY <2>1 DEF NodeSet
<1>2. CASE Processes!NextRound
  <2>1. opened = -1 /\ round' = round + 1 /\ dir' = Pids /\ opened' = opened /\ round \in Nat
    BY <1>2 DEF Processes!NextRound, Processes!None, ProcInv, ProcTypes
  <2>2. ProcTypes'
    BY <1>0, <2>1, MonitorAssumptions DEF ProcInv, ProcTypes, Processes!ProcessAssumption
  <2>3. ASSUME ~garbled PROVE NodeInv'
    BY <1>0, <1>t, <2>1, <2>3 DEF ProcInv, NodeInv
  <2> QED
    BY <1>0, <1>1, <2>2, <2>3, LineKept DEF ProcInv
<1>3. CASE Processes!Open
  <2>1. PICK p \in dir : dir' = dir \ {p} /\ opened' \in {-1, p} /\ round' = round
    BY <1>3 DEF Processes!Open, Processes!None
  <2>2. opened' # -1 => opened' \in dir
    BY <2>1
  <2>3. ProcTypes'
    BY <1>0, <2>1, MonitorAssumptions DEF ProcInv, ProcTypes, Processes!ProcessAssumption
  <2>4. ASSUME ~garbled PROVE NodeInv'
    <3> SUFFICES ASSUME NEW k \in 1 .. Len(lst_task),
                        lst_task[k].pid \in dir' \/ opened' = lst_task[k].pid
                 PROVE  lst_task[k].last_time < round
      BY <1>0, <2>1, <2>4 DEF ProcInv, NodeInv
    <3>0. lst_task[k] \in NodeSet
      BY DEF ProcInv, ProcTypes
    <3>1. lst_task[k].pid \in Pids
      BY <3>0 DEF NodeSet
    <3>2. lst_task[k].pid \in dir
      BY <2>1, <2>2, <3>1, MonitorAssumptions DEF Processes!ProcessAssumption
    <3> QED
      BY <2>4, <3>2 DEF ProcInv, NodeInv
  <2> QED
    BY <1>0, <1>1, <2>3, <2>4, LineKept DEF ProcInv
<1> QED
  BY <1>2, <1>3

\* The history after a read: the read and the one before it.
LEMMA ReadsPushed ==
  ASSUME NEW s \in Seq(ReadSet), NEW r \in ReadSet
  PROVE  LET n == <<r>> \o SubSeq(s, 1, Processes!Min({1, Len(s)}))
         IN  /\ n \in Seq(ReadSet) /\ n # << >> /\ n[1] = r
             /\ s = << >> => Len(n) = 1
             /\ s # << >> => Len(n) = 2 /\ n[2] = s[1]
<1> DEFINE m == Processes!Min({1, Len(s)})
           u == SubSeq(s, 1, m)
           n == <<r>> \o u
<1>0. Len(s) \in Nat /\ <<r>> \in Seq(ReadSet) /\ Len(<<r>>) = 1 /\ <<r>>[1] = r
  OBVIOUS
<1>1. m = IF s = << >> THEN 0 ELSE 1
  <2>1. m \in {1, Len(s)} /\ m <= 1 /\ m <= Len(s)
    <3>1. \E x \in {1, Len(s)} : \A y \in {1, Len(s)} : x <= y
      BY <1>0
    <3> QED
      BY <1>0, <3>1 DEF Processes!Min
  <2> QED
    BY <1>0, <2>1
<1>2. u \in Seq(ReadSet) /\ Len(u) = m /\ (m = 1 => u[1] = s[1])
  <2> HIDE DEF m
  <2>1. m \in Int /\ \A k \in 1 .. m : s[k] \in ReadSet
    BY <1>0, <1>1
  <2>2. /\ u \in Seq(ReadSet) /\ Len(u) = IF 1 <= m THEN m - 1 + 1 ELSE 0
        /\ \A k \in 1 .. m - 1 + 1 : u[k] = s[1 + k - 1]
    BY <2>1, SubSeqProperties
  <2> HIDE DEF u
  <2>3. CASE m = 0
    BY <2>2, <2>3
  <2>4. CASE m = 1
    BY <2>2, <2>4
  <2> QED
    BY <1>1, <2>3, <2>4
<1> HIDE DEF m, u
<1>3. /\ n \in Seq(ReadSet) /\ Len(n) = 1 + Len(u) /\ n[1] = r
      /\ Len(u) = 1 => n[2] = u[1]
  BY <1>0, <1>1, <1>2, ConcatProperties
<1>4. /\ n \in Seq(ReadSet) /\ n # << >> /\ n[1] = r
      /\ s = << >> => Len(n) = 1
      /\ s # << >> => Len(n) = 2 /\ n[2] = s[1]
  BY <1>1, <1>2, <1>3
<1> QED
  BY <1>4 DEF m, u

\* A process that ended after its open keeps the invariant: the list may be
\* wrong from now on, but every pid still has one node.
LEMMA ProcEndedStep ==
  ASSUME ProcInv, Processes!readProcEnded
  PROVE  ProcInv'
<1>1. PICK id \in Pids, t \in 0 .. MaxTicks : Processes!Show(id, t)
  BY DEF Processes!readProcEnded
<1>2. UNCHANGED <<proc, born, round, dir, reads>> /\ garbled' = TRUE /\ opened' = -1
  BY DEF Processes!readProcEnded, Processes!world, Processes!None
<1>3. lst_task' \in Seq(NodeSet) /\ NodesOnce'
  BY <1>1, ShowStep DEF ProcInv
<1>4. ProcTypes' /\ ReadInv'
  BY <1>2, <1>3, MonitorAssumptions DEF ProcInv, ProcTypes, ReadInv, Processes!ProcessAssumption
<1>5. LineInv' /\ Processes!UsageIsOwn'
  BY <1>2 DEF LineInv, Processes!UsageIsOwn
<1> QED
  BY <1>2, <1>3, <1>4, <1>5 DEF ProcInv

\* The line of a process: the difference to its last read over the rounds
\* since then.
LEMMA ProcReadStep ==
  ASSUME Processes!ProcessAssumption, ProcInv, Processes!readProc
  PROVE  ProcInv'
<1> DEFINE p == opened
           t == proc[p]
           r == [who |-> born[p], ticks |-> t]
<1>0. p \in Pids /\ t \in 0 .. MaxTicks /\ born[p] \in Nat /\ r \in ReadSet /\ round \in Nat
  BY DEF Processes!readProc, Processes!None, ProcInv, ProcTypes, ReadSet, Processes!ProcessAssumption
<1>1. /\ Processes!Show(p, t) /\ opened' = -1
      /\ UNCHANGED <<proc, born, round, dir, garbled>>
      /\ reads' = [reads EXCEPT ![p] = <<r>> \o SubSeq(reads[p], 1, Processes!Min({1, Len(reads[p])}))]
  BY DEF Processes!readProc, Processes!None, Processes!world
<1>2. /\ lst_task' \in Seq(NodeSet) /\ NodesOnce'
      /\ \A k \in 1 .. Len(lst_task) :
           k \in 1 .. Len(lst_task') /\ lst_task'[k].pid = lst_task[k].pid
      /\ \E k \in 1 .. Len(lst_task') : lst_task'[k].pid = p
      /\ \A k \in 1 .. Len(lst_task') :
           \/ lst_task'[k] = Processes!TimeInfo(p, t)
           \/ k \in 1 .. Len(lst_task) /\ lst_task'[k] = lst_task[k] /\ lst_task[k].pid # p
      /\ pline' = Processes!Line(p, t)
  <2>1. ProcTypes /\ NodesOnce
    BY DEF ProcInv
  <2> QED
    BY <1>0, <1>1, <2>1, ShowStep
<1>3. /\ reads \in [Pids -> Seq(ReadSet)] /\ reads[p] \in Seq(ReadSet)
      /\ reads' \in [Pids -> Seq(ReadSet)]
      /\ reads'[p] # << >> /\ reads'[p][1] = r
      /\ reads[p] = << >> => Len(reads'[p]) = 1
      /\ reads[p] # << >> => Len(reads'[p]) = 2 /\ reads'[p][2] = reads[p][1]
      /\ \A q \in Pids : q # p => reads'[q] = reads[q]
  <2>1. reads \in [Pids -> Seq(ReadSet)] /\ reads[p] \in Seq(ReadSet)
    BY <1>0 DEF ProcInv, ProcTypes
  <2> DEFINE n == <<r>> \o SubSeq(reads[p], 1, Processes!Min({1, Len(reads[p])}))
  <2>2. /\ n \in Seq(ReadSet) /\ n # << >> /\ n[1] = r
        /\ reads[p] = << >> => Len(n) = 1
        /\ reads[p] # << >> => Len(n) = 2 /\ n[2] = reads[p][1]
    BY <1>0, <2>1, ReadsPushed
  <2>3. reads' = [reads EXCEPT ![p] = n]
    BY <1>1
  <2> HIDE DEF n, r, t, p
  <2> QED
    BY <1>0, <2>1, <2>2, <2>3
<1>4. r.who = born[p] /\ r.ticks = t /\ pline'.pid = p
  BY <1>2 DEF Processes!Line
<1> HIDE DEF r, t
<1>5. ProcTypes'
  <2>1. opened' \in Pids \cup {-1} /\ opened' \notin dir'
    BY <1>1, <1>0 DEF ProcInv, ProcTypes, Processes!ProcessAssumption
  <2> QED
    BY <1>1, <1>2, <1>3, <2>1 DEF ProcInv, ProcTypes
<1>6. ReadInv'
  <2>1. ASSUME NEW q \in Pids, q # p, reads'[q] # << >>
        PROVE  /\ reads'[q][1].who <= born'[q]
               /\ reads'[q][1].who = born'[q] /\ proc'[q] # -1 => reads'[q][1].ticks <= proc'[q]
    BY <1>1, <1>3, <2>1 DEF ProcInv, ReadInv
  <2>2. /\ reads'[p][1].who <= born'[p]
        /\ reads'[p][1].who = born'[p] /\ proc'[p] # -1 => reads'[p][1].ticks <= proc'[p]
    BY <1>0, <1>1, <1>3, <1>4 DEF t
  <2> QED
    BY <2>1, <2>2 DEF ReadInv
<1>7. LineInv'
  BY <1>0, <1>1, <1>3, <1>4 DEF LineInv
<1>8. ASSUME ~garbled PROVE NodeInv'
  <2>1. ASSUME NEW q \in Pids, reads'[q] # << >>
        PROVE  \E k \in 1 .. Len(lst_task') : lst_task'[k].pid = q
    <3>1. CASE q = p
      BY <1>2, <3>1
    <3>2. CASE q # p
      <4>1. PICK k \in 1 .. Len(lst_task) : lst_task[k].pid = q
        BY <1>3, <1>8, <2>1, <3>2 DEF ProcInv, NodeInv
      <4> QED
        BY <1>2, <4>1
    <3> QED
      BY <3>1, <3>2
  <2>2. ASSUME NEW k \in 1 .. Len(lst_task')
        PROVE  LET q == lst_task'[k].pid IN
               /\ reads'[q] # << >> /\ lst_task'[k].ticks = reads'[q][1].ticks
               /\ lst_task'[k].last_time <= round'
               /\ q \in dir' \/ opened' = q => lst_task'[k].last_time < round'
    <3>1. CASE lst_task'[k] = Processes!TimeInfo(p, t)
      <4>1. lst_task'[k].pid = p /\ lst_task'[k].ticks = t /\ lst_task'[k].last_time = round
        BY <3>1 DEF Processes!TimeInfo
      <4>2. p \notin dir' /\ opened' # p
        BY <1>0, <1>1 DEF ProcInv, ProcTypes, Processes!ProcessAssumption
      <4> QED
        BY <1>0, <1>1, <1>3, <1>4, <4>1, <4>2
    <3>2. CASE k \in 1 .. Len(lst_task) /\ lst_task'[k] = lst_task[k] /\ lst_task[k].pid # p
      <4>1. lst_task[k] \in NodeSet
        BY <3>2 DEF ProcInv, ProcTypes
      <4>2. lst_task[k].pid \in Pids /\ opened' # lst_task[k].pid
        BY <1>1, <4>1 DEF NodeSet, Processes!ProcessAssumption
      <4> QED
        BY <1>1, <1>3, <1>8, <3>2, <4>2 DEF ProcInv, NodeInv
    <3> QED
      BY <1>2, <3>1, <3>2
  <2> QED
    BY <2>1, <2>2 DEF NodeInv
<1>9. Processes!UsageIsOwn'
  <2> SUFFICES ASSUME ~garbled
               PROVE  IF Len(reads'[p]) = 1 THEN pline'.used = 0
                      ELSE /\ pline'.ms > 0
                           /\ reads'[p][2].who = reads'[p][1].who
                                => pline'.used = reads'[p][1].ticks - reads'[p][2].ticks
    BY <1>1, <1>4 DEF Processes!UsageIsOwn
  <2>0. NodeInv /\ ProcTypes /\ NodesOnce
    BY DEF ProcInv
  <2>1. CASE reads[p] = << >>
    <3>1. \A k \in 1 .. Len(lst_task) : lst_task[k].pid # p
      BY <2>0, <2>1 DEF NodeInv
    <3>2. Processes!Node(p) = 0
      BY <2>0, <3>1, NodeFound
    <3> QED
      BY <1>2, <1>3, <2>1, <3>2 DEF Processes!Line
  <2>2. CASE reads[p] # << >>
    <3> DEFINE n == Processes!Node(p)
    <3>1. \E k \in 1 .. Len(lst_task) : lst_task[k].pid = p
      BY <1>0, <2>0, <2>2 DEF NodeInv
    <3>2. n \in 1 .. Len(lst_task) /\ lst_task[n].pid = p
      BY <2>0, <3>1, NodeFound
    <3>3. pline' = [pid |-> p, used |-> (t - lst_task[n].ticks) % Width, ms |-> round - lst_task[n].last_time]
      BY <1>2, <3>2 DEF Processes!Line
    <3> HIDE DEF n
    <3>4. /\ lst_task[n] \in NodeSet
          /\ lst_task[n].ticks = reads[p][1].ticks /\ lst_task[n].last_time < round
      BY <2>0, <3>2 DEF NodeInv, ProcTypes
    <3>5. pline'.ms > 0
      BY <1>0, <3>3, <3>4 DEF NodeSet
    <3>6. ASSUME reads[p][1].who = born[p]
          PROVE  pline'.used = t - reads[p][1].ticks
      <4>1. lst_task[n].ticks \in 0 .. MaxTicks /\ lst_task[n].ticks <= t
        BY <1>0, <2>2, <3>4, <3>6 DEF ProcInv, ReadInv, NodeSet, t
      <4>2. t - lst_task[n].ticks \in 0 .. Width - 1
        BY <1>0, <4>1 DEF Processes!ProcessAssumption
      <4>3. (t - lst_task[n].ticks) % Width = t - lst_task[n].ticks
        BY <4>2 DEF Processes!ProcessAssumption
      <4> QED
        BY <3>3, <3>4, <4>3
    <3> QED
      BY <1>3, <1>4, <2>2, <3>5, <3>6
  <2> QED
    BY <2>1, <2>2
<1> QED
  BY <1>1, <1>2, <1>5, <1>6, <1>7, <1>8, <1>9 DEF ProcInv

\* With one node for a pid, the pids of the nodes are as many as the nodes.
LEMMA NodesCounted ==
  ASSUME ProcInv
  PROVE  Processes!OneNodePerPid
<1> DEFINE S == {lst_task[k].pid : k \in DOMAIN lst_task}
           f == [k \in 1 .. Len(lst_task) |-> lst_task[k].pid]
<1>0. DOMAIN lst_task = 1 .. Len(lst_task) /\ Len(lst_task) \in Nat
  BY DEF ProcInv, ProcTypes
<1>1. f \in Bijection(1 .. Len(lst_task), S)
  <2>1. f \in [1 .. Len(lst_task) -> S]
    BY <1>0
  <2>2. \A j, k \in 1 .. Len(lst_task) : f[j] = f[k] => j = k
    BY DEF ProcInv, NodesOnce
  <2>3. \A p \in S : \E k \in 1 .. Len(lst_task) : f[k] = p
    BY <1>0
  <2> HIDE DEF f, S
  <2>4. f \in Injection(1 .. Len(lst_task), S)
    BY <2>1, <2>2 DEF Injection, IsInjective
  <2>5. f \in Surjection(1 .. Len(lst_task), S)
    BY <2>1, <2>3 DEF Surjection
  <2> QED
    BY <2>4, <2>5 DEF Bijection
<1>2. Len(lst_task) = Cardinality(S)
  <2> HIDE DEF f, S
  <2>2. ExistsBijection(1 .. Len(lst_task), S)
    BY <1>1 DEF ExistsBijection
  <2> QED
    BY <1>0, <2>2, FS_CountingElements
<1>3. ASSUME ~garbled PROVE S = {p \in Pids : reads[p] # << >>}
  <2>1. NodeInv
    BY <1>3 DEF ProcInv
  <2>2. \A k \in 1 .. Len(lst_task) : lst_task[k] \in NodeSet
    BY DEF ProcInv, ProcTypes
  <2>3. \A k \in 1 .. Len(lst_task) : lst_task[k].pid \in Pids
    BY <2>2 DEF NodeSet
  <2> QED
    BY <1>0, <2>1, <2>3 DEF NodeInv
<1>4. Processes!Cardinality(S) = Cardinality(S)
  <2> HIDE DEF S
  <2> QED
    BY Zenon DEF Processes!Cardinality, Cardinality, Processes!IsFiniteSet, IsFiniteSet
<1> QED
  BY <1>2, <1>3, <1>4 DEF Processes!OneNodePerPid

\* The invariant of the process monitor, for any number of processes, rounds
\* and pids that are used again.
LEMMA ProcInvariant ==
  SpecMonitors => []ProcInv
<1>1. InitMonitors => ProcInv
  <2> SUFFICES ASSUME InitMonitors PROVE ProcInv
    OBVIOUS
  <2>1. /\ proc = [p \in Pids |-> -1] /\ born = [p \in Pids |-> 0] /\ round = 0 /\ dir = {}
        /\ opened = -1 /\ lst_task = << >> /\ reads = [p \in Pids |-> << >>] /\ garbled = FALSE
        /\ pline = Processes!NoLine
    BY DEF InitMonitors, Processes!Init, Processes!None
  <2>2. Len(lst_task) = 0
    BY <2>1
  <2>3. ProcTypes
    <3>1. proc \in [Pids -> -1 .. MaxTicks]
      BY <2>1, MonitorAssumptions DEF Processes!ProcessAssumption
    <3>2. born \in [Pids -> Nat] /\ reads \in [Pids -> Seq(ReadSet)] /\ lst_task \in Seq(NodeSet)
      BY <2>1
    <3> QED
      BY <2>1, <3>1, <3>2 DEF ProcTypes
  <2>4. NodesOnce /\ ReadInv /\ NodeInv
    BY <2>1, <2>2 DEF NodesOnce, ReadInv, NodeInv
  <2>5. LineInv /\ Processes!UsageIsOwn
    BY <2>1 DEF LineInv, Processes!UsageIsOwn
  <2> QED
    BY <2>3, <2>4, <2>5 DEF ProcInv
<1>2. ProcInv /\ [NextMonitors]_<<program, vars, processes, sockets, version>> => ProcInv'
  <2> SUFFICES ASSUME ProcInv, [NextMonitors]_<<program, vars, processes, sockets, version>>
               PROVE  ProcInv'
    OBVIOUS
  <2>0. Processes!ProcessAssumption
    BY MonitorAssumptions
  <2>1. CASE processes' = processes
    <3>1. UNCHANGED <<proc, born, round, dir, opened, lst_task, pline, reads, garbled>>
      BY <2>1 DEF processes
    <3>2. ProcTypes' /\ ReadInv' /\ (~garbled' => NodeInv')
      BY <3>1 DEF ProcInv, ProcTypes, ReadInv, NodeInv
    <3> QED
      BY <3>1, <3>2, LineKept DEF ProcInv
  <2>2. CASE Processes!Next
    BY <2>0, <2>2, ProcWorldStep, ProcWalkStep, ProcReadStep, ProcEndedStep DEF Processes!Next
  <2> QED
    BY <2>1, <2>2 DEF NextMonitors
<1> QED
  BY <1>1, <1>2, PTL DEF SpecMonitors

-----------------------------------------------------------------------------
(* The socket monitor.                                                     *)

EntrySet == [inode : Sockets!Inodes, name : Procs]
Chain(ino) == prg_hash[Sockets!PRG_HASHIT(ino)]

SockTypes ==
  /\ fds \in [Sockets!Inodes -> SUBSET Procs] /\ stable \subseteq Sockets!Inodes
  /\ prg_cache_loaded \in 0 .. 2
  /\ prg_hash \in [0 .. PRG_HASH_SIZE - 1 -> Seq(EntrySet)]
  /\ pc \in {"idle", "load", "fd", "file", "lines", "crashed", "spins"}
  /\ at \in [proc : Nat, inode : Nat]

\* A chain has an inode once.
ChainsInv ==
  \A h \in 0 .. PRG_HASH_SIZE - 1 : \A j, k \in 1 .. Len(prg_hash[h]) :
    prg_hash[h][j].inode = prg_hash[h][k].inode => j = k

\* The table is loaded once, before the first line.
LoadInv ==
  /\ prg_cache_loaded = 0 => pc = "idle" /\ \A h \in 0 .. PRG_HASH_SIZE - 1 : prg_hash[h] = << >>
  /\ prg_cache_loaded = 0 \/ pc \in {"load", "fd"} => sline.inode = 0
  /\ pc = "fd" => at.proc \in Procs \ Unreadable

\* The load has been at the descriptor of a process for an inode.
Passed(p, ino) ==
  CASE pc = "load" -> p <= at.proc
    [] pc = "fd" -> p < at.proc \/ (p = at.proc /\ ino <= at.inode)
    [] OTHER -> TRUE
Looked(ino) == {p \in Sockets!Readable(ino) : Passed(p, ino)}

\* An inode that is stable is in its chain with the first of the processes
\* that the load has been at, once there is one.
TableInv ==
  prg_cache_loaded # 0 =>
    \A ino \in stable :
      /\ \A k \in 1 .. Len(Chain(ino)) : Chain(ino)[k].inode = ino =>
           Chain(ino)[k].name \in Looked(ino) /\ \A p \in Looked(ino) : Chain(ino)[k].name <= p
      /\ Looked(ino) # {} => \E k \in 1 .. Len(Chain(ino)) : Chain(ino)[k].inode = ino

SockInv == SockTypes /\ ChainsInv /\ LoadInv /\ TableInv /\ Sockets!OwnersAsLoaded

\* Min of the module is the least element.
LEMMA MinProperties ==
  ASSUME NEW S \in SUBSET Nat, S # {}
  PROVE  /\ Sockets!Min(S) \in S /\ \A y \in S : Sockets!Min(S) <= y
         /\ \A x \in S : (\A y \in S : x <= y) => x = Sockets!Min(S)
<1>1. \E x \in S : \A y \in S : x <= y
  BY SmallestElement
<1>2. Sockets!Min(S) \in S /\ \A y \in S : Sockets!Min(S) <= y
  BY <1>1 DEF Sockets!Min
<1>3. ASSUME NEW x \in S, \A y \in S : x <= y PROVE x = Sockets!Min(S)
  <2>1. x \in Nat /\ Sockets!Min(S) \in Nat
    BY <1>2
  <2>2. x <= Sockets!Min(S) /\ Sockets!Min(S) <= x
    BY <1>2, <1>3
  <2> QED
    BY <2>1, <2>2
<1> QED
  BY <1>2, <1>3

\* The chain of an inode is a chain of the table.
LEMMA ChainOf ==
  ASSUME Sockets!SocketAssumption, SockTypes, NEW ino \in Sockets!Inodes
  PROVE  /\ ino \in Nat \ {0} /\ Sockets!PRG_HASHIT(ino) \in 0 .. PRG_HASH_SIZE - 1
         /\ Chain(ino) \in Seq(EntrySet) /\ Len(Chain(ino)) \in Nat
<1>1. ino \in Nat \ {0} /\ PRG_HASH_SIZE \in Nat \ {0}
  BY DEF Sockets!SocketAssumption
<1>2. Sockets!PRG_HASHIT(ino) \in 0 .. PRG_HASH_SIZE - 1
  <2>1. \A a \in Nat, b \in Nat \ {0} : a % b \in 0 .. b - 1
    OBVIOUS
  <2> QED
    BY <1>1, <2>1 DEF Sockets!PRG_HASHIT
<1> QED
  BY <1>1, <1>2 DEF SockTypes, Chain

\* What prg_cache_get finds for an inode that the whole load has been at.
LEMMA GetFinds ==
  ASSUME Sockets!SocketAssumption, SockInv, prg_cache_loaded # 0, pc \notin {"load", "fd"},
         NEW ino \in stable
  PROVE  Sockets!prg_cache_get(ino) =
           IF Sockets!Readable(ino) = {} THEN Sockets!Nobody ELSE Sockets!Min(Sockets!Readable(ino))
<1> DEFINE found == {k \in DOMAIN Chain(ino) : Chain(ino)[k].inode = ino}
<1>0. ino \in Sockets!Inodes /\ SockTypes
  BY DEF SockInv, SockTypes
<1>1. /\ Chain(ino) \in Seq(EntrySet) /\ DOMAIN Chain(ino) = 1 .. Len(Chain(ino)) /\ Len(Chain(ino)) \in Nat
      /\ found \in SUBSET Nat
  BY <1>0, ChainOf
<1>2. Looked(ino) = Sockets!Readable(ino)
  BY DEF Looked, Passed
<1>3. Sockets!prg_cache_get(ino) =
        IF found = {} THEN Sockets!Nobody ELSE Chain(ino)[Sockets!Min(found)].name
  BY DEF Sockets!prg_cache_get, Chain
<1>4. /\ \A k \in 1 .. Len(Chain(ino)) : Chain(ino)[k].inode = ino =>
           Chain(ino)[k].name \in Looked(ino) /\ \A p \in Looked(ino) : Chain(ino)[k].name <= p
      /\ Looked(ino) # {} => \E k \in 1 .. Len(Chain(ino)) : Chain(ino)[k].inode = ino
  BY DEF SockInv, TableInv
<1>5. CASE found = {}
  <2>1. Looked(ino) = {}
    BY <1>1, <1>4, <1>5
  <2> QED
    BY <1>2, <1>3, <1>5, <2>1
<1>6. CASE found # {}
  <2>1. Sockets!Min(found) \in found
    BY <1>1, <1>6, MinProperties
  <2> DEFINE n == Chain(ino)[Sockets!Min(found)].name
  <2>2. n \in Looked(ino) /\ \A p \in Looked(ino) : n <= p
    BY <1>1, <1>4, <2>1
  <2>3. Looked(ino) \in SUBSET Nat
    BY <1>0 DEF Looked, Sockets!Readable, SockTypes, Sockets!SocketAssumption
  <2> HIDE DEF n
  <2>4. n = Sockets!Min(Looked(ino))
    BY <2>2, <2>3, MinProperties
  <2> QED
    BY <1>2, <1>3, <1>6, <2>2, <2>4 DEF n
<1> QED
  BY <1>5, <1>6

\* A step that leaves the table alone and has been at nothing else keeps what
\* the table says.
LEMMA TableKept ==
  ASSUME SockInv, prg_cache_loaded # 0, UNCHANGED prg_hash, stable' \subseteq stable,
         \A ino \in stable' : Looked(ino)' = Looked(ino)
  PROVE  TableInv' /\ ChainsInv'
<1>1. ChainsInv'
  BY DEF SockInv, ChainsInv
<1>2. \A ino : Chain(ino)' = Chain(ino)
  BY DEF Chain, Sockets!PRG_HASHIT
<1>3. ASSUME NEW ino \in stable'
      PROVE  /\ \A k \in 1 .. Len(Chain(ino)') : Chain(ino)'[k].inode = ino =>
                  Chain(ino)'[k].name \in Looked(ino)' /\ \A p \in Looked(ino)' : Chain(ino)'[k].name <= p
             /\ Looked(ino)' # {} => \E k \in 1 .. Len(Chain(ino)') : Chain(ino)'[k].inode = ino
  <2>1. ino \in stable /\ Looked(ino)' = Looked(ino) /\ Chain(ino)' = Chain(ino)
    BY <1>2, <1>3
  <2> QED
    BY <2>1 DEF SockInv, TableInv
<1> QED
  BY <1>1, <1>3 DEF TableInv

\* The line stays right while the stable inodes keep their processes.
LEMMA OwnersKept ==
  ASSUME SockInv, UNCHANGED sline, stable' \subseteq stable, \A n \in stable' : fds'[n] = fds[n]
  PROVE  Sockets!OwnersAsLoaded'
BY DEF SockInv, Sockets!OwnersAsLoaded, Sockets!Readable

\* A socket that changes after the load began is no longer stable.
LEMMA SockChangeStep ==
  ASSUME Sockets!SocketAssumption, SockInv, NEW ino \in Sockets!Inodes, NEW p \in Procs,
         Sockets!Change(ino, p)
  PROVE  SockInv'
<1>1. /\ fds' = [fds EXCEPT ![ino] = IF p \in @ THEN @ \ {p} ELSE @ \cup {p}]
      /\ stable' = stable \ (IF prg_cache_loaded = 0 THEN {} ELSE {ino})
      /\ UNCHANGED <<prg_cache_loaded, prg_hash, calls, pc, at, count, sline>>
  BY DEF Sockets!Change, Sockets!cache
<1>2. fds' \in [Sockets!Inodes -> SUBSET Procs] /\ \A n \in Sockets!Inodes : n # ino => fds'[n] = fds[n]
  BY <1>1 DEF SockInv, SockTypes
<1>3. SockTypes'
  BY <1>1, <1>2 DEF SockInv, SockTypes
<1>4. LoadInv'
  BY <1>1 DEF SockInv, LoadInv
<1>5. CASE prg_cache_loaded = 0
  <2>1. TableInv' /\ ChainsInv'
    BY <1>1, <1>5 DEF SockInv, TableInv, ChainsInv
  <2>2. sline'.inode = 0 /\ 0 \notin stable'
    BY <1>1, <1>3, <1>5 DEF SockInv, LoadInv, SockTypes, Sockets!SocketAssumption
  <2> QED
    BY <1>3, <1>4, <2>1, <2>2 DEF SockInv, Sockets!OwnersAsLoaded
<1>6. CASE prg_cache_loaded # 0
  <2>1. stable' \subseteq stable /\ \A n \in stable' : fds'[n] = fds[n]
    BY <1>1, <1>2, <1>6 DEF SockInv, SockTypes
  <2>2. \A n \in stable' : Looked(n)' = Looked(n)
    BY <1>1, <2>1 DEF Looked, Passed, Sockets!Readable
  <2> QED
    BY <1>1, <1>3, <1>4, <1>6, <2>1, <2>2, TableKept, OwnersKept DEF SockInv
<1> QED
  BY <1>5, <1>6

\* A step of the monitor that adds nothing to the table.
LEMMA SockQuietStep ==
  ASSUME SockInv, prg_cache_loaded # 0, UNCHANGED <<fds, prg_hash, prg_cache_loaded, stable>>,
         SockTypes', LoadInv', Sockets!OwnersAsLoaded',
         \A ino \in stable : Looked(ino)' = Looked(ino)
  PROVE  SockInv'
BY TableKept DEF SockInv

\* The first call begins the load, with a table that is empty.
LEMMA SockReadStep ==
  ASSUME Sockets!SocketAssumption, SockInv, NEW kind \in 0 .. 2, Sockets!readSocket(kind)
  PROVE  SockInv'
<1>1. /\ pc = "idle" /\ at' = [proc |-> 0, inode |-> 0]
      /\ pc' = IF prg_cache_loaded = 0 THEN "load" ELSE "file"
      /\ prg_cache_loaded' = IF prg_cache_loaded = 0 THEN 1 ELSE prg_cache_loaded
      /\ UNCHANGED <<fds, prg_hash, sline, stable>>
  BY DEF Sockets!readSocket
<1>2. SockTypes'
  BY <1>1 DEF SockInv, SockTypes
<1>3. Sockets!OwnersAsLoaded'
  BY <1>1, OwnersKept
<1>4. LoadInv'
  BY <1>1 DEF SockInv, LoadInv
<1>5. CASE prg_cache_loaded = 0
  <2>1. ChainsInv'
    BY <1>1 DEF SockInv, ChainsInv
  <2>2. ASSUME NEW ino \in stable PROVE Len(Chain(ino)') = 0 /\ Looked(ino)' = {}
    <3>1. ino \in Sockets!Inodes
      BY DEF SockInv, SockTypes
    <3>2. Chain(ino)' = Chain(ino)
      BY <1>1 DEF Chain, Sockets!PRG_HASHIT
    <3>3. Chain(ino) = << >>
      BY <1>5, <3>1, ChainOf DEF SockInv, LoadInv, Chain
    <3>4. \A p \in Sockets!Readable(ino)' : p \in Nat \ {0}
      BY <1>2, <3>1 DEF SockTypes, Sockets!Readable, Sockets!SocketAssumption
    <3>5. pc' = "load" /\ at'.proc = 0
      BY <1>1, <1>5
    <3>6. Looked(ino)' = {}
      BY <3>4, <3>5 DEF Looked, Passed
    <3> QED
      BY <3>2, <3>3, <3>6
  <2>3. TableInv'
    BY <1>1, <2>2 DEF TableInv
  <2> QED
    BY <1>2, <1>3, <1>4, <2>1, <2>3 DEF SockInv
<1>6. CASE prg_cache_loaded # 0
  <2>1. \A ino \in stable : Looked(ino)' = Looked(ino)
    BY <1>1, <1>6 DEF Looked, Passed, Sockets!Readable
  <2> QED
    BY <1>1, <1>2, <1>3, <1>4, <1>6, <2>1, SockQuietStep
<1> QED
  BY <1>5, <1>6

\* The next process of the load: none was left out, and nothing of it has
\* been looked at.
LEMMA SockProcStep ==
  ASSUME Sockets!SocketAssumption, SockInv, Sockets!NextProc
  PROVE  SockInv'
<1> DEFINE later == {p \in Procs : p > at.proc}
<1>1. pc = "load" /\ UNCHANGED <<fds, prg_cache_loaded, prg_hash, sline, stable>>
  BY DEF Sockets!NextProc, Sockets!cache
<1>2. prg_cache_loaded # 0 /\ sline.inode = 0 /\ at.proc \in Nat
  BY <1>1 DEF SockInv, LoadInv, SockTypes
<1>3. Sockets!OwnersAsLoaded'
  BY <1>1, OwnersKept
<1>4. \A ino \in stable : Sockets!Readable(ino)' = Sockets!Readable(ino) /\ Sockets!Readable(ino) \subseteq Procs \ Unreadable
  BY <1>1 DEF SockInv, SockTypes, Sockets!Readable
<1>5. CASE later = {}
  <2>1. pc' = "file" /\ at' = [proc |-> 0, inode |-> 0]
    BY <1>5 DEF Sockets!NextProc
  <2>2. SockTypes' /\ LoadInv'
    BY <1>1, <1>2, <2>1 DEF SockInv, SockTypes, LoadInv
  <2>3. ASSUME NEW ino \in stable PROVE Looked(ino)' = Looked(ino)
    <3>1. \A p \in Procs : p <= at.proc
      BY <1>2, <1>5 DEF Sockets!SocketAssumption
    <3> QED
      BY <1>1, <1>4, <2>1, <3>1 DEF Looked, Passed
  <2> QED
    BY <1>1, <1>2, <1>3, <2>2, <2>3, SockQuietStep
<1>6. CASE later # {}
  <2> DEFINE m == Sockets!Min(later)
  <2>1. m \in Procs /\ m > at.proc /\ \A p \in Procs : p > at.proc => m <= p
    <3>1. later \in SUBSET Nat
      BY DEF Sockets!SocketAssumption
    <3> HIDE DEF later
    <3>2. m \in later /\ \A p \in later : m <= p
      BY <1>6, <3>1, MinProperties
    <3> QED
      BY <3>2 DEF later
  <2>2. at' = [proc |-> m, inode |-> 0] /\ pc' = IF m \in Unreadable THEN "load" ELSE "fd"
    BY <1>6 DEF Sockets!NextProc
  <2> HIDE DEF m, later
  <2>3. SockTypes' /\ LoadInv'
    BY <1>1, <1>2, <2>1, <2>2 DEF SockInv, SockTypes, LoadInv, Sockets!SocketAssumption
  <2>4. ASSUME NEW ino \in stable PROVE Looked(ino)' = Looked(ino)
    <3>1. ino \in Nat \ {0} /\ \A p \in Procs : p \in Nat
      BY DEF SockInv, SockTypes, Sockets!SocketAssumption
    <3>2. \A p \in Sockets!Readable(ino) : Passed(p, ino)' <=> p <= at.proc
      <4>1. CASE m \in Unreadable
        <5>1. \A p \in Sockets!Readable(ino) : p # m /\ (Passed(p, ino)' <=> p <= m)
          BY <1>4, <2>2, <4>1 DEF Passed
        <5> QED
          BY <1>2, <1>4, <2>1, <3>1, <5>1
      <4>2. CASE m \notin Unreadable
        <5>1. \A p \in Sockets!Readable(ino) : Passed(p, ino)' <=> p < m
          BY <2>2, <3>1, <4>2 DEF Passed
        <5> QED
          BY <1>2, <1>4, <2>1, <3>1, <5>1
      <4> QED
        BY <4>1, <4>2
    <3>3. \A p \in Sockets!Readable(ino) : Passed(p, ino) <=> p <= at.proc
      BY <1>1 DEF Passed
    <3> QED
      BY <1>4, <3>2, <3>3 DEF Looked
  <2> QED
    BY <1>1, <1>2, <1>3, <2>3, <2>4, SockQuietStep
<1> QED
  BY <1>5, <1>6

\* The next descriptor of a process: its inode gets an entry unless a process
\* before has it.
LEMMA SockFdStep ==
  ASSUME Sockets!SocketAssumption, SockInv, Sockets!NextFd
  PROVE  SockInv'
<1> DEFINE q == at.proc
           later == {n \in Sockets!Inodes : n > at.inode /\ q \in fds[n]}
<1>1. pc = "fd" /\ UNCHANGED <<fds, sline, stable>>
  BY DEF Sockets!NextFd
<1>2. /\ prg_cache_loaded # 0 /\ sline.inode = 0 /\ q \in Procs \ Unreadable
      /\ at \in [proc : Nat, inode : Nat] /\ at.inode \in Nat /\ q \in Nat
  BY <1>1 DEF SockInv, LoadInv, SockTypes
<1>3. Sockets!OwnersAsLoaded'
  BY <1>1, OwnersKept
<1>4. \A n \in Sockets!Inodes : n \in Nat \ {0} /\ Sockets!Readable(n)' = Sockets!Readable(n)
                                /\ Sockets!Readable(n) \subseteq Nat
  BY <1>1 DEF SockInv, SockTypes, Sockets!Readable, Sockets!SocketAssumption
<1>5. stable \subseteq Sockets!Inodes
  BY DEF SockInv, SockTypes
<1>6. CASE later = {}
  <2>1. pc' = "load" /\ UNCHANGED <<at, prg_cache_loaded, prg_hash>>
    BY <1>6 DEF Sockets!NextFd, Sockets!cache
  <2>2. SockTypes' /\ LoadInv'
    BY <1>1, <1>2, <2>1 DEF SockInv, SockTypes, LoadInv
  <2>3. ASSUME NEW ino \in stable PROVE Looked(ino)' = Looked(ino)
    <3>1. \A p \in Sockets!Readable(ino) : p = q => ino <= at.inode
      BY <1>2, <1>4, <1>5, <1>6 DEF Sockets!Readable
    <3>2. \A p \in Sockets!Readable(ino) : Passed(p, ino)' <=> p <= q
      BY <2>1 DEF Passed
    <3>3. \A p \in Sockets!Readable(ino) : Passed(p, ino) <=> p < q \/ (p = q /\ ino <= at.inode)
      BY <1>1 DEF Passed
    <3>4. \A p \in Sockets!Readable(ino) : Passed(p, ino)' <=> Passed(p, ino)
      BY <1>2, <1>4, <1>5, <3>1, <3>2, <3>3
    <3> QED
      BY <1>4, <1>5, <3>4 DEF Looked
  <2> QED
    BY <1>1, <1>2, <1>3, <2>1, <2>2, <2>3, SockQuietStep
<1>7. CASE later # {}
  <2> DEFINE m == Sockets!Min(later)
  <2>1. m \in Sockets!Inodes /\ m > at.inode /\ q \in fds[m] /\ \A n \in Sockets!Inodes : n > at.inode /\ q \in fds[n] => m <= n
    <3>1. later \in SUBSET Nat
      BY DEF Sockets!SocketAssumption
    <3> HIDE DEF later
    <3>2. m \in later /\ \A n \in later : m <= n
      BY <1>7, <3>1, MinProperties
    <3> HIDE DEF m
    <3> QED
      BY <3>2 DEF later
  <2>2. /\ Sockets!prg_cache_add(m, q) /\ prg_cache_loaded' = 2
        /\ at' = [at EXCEPT !.inode = m] /\ pc' = "fd"
    BY <1>1, <1>7 DEF Sockets!NextFd
  <2> HIDE DEF m, later
  <2>3. at' \in [proc : Nat, inode : Nat] /\ at'.proc = q /\ at'.inode = m
    BY <1>2, <1>4, <2>1, <2>2
  <2>4. ASSUME NEW ino \in stable
        PROVE  Looked(ino)' = IF ino = m THEN Looked(ino) \cup {q} ELSE Looked(ino)
    <3>0. ino \in Sockets!Inodes /\ ino \in Nat /\ m \in Nat /\ Sockets!Readable(ino) \subseteq Nat
      BY <1>4, <1>5, <2>1
    <3>1. \A p \in Sockets!Readable(ino) : Passed(p, ino)' <=> p < q \/ (p = q /\ ino <= m)
      BY <2>2, <2>3 DEF Passed
    <3>2. \A p \in Sockets!Readable(ino) : Passed(p, ino) <=> p < q \/ (p = q /\ ino <= at.inode)
      BY <1>1 DEF Passed
    <3>3. q \in Sockets!Readable(ino) => ino <= at.inode \/ m <= ino
      BY <1>2, <2>1, <3>0 DEF Sockets!Readable
    <3>4. \A p \in Sockets!Readable(ino) : Passed(p, ino)' <=> Passed(p, ino) \/ (p = q /\ ino = m)
      BY <1>2, <2>1, <3>0, <3>1, <3>2, <3>3
    <3>5. Looked(ino)' = {p \in Sockets!Readable(ino) : Passed(p, ino) \/ (p = q /\ ino = m)}
      BY <1>4, <3>0, <3>4 DEF Looked
    <3>6. ino = m => q \in Sockets!Readable(ino)
      BY <1>2, <2>1 DEF Sockets!Readable
    <3> HIDE DEF q
    <3> QED
      BY <3>5, <3>6 DEF Looked
  <2>5. ASSUME m \in stable PROVE \A p \in Looked(m) : p < q
    <3>1. m \in Nat /\ \A p \in Sockets!Readable(m) : Passed(p, m) <=> p < q \/ (p = q /\ m <= at.inode)
      BY <1>1, <1>4, <2>1 DEF Passed
    <3> QED
      BY <1>2, <2>1, <3>1 DEF Looked
  <2>6. LoadInv'
    BY <1>1, <1>2, <2>2, <2>3 DEF SockInv, LoadInv
  <2> DEFINE h == Sockets!PRG_HASHIT(m)
  <2>7. /\ h \in 0 .. PRG_HASH_SIZE - 1 /\ Chain(m) = prg_hash[h] /\ prg_hash[h] \in Seq(EntrySet)
        /\ DOMAIN prg_hash[h] = 1 .. Len(prg_hash[h]) /\ Len(prg_hash[h]) \in Nat
    BY <2>1, ChainOf DEF SockInv, Chain
  <2>8. CASE \E k \in 1 .. Len(prg_hash[h]) : prg_hash[h][k].inode = m
    <3>1. prg_hash' = prg_hash
      BY <2>2, <2>7, <2>8 DEF Sockets!prg_cache_add
    <3>2. SockTypes' /\ ChainsInv'
      BY <1>1, <2>2, <2>3, <3>1 DEF SockInv, SockTypes, ChainsInv
    <3>3. TableInv'
      <4> SUFFICES ASSUME NEW ino \in stable
                   PROVE  /\ \A k \in 1 .. Len(Chain(ino)) : Chain(ino)[k].inode = ino =>
                               /\ Chain(ino)[k].name \in Looked(ino)'
                               /\ \A p \in Looked(ino)' : Chain(ino)[k].name <= p
                          /\ Looked(ino)' # {} => \E k \in 1 .. Len(Chain(ino)) : Chain(ino)[k].inode = ino
        BY <1>1, <3>1 DEF TableInv, Chain, Sockets!PRG_HASHIT
      <4>1. /\ \A k \in 1 .. Len(Chain(ino)) : Chain(ino)[k].inode = ino =>
                 Chain(ino)[k].name \in Looked(ino) /\ \A p \in Looked(ino) : Chain(ino)[k].name <= p
            /\ Looked(ino) # {} => \E k \in 1 .. Len(Chain(ino)) : Chain(ino)[k].inode = ino
        BY <1>2 DEF SockInv, TableInv
      <4>2. CASE ino # m
        BY <2>4, <4>1, <4>2
      <4>3. CASE ino = m
        <5>1. Looked(ino)' = Looked(ino) \cup {q} /\ \A p \in Looked(ino) : p < q
          BY <2>4, <2>5, <4>3
        <5>2. \E k \in 1 .. Len(Chain(ino)) : Chain(ino)[k].inode = ino
          BY <2>7, <2>8, <4>3
        <5>3. ASSUME NEW k \in 1 .. Len(Chain(ino)), Chain(ino)[k].inode = ino
              PROVE  Chain(ino)[k].name \in Looked(ino)' /\ \A p \in Looked(ino)' : Chain(ino)[k].name <= p
          <6>1. Chain(ino)[k].name \in Looked(ino) /\ \A p \in Looked(ino) : Chain(ino)[k].name <= p
            BY <4>1, <5>3
          <6>2. Chain(ino)[k].name < q /\ Chain(ino)[k].name \in Nat
            BY <1>4, <2>1, <4>3, <5>1, <6>1 DEF Looked
          <6> QED
            BY <1>2, <5>1, <6>1, <6>2
        <5> QED
          BY <5>2, <5>3
      <4> QED
        BY <4>2, <4>3
    <3> QED
      BY <1>3, <2>6, <3>2, <3>3 DEF SockInv
  <2>9. CASE ~\E k \in 1 .. Len(prg_hash[h]) : prg_hash[h][k].inode = m
    <3> DEFINE e == Sockets!Entry(m, q)
               c == Append(prg_hash[h], e)
    <3>1. prg_hash' = [prg_hash EXCEPT ![h] = c]
      BY <2>2, <2>7, <2>9 DEF Sockets!prg_cache_add
    <3>2. e \in EntrySet /\ e.inode = m /\ e.name = q
      BY <1>2, <2>1 DEF Sockets!Entry, EntrySet
    <3>3. /\ c \in Seq(EntrySet) /\ Len(c) = Len(prg_hash[h]) + 1 /\ c[Len(prg_hash[h]) + 1] = e
          /\ \A k \in 1 .. Len(prg_hash[h]) : c[k] = prg_hash[h][k]
      BY <2>7, <3>2, AppendProperties
    <3> HIDE DEF h, e, c
    <3>4. /\ prg_hash' \in [0 .. PRG_HASH_SIZE - 1 -> Seq(EntrySet)] /\ prg_hash'[h] = c
          /\ \A g \in 0 .. PRG_HASH_SIZE - 1 : g # h => prg_hash'[g] = prg_hash[g]
      BY <2>7, <3>1, <3>3 DEF SockInv, SockTypes
    <3>5. SockTypes'
      BY <1>1, <2>2, <2>3, <3>4 DEF SockInv, SockTypes
    <3>6. ChainsInv'
      <4>1. ASSUME NEW j \in 1 .. Len(c), NEW k \in 1 .. Len(c), c[j].inode = c[k].inode, j < k PROVE FALSE
        <5>1. j \in 1 .. Len(prg_hash[h]) /\ c[j] = prg_hash[h][j]
          BY <2>7, <3>3, <4>1
        <5>2. CASE k \in 1 .. Len(prg_hash[h])
          BY <2>7, <3>3, <4>1, <5>1, <5>2 DEF SockInv, ChainsInv
        <5>3. CASE k = Len(prg_hash[h]) + 1
          <6>1. prg_hash[h][j].inode = m
            BY <3>2, <3>3, <4>1, <5>1, <5>3
          <6> QED
            BY <2>9, <5>1, <6>1 DEF h
        <5> QED
          BY <2>7, <3>3, <5>2, <5>3
      <4>2. ASSUME NEW j \in 1 .. Len(c), NEW k \in 1 .. Len(c), c[j].inode = c[k].inode PROVE j = k
        <5>1. ~(j < k) /\ ~(k < j)
          BY <4>1, <4>2
        <5> QED
          BY <5>1
      <4> QED
        BY <3>4, <4>2 DEF SockInv, ChainsInv
    <3>7. TableInv'
      <4> SUFFICES ASSUME NEW ino \in stable
                   PROVE  /\ \A k \in 1 .. Len(Chain(ino)') : Chain(ino)'[k].inode = ino =>
                               /\ Chain(ino)'[k].name \in Looked(ino)'
                               /\ \A p \in Looked(ino)' : Chain(ino)'[k].name <= p
                          /\ Looked(ino)' # {} => \E k \in 1 .. Len(Chain(ino)') : Chain(ino)'[k].inode = ino
        BY <1>1 DEF TableInv
      <4>1. /\ \A k \in 1 .. Len(Chain(ino)) : Chain(ino)[k].inode = ino =>
                 Chain(ino)[k].name \in Looked(ino) /\ \A p \in Looked(ino) : Chain(ino)[k].name <= p
            /\ Looked(ino) # {} => \E k \in 1 .. Len(Chain(ino)) : Chain(ino)[k].inode = ino
        BY <1>2 DEF SockInv, TableInv
      <4>2. /\ Sockets!PRG_HASHIT(ino) \in 0 .. PRG_HASH_SIZE - 1
            /\ Chain(ino)' = prg_hash'[Sockets!PRG_HASHIT(ino)] /\ Chain(ino) = prg_hash[Sockets!PRG_HASHIT(ino)]
        BY <1>5, ChainOf DEF SockInv, Chain, Sockets!PRG_HASHIT
      <4>3. CASE Sockets!PRG_HASHIT(ino) # h
        <5>1. Chain(ino)' = Chain(ino) /\ ino # m
          BY <3>4, <4>2, <4>3 DEF h
        <5> QED
          BY <2>4, <4>1, <5>1
      <4>4. CASE Sockets!PRG_HASHIT(ino) = h
        <5>1. Chain(ino)' = c /\ Chain(ino) = prg_hash[h]
          BY <3>4, <4>2, <4>4
        <5>2. \A k \in 1 .. Len(c) : k \in 1 .. Len(prg_hash[h]) \/ k = Len(prg_hash[h]) + 1
          BY <2>7, <3>3
        <5>3. \A k \in 1 .. Len(prg_hash[h]) : k \in 1 .. Len(c)
          BY <2>7, <3>3
        <5>4. CASE ino # m
          <6>1. Looked(ino)' = Looked(ino)
            BY <2>4, <5>4
          <6>2. \A k \in 1 .. Len(c) : c[k].inode = ino => k \in 1 .. Len(prg_hash[h])
            BY <3>2, <3>3, <5>2, <5>4
          <6> QED
            BY <3>3, <4>1, <5>1, <5>3, <6>1, <6>2
        <5>5. CASE ino = m
          <6>1. Looked(ino) = {}
            BY <2>9, <4>1, <5>1, <5>5
          <6>2. Looked(ino)' = {q}
            BY <2>4, <5>5, <6>1
          <6>3. \A k \in 1 .. Len(c) : c[k].inode = m => k = Len(prg_hash[h]) + 1
            BY <2>9, <3>3, <5>2
          <6>4. Len(prg_hash[h]) + 1 \in 1 .. Len(c)
            BY <2>7, <3>3
          <6> QED
            BY <1>2, <3>2, <3>3, <5>1, <5>5, <6>2, <6>3, <6>4
        <5> QED
          BY <5>4, <5>5
      <4> QED
        BY <4>3, <4>4
    <3> QED
      BY <1>3, <2>6, <3>5, <3>6, <3>7 DEF SockInv
  <2> QED
    BY <2>8, <2>9
<1> QED
  BY <1>6, <1>7

\* A line of the table shows what prg_cache_get finds.
LEMMA SockTableStep ==
  ASSUME Sockets!SocketAssumption, SockInv,
         Sockets!ReadHeader \/ Sockets!ReadLine \/ Sockets!ReadClosed
  PROVE  SockInv'
<1>1. /\ pc \in {"file", "lines"} /\ UNCHANGED <<fds, prg_cache_loaded, prg_hash, stable>>
      /\ pc' \in {"idle", "file", "lines", "crashed", "spins"}
  BY DEF Sockets!ReadHeader, Sockets!ReadLine, Sockets!ReadClosed, Sockets!cache
<1>2. prg_cache_loaded # 0
  BY <1>1 DEF SockInv, LoadInv
<1>3. \A ino \in stable : Looked(ino)' = Looked(ino)
  BY <1>1 DEF Looked, Passed, Sockets!Readable
<1>4. LoadInv'
  BY <1>1, <1>2 DEF SockInv, LoadInv
<1>5. CASE Sockets!ReadHeader \/ Sockets!ReadClosed
  <2>1. at' \in [proc : Nat, inode : Nat]
    BY <1>5 DEF Sockets!ReadHeader, Sockets!ReadClosed, SockInv, SockTypes
  <2>2. SockTypes'
    BY <1>1, <2>1 DEF SockInv, SockTypes
  <2>3. sline' = sline \/ sline'.inode = 0
    BY <1>5 DEF Sockets!ReadHeader, Sockets!ReadClosed
  <2>4. 0 \notin stable'
    BY <2>2 DEF SockTypes, Sockets!SocketAssumption
  <2>5. Sockets!OwnersAsLoaded'
    BY <1>1, <2>3, <2>4, OwnersKept DEF Sockets!OwnersAsLoaded
  <2> QED
    BY <1>1, <1>2, <1>3, <1>4, <2>2, <2>5, SockQuietStep
<1>6. CASE Sockets!ReadLine
  <2> DEFINE later == {n \in Sockets!OfKind(Head(calls.todo)) : n > at.inode /\ fds[n] # {}}
  <2>1. CASE later = {}
    <3>1. UNCHANGED <<at, sline>>
      BY <1>6, <2>1 DEF Sockets!ReadLine
    <3>2. SockTypes'
      BY <1>1, <3>1 DEF SockInv, SockTypes
    <3> QED
      BY <1>1, <1>2, <1>3, <1>4, <3>1, <3>2, OwnersKept, SockQuietStep
  <2>2. CASE later # {}
    <3>1. later \in SUBSET Nat
      BY DEF Sockets!OfKind, Sockets!SocketAssumption, Sockets!Inodes
    <3>2. PICK m \in Nat : m = Sockets!Min(later)
      <4> HIDE DEF later
      <4> QED
        BY <2>2, <3>1, MinProperties
    <3>3. sline' = [inode |-> m, name |-> Sockets!prg_cache_get(m)] /\ at' = [at EXCEPT !.inode = m]
      BY <1>6, <2>2, <3>2 DEF Sockets!ReadLine
    <3> HIDE DEF later
    <3>4. SockTypes'
      BY <1>1, <3>3 DEF SockInv, SockTypes
    <3>5. Sockets!OwnersAsLoaded'
      <4> SUFFICES ASSUME m \in stable
                   PROVE  sline'.name = IF Sockets!Readable(m)' = {} THEN Sockets!Nobody
                                        ELSE Sockets!Min(Sockets!Readable(m)')
        <5>1. sline'.inode = m /\ stable' = stable
          BY <1>1, <3>3
        <5> QED
          BY <5>1 DEF Sockets!OwnersAsLoaded, Sockets!Nobody, Sockets!Min
      <4>1. Sockets!Readable(m)' = Sockets!Readable(m)
        BY <1>1 DEF Sockets!Readable
      <4>2. Sockets!prg_cache_get(m) =
              IF Sockets!Readable(m) = {} THEN Sockets!Nobody ELSE Sockets!Min(Sockets!Readable(m))
        BY <1>1, <1>2, GetFinds
      <4> QED
        BY <3>3, <4>1, <4>2
    <3> QED
      BY <1>1, <1>2, <1>3, <1>4, <3>4, <3>5, SockQuietStep
  <2> QED
    BY <2>1, <2>2
<1> QED
  BY <1>5, <1>6

\* The invariant of the socket monitor, for any number of processes and
\* sockets and any size of the hash table.
LEMMA SockInvariant ==
  SpecMonitors => []SockInv
<1>1. InitMonitors => SockInv
  <2> SUFFICES ASSUME InitMonitors PROVE SockInv
    OBVIOUS
  <2>0. Sockets!SocketAssumption
    BY MonitorAssumptions
  <2>1. /\ fds \in [Sockets!Inodes -> {{}} \cup {{p} : p \in Procs}]
        /\ prg_cache_loaded = 0 /\ prg_hash = [h \in 0 .. PRG_HASH_SIZE - 1 |-> << >>]
        /\ pc = "idle" /\ at = [proc |-> 0, inode |-> 0] /\ sline.inode = 0
        /\ stable = Sockets!Inodes
    BY DEF InitMonitors, Sockets!Init, Sockets!NoLine
  <2>2. fds \in [Sockets!Inodes -> SUBSET Procs]
    BY <2>1
  <2>3. SockTypes
    BY <2>1, <2>2 DEF SockTypes
  <2>4. ChainsInv /\ LoadInv /\ TableInv
    BY <2>1 DEF ChainsInv, LoadInv, TableInv
  <2>5. Sockets!OwnersAsLoaded
    BY <2>0, <2>1 DEF Sockets!OwnersAsLoaded, Sockets!SocketAssumption
  <2> QED
    BY <2>3, <2>4, <2>5 DEF SockInv
<1>2. SockInv /\ [NextMonitors]_<<program, vars, processes, sockets, version>> => SockInv'
  <2> SUFFICES ASSUME SockInv, [NextMonitors]_<<program, vars, processes, sockets, version>>
               PROVE  SockInv'
    OBVIOUS
  <2>0. Sockets!SocketAssumption
    BY MonitorAssumptions
  <2>1. CASE sockets' = sockets
    <3>1. UNCHANGED <<fds, changes, prg_cache_loaded, prg_hash, calls, pc, at, count, sline, stable>>
      BY <2>1 DEF sockets
    <3>2. SockTypes' /\ LoadInv' /\ ChainsInv'
      BY <3>1 DEF SockInv, SockTypes, LoadInv, ChainsInv
    <3>3. TableInv'
      BY <3>1 DEF SockInv, TableInv, Chain, Looked, Passed, Sockets!PRG_HASHIT, Sockets!Readable
    <3>4. Sockets!OwnersAsLoaded'
      BY <3>1, OwnersKept
    <3> QED
      BY <3>2, <3>3, <3>4 DEF SockInv
  <2>2. CASE Sockets!Next
    BY <2>0, <2>2, SockChangeStep, SockReadStep, SockProcStep, SockFdStep, SockTableStep DEF Sockets!Next
  <2> QED
    BY <2>1, <2>2 DEF NextMonitors
<1> QED
  BY <1>1, <1>2, PTL DEF SpecMonitors

\* What readProc and readSocket show is their own, for any number of
\* processes, sockets and rounds, and whatever starts, ends and changes
\* between two looks at /proc (ShowsItsOwn): the usage of a process is the
\* difference of its own reads, one node is kept for a pid, and a socket that
\* kept its processes is shown with the first one that may be read.
THEOREM MonitorsShowTheirOwn ==
  SpecMonitors => []ShowsItsOwn
<1>1. ProcInv /\ SockInv => ShowsItsOwn
  BY NodesCounted DEF ProcInv, SockInv, ShowsItsOwn, Processes!SamplesKept
<1> QED
  BY <1>1, ProcInvariant, SockInvariant, PTL
=============================================================================
