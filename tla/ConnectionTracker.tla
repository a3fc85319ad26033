-------------------------- MODULE ConnectionTracker --------------------------
(***************************************************************************)
(* Qt/libpcap: one capture thread per network interface keeps two shared   *)
(* vectors of TCP connections, wait_queue (a SYN was seen) and             *)
(* connected_queue (a SYN,ACK was seen); a print thread drops what has     *)
(* waited for longer than TIMEOUT and prints both.  No lock is taken.      *)
(*                                                                         *)
(* A search, a push_back, an erase, a size() and an at() of a vector are   *)
(* one step each.  An iterator is the position it was made for and the     *)
(* capacity at that time: a push_back that reallocates leaves it dangling, *)
(* and using it then, or past the end, is undefined.                       *)
(* An end point is an address with a port.  Times are kept as ages, since  *)
(* the code only looks at their difference to time(0); they saturate at    *)
(* TIMEOUT + 1, and in connected_queue, where nobody reads them, stay 0.   *)
(* A local that is out of scope has a fixed value.                         *)
(***************************************************************************)
EXTENDS Vectors, FiniteSets

CONSTANTS
  Devices,    \* the interfaces, one capture thread each
  Conns,      \* the <<source, destination>> of the packets on the network
  Packets,    \* the packets, each a connection and a set of flag names
  TIMEOUT     \* utils.h

Printer == "print_state"
Back(c) == <<c[2], c[1]>>

ASSUME TrackerAssumption ==
  /\ TIMEOUT \in Nat /\ IsFiniteSet(Devices)
  /\ \A c \in Conns : c = <<c[1], c[2]>> /\ Back(c) \in Conns
  /\ \A p \in Packets : p[1] \in Conns
  /\ Printer \notin Devices

Threads == Devices \cup {Printer}
Queues == {"wait", "connected"}
Ages == 0 .. TIMEOUT + 1

\* struct address; operator== compares the connection only.
Address == [conn : Conns, age : Ages]

\* A call of element_push or element_remove.
Call == [op : {"push", "remove"}, q : Queues, conn : Conns]
Push(qu, c) == [op |-> "push", q |-> qu, conn |-> c]
Remove(qu, c) == [op |-> "remove", q |-> qu, conn |-> c]

Iterator == [pos : Nat, cap : Nat]
NoIterator == [pos |-> 0, cap |-> 0]
NoConn == << >>

VARIABLES
  queue,      \* wait_queue and connected_queue
  cap,        \* their capacities
  dev,        \* a capture thread: "new", in pcap_loop, or "end"
  todo,       \* the calls got_packet of a capture thread has still to make
  age,        \* the age of the element a capture thread is about to push
  it,         \* the iterator a thread got from std::find
  ppc, i,     \* control and index of the print thread
  inst,       \* the connection of instance in check_timeout
  shown,      \* the queue print_queue is printing
  outcome,    \* "running", "complete", "terminated" by an exception, "corrupted"
  stale,      \* history: threads whose queue was changed since they looked at it
  raced,      \* history: queues used after such a change
  open        \* history: connections by the packets received so far

vars == <<queue, cap, dev, todo, age, it, ppc, i, inst, shown, outcome,
          stale, raced, open>>
printer == <<ppc, i, inst, shown>>

\* Positions of a connection in a queue, and what std::find returns for it.
At(q, c) == {k \in DOMAIN queue[q] : queue[q][k].conn = c}
Find(q, c) == FirstIndex(queue[q], At(q, c))
IteratorAt(q, k) == [pos |-> k, cap |-> cap[q]]

Init ==
  /\ queue = [q \in Queues |-> << >>]
  /\ cap = [q \in Queues |-> 0]
  /\ dev = [d \in Devices |-> "new"]
  /\ todo = [d \in Devices |-> << >>]
  /\ age = [d \in Devices |-> 0]
  /\ it = [t \in Threads |-> NoIterator]
  /\ ppc = "sleep" /\ i = 1 /\ inst = NoConn /\ shown = "wait"
  /\ outcome = "running"
  /\ stale = {} /\ raced = {} /\ open = {}

-----------------------------------------------------------------------------
(* Changes of a vector, and who is in the middle of using it.              *)

Using(t, q) ==
  \/ t \in Devices /\ todo[t] # << >> /\ it[t] # NoIterator /\ Head(todo[t]).q = q
  \/ t = Printer /\ ppc \in {"at", "find", "erase"} /\ q = "wait"
  \/ t = Printer /\ ppc = "show" /\ q = shown

\* t changes q, on the ground of what it saw before.
Changes(t, q) ==
  /\ stale' = (stale \ {t}) \cup {u \in Threads \ {t} : Using(u, q)}
  /\ raced' = raced \cup (IF t \in stale THEN {q} ELSE {})

PushBack(q, e) ==
  /\ queue' = [queue EXCEPT ![q] = Append(@, e)]
  /\ cap' = [cap EXCEPT ![q] = IF Len(queue[q]) < @ THEN @
                               ELSE IF @ = 0 THEN 1 ELSE 2 * @]
  /\ UNCHANGED outcome

Erase(q, iter) ==
  /\ IF iter.cap = cap[q] /\ iter.pos <= Len(queue[q])
       THEN /\ queue' = [queue EXCEPT ![q] = RemoveIndex(@, iter.pos)]
            /\ UNCHANGED outcome
       ELSE outcome' = "corrupted" /\ UNCHANGED queue
  /\ UNCHANGED cap

-----------------------------------------------------------------------------
(* Capture threads.                                                        *)

\* filt_inferface: "lo", and any device that pcap cannot open or filter, ends
\* the thread; pcap_loop ends only by an error.
FiltInterface(d) ==
  /\ \/ dev[d] = "new" /\ dev' = [dev EXCEPT ![d] = "loop"]
     \/ dev[d] = "new" /\ dev' = [dev EXCEPT ![d] = "end"]
     \/ dev[d] = "loop" /\ todo[d] = << >> /\ dev' = [dev EXCEPT ![d] = "end"]
  /\ UNCHANGED <<queue, cap, todo, age, it, printer, outcome, stale, raced, open>>

\* Slip: FIN and RST remove the direction of the packet only.
CallsOneWay(c, F) ==
  (CASE F = {"SYN"} -> <<Push("wait", c)>>
     [] F = {"SYN", "ACK"} -> <<Remove("wait", Back(c)), Push("connected", c)>>
     [] OTHER -> << >>)
  \o (IF F \cap {"FIN", "RST"} # {} THEN <<Remove("connected", c)>> ELSE << >>)

\* The calls got_packet makes for a packet: the switch compares the whole flag
\* byte, the test for FIN and RST looks at two bits.
Calls(c, F) ==
  (CASE F = {"SYN"} -> <<Push("wait", c)>>
     [] F = {"SYN", "ACK"} -> <<Remove("wait", Back(c)), Push("connected", c)>>
     [] OTHER -> << >>)
  \o (IF F \cap {"FIN", "RST"} # {}
        THEN <<Remove("connected", c), Remove("connected", Back(c))>> ELSE << >>)

GotPacket(d, c, F) ==
  /\ dev[d] = "loop" /\ todo[d] = << >>
  /\ todo' = [todo EXCEPT ![d] = Calls(c, F)]
  /\ open' = IF F = {"SYN", "ACK"} THEN open \cup {c}
             ELSE IF F \cap {"FIN", "RST"} # {} THEN open \ {c, Back(c)}
             ELSE open
  /\ UNCHANGED <<queue, cap, dev, age, it, printer, outcome, stale, raced>>

\* Slip: the iterator is not compared with end().
SearchUnchecked(d) ==
  /\ todo[d] # << >> /\ it[d] = NoIterator
  /\ LET call == Head(todo[d])
         k == Find(call.q, call.conn)
     IN  IF call.op = "push" /\ k <= Len(queue[call.q])
           THEN todo' = [todo EXCEPT ![d] = Tail(@)] /\ UNCHANGED it
           ELSE it' = [it EXCEPT ![d] = IteratorAt(call.q, k)] /\ UNCHANGED todo
  /\ stale' = stale \ {d}
  /\ UNCHANGED <<queue, cap, dev, age, printer, outcome, raced, open>>

\* Slip: element_push adds without a look for the connection.
SearchForced(d) ==
  /\ todo[d] # << >> /\ it[d] = NoIterator
  /\ LET call == Head(todo[d])
         k == Find(call.q, call.conn)
     IN  IF call.op = "remove" /\ k > Len(queue[call.q])
           THEN todo' = [todo EXCEPT ![d] = Tail(@)] /\ UNCHANGED it
           ELSE it' = [it EXCEPT ![d] = IteratorAt(call.q, k)] /\ UNCHANGED todo
  /\ stale' = stale \ {d}
  /\ UNCHANGED <<queue, cap, dev, age, printer, outcome, raced, open>>

\* element_create and the std::find of element_push or element_remove: push
\* goes on if the connection is not there, remove if it is.
Search(d) ==
  /\ todo[d] # << >> /\ it[d] = NoIterator
  /\ LET call == Head(todo[d])
         k == Find(call.q, call.conn)
         found == k <= Len(queue[call.q])
     IN  IF found <=> call.op = "push"
           THEN todo' = [todo EXCEPT ![d] = Tail(@)] /\ UNCHANGED it
           ELSE it' = [it EXCEPT ![d] = IteratorAt(call.q, k)] /\ UNCHANGED todo
  /\ stale' = stale \ {d}
  /\ UNCHANGED <<queue, cap, dev, age, printer, outcome, raced, open>>

\* push_back or erase.
Apply(d) ==
  /\ todo[d] # << >> /\ it[d] # NoIterator
  /\ LET call == Head(todo[d]) IN
       /\ IF call.op = "push"
            THEN PushBack(call.q, [conn |-> call.conn, age |-> age[d]])
            ELSE Erase(call.q, it[d])
       /\ Changes(d, call.q)
  /\ todo' = [todo EXCEPT ![d] = Tail(@)]
  /\ it' = [it EXCEPT ![d] = NoIterator]
  /\ age' = [age EXCEPT ![d] = 0]
  /\ UNCHANGED <<dev, printer, open>>

-----------------------------------------------------------------------------
(* The print thread.                                                       *)

\* Slip: the loop starts in front of the first element.
AwakeInFront ==
  /\ ppc = "sleep"
  /\ ppc' = "size" /\ i' = 0
  /\ UNCHANGED <<queue, cap, dev, todo, age, it, inst, shown, outcome,
                 stale, raced, open>>

\* usleep of print_state is over; check_timeout starts.
Awake ==
  /\ ppc = "sleep"
  /\ ppc' = "size" /\ i' = 1
  /\ UNCHANGED <<queue, cap, dev, todo, age, it, inst, shown, outcome,
                 stale, raced, open>>

\* check_timeout: i < temp->size().
Size ==
  /\ ppc = "size"
  /\ IF i <= Len(queue["wait"])
       THEN ppc' = "at" /\ UNCHANGED <<i, shown>>
       ELSE ppc' = "print" /\ i' = 1 /\ shown' = "wait"
  /\ stale' = stale \ {Printer}
  /\ UNCHANGED <<queue, cap, dev, todo, age, it, inst, outcome, raced, open>>

\* Slip: every connection counts as expired.
ExpiredAlways(e) == TRUE

\* Slip: no connection counts as expired.
ExpiredNever(e) == FALSE

\* difftime(now, instance.lastime) > TIMEOUT.
Expired(e) == e.age > TIMEOUT

\* at() throws when the vector has become shorter, which nobody catches.
Throws(q) ==
  /\ i > Len(queue[q])
  /\ outcome' = "terminated"
  /\ raced' = raced \cup (IF Printer \in stale THEN {q} ELSE {})
  /\ UNCHANGED <<queue, cap, dev, todo, age, it, printer, stale, open>>

\* check_timeout: temp->at(i) and the test of its age.
ReadAt ==
  /\ ppc = "at"
  /\ \/ Throws("wait")
     \/ /\ i <= Len(queue["wait"])
        /\ IF Expired(queue["wait"][i])
             THEN ppc' = "find" /\ inst' = queue["wait"][i].conn /\ UNCHANGED i
             ELSE ppc' = "size" /\ i' = i + 1 /\ UNCHANGED inst
        /\ UNCHANGED <<queue, cap, dev, todo, age, it, shown, outcome,
                       stale, raced, open>>

\* check_timeout: std::find; goto Begin if the connection is gone.
FindExpired ==
  /\ ppc = "find"
  /\ LET k == Find("wait", inst) IN
       IF k <= Len(queue["wait"])
         THEN /\ it' = [it EXCEPT ![Printer] = IteratorAt("wait", k)]
              /\ ppc' = "erase"
              /\ UNCHANGED i
         ELSE ppc' = "size" /\ i' = 1 /\ UNCHANGED it
  /\ inst' = NoConn
  /\ UNCHANGED <<queue, cap, dev, todo, age, shown, outcome,
                 stale, raced, open>>

EraseExpired ==
  /\ ppc = "erase"
  /\ Erase("wait", it[Printer])
  /\ Changes(Printer, "wait")
  /\ it' = [it EXCEPT ![Printer] = NoIterator]
  /\ ppc' = "size" /\ i' = 1
  /\ UNCHANGED <<dev, todo, age, inst, shown, open>>

\* print_queue: i < temp->size(); wait_queue, then connected_queue.
PrintSize ==
  /\ ppc = "print"
  /\ IF i <= Len(queue[shown])
       THEN ppc' = "show" /\ UNCHANGED <<i, shown>>
       ELSE /\ ppc' = IF shown = "wait" THEN "print" ELSE "sleep"
            /\ i' = 1
            /\ shown' = IF shown = "wait" THEN "connected" ELSE "wait"
  /\ stale' = stale \ {Printer}
  /\ UNCHANGED <<queue, cap, dev, todo, age, it, inst, outcome, raced, open>>

\* print_queue: temp->at(i).
PrintAt ==
  /\ ppc = "show"
  /\ \/ Throws(shown)
     \/ /\ i <= Len(queue[shown])
        /\ ppc' = "print" /\ i' = i + 1
        /\ UNCHANGED <<queue, cap, dev, todo, age, it, inst, shown, outcome,
                       stale, raced, open>>

PrintState ==
  Awake \/ Size \/ ReadAt \/ FindExpired \/ EraseExpired \/ PrintSize \/ PrintAt

-----------------------------------------------------------------------------

Older(a) == IF a > TIMEOUT THEN a ELSE a + 1
Aged(e) == [e EXCEPT !.age = Older(@)]

\* A second passes.
Tick ==
  /\ queue' = [queue EXCEPT !["wait"] = [k \in DOMAIN @ |-> Aged(@[k])]]
  /\ age' = [d \in Devices |-> IF Using(d, "wait") THEN Older(age[d]) ELSE 0]
  /\ UNCHANGED <<cap, dev, todo, it, printer, outcome, stale, raced, open>>

\* main has joined every capture thread; the print thread ends with it.
Complete ==
  /\ \A d \in Devices : dev[d] = "end"
  /\ outcome' = "complete"
  /\ UNCHANGED <<queue, cap, dev, todo, age, it, printer, stale, raced, open>>

Next ==
  \/ /\ outcome = "running"
     /\ \/ \E d \in Devices :
             \/ FiltInterface(d) \/ Search(d) \/ Apply(d)
             \/ \E p \in Packets : GotPacket(d, p[1], p[2])
        \/ PrintState \/ Tick \/ Complete
  \/ outcome # "running" /\ UNCHANGED vars

\* The print thread is scheduled and time passes.
Fairness ==
  /\ WF_vars(outcome = "running" /\ PrintState)
  /\ WF_vars(outcome = "running" /\ Tick)

Spec == Init /\ [][Next]_vars
FairSpec == Spec /\ Fairness

-----------------------------------------------------------------------------

TypeOK ==
  /\ queue \in [Queues -> Seq(Address)]
  /\ cap \in [Queues -> Nat]
  /\ dev \in [Devices -> {"new", "loop", "end"}]
  /\ todo \in [Devices -> Seq(Call)]
  /\ age \in [Devices -> Ages]
  /\ it \in [Threads -> Iterator]
  /\ ppc \in {"sleep", "size", "at", "find", "erase", "print", "show"}
  /\ i \in Nat \ {0}
  /\ inst \in Conns \cup {NoConn}
  /\ shown \in Queues
  /\ outcome \in {"running", "complete", "terminated", "corrupted"}
  /\ stale \subseteq Threads
  /\ raced \subseteq Queues
  /\ open \subseteq Conns

Idle == \A d \in Devices : todo[d] = << >>
Listed(q) == {queue[q][k].conn : k \in DOMAIN queue[q]}

\* element_push looks before it adds: a connection is in a queue at most once,
\* as long as no thread has changed that queue on the ground of an old look.
NoDuplicates ==
  \A q \in Queues \ raced, c \in Conns : Cardinality(At(q, c)) <= 1

\* With one interface, between two packets, connected_queue holds exactly the
\* connections the packets opened and did not close, although the print thread
\* reads it at any time.
ConnectedIsOpen ==
  (Cardinality(Devices) = 1 /\ Idle /\ outcome = "running") =>
    /\ Listed("connected") = open
    /\ Len(queue["connected"]) = Cardinality(open)

\* The program is terminated by an exception of at() or corrupts a vector only
\* after a thread used a queue that another had changed since it looked.
EndsBadlyByRace == outcome \in {"terminated", "corrupted"} => raced # {}

\* The queues tell what was captured, and only a race makes them unusable.
QueuesSound == TypeOK /\ ConnectedIsOpen /\ EndsBadlyByRace

\* A waiting connection leaves wait_queue by its SYN,ACK or because it has
\* waited longer than TIMEOUT, unless a change of the queue was overlooked.
WaitsForAnswerOrTimeout ==
  [][\A c \in Conns :
       (/\ c \in Listed("wait") /\ c \notin Listed("wait")'
        /\ "wait" \notin raced')
       => \/ \E k \in At("wait", c) : queue["wait"][k].age > TIMEOUT
          \/ \E d \in Devices :
               /\ todo[d] # << >> /\ Head(todo[d]) = Remove("wait", c)
               /\ Len(todo'[d]) < Len(todo[d])]_vars

\* A half-open connection that has waited too long is dropped from wait_queue
\* in the end, whatever is captured meanwhile, unless the program ends.
ExpiredLeave ==
  \A c \in Conns :
    (\E k \in At("wait", c) : queue["wait"][k].age > TIMEOUT)
      ~> \/ \A k \in At("wait", c) : queue["wait"][k].age <= TIMEOUT
         \/ outcome # "running"
=============================================================================
