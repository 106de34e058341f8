------------------------- MODULE AudioThreadsProofs -------------------------
(***************************************************************************)
(* Two threads that update the sizes and heads of the ring without a lock: *)
(* for every size of ring, callback and chunk, and whichever updates get   *)
(* lost, no thread takes more from a size than it has found, and without   *)
(* a lost update sizes and heads agree.                                    *)
(***************************************************************************)
EXTENDS AudioThreads, TLAPS

dev == th["device"]
net == th["network"]

\* What a turn of the loop has already added to or taken from v.
Part(r, v) == IF r.at = "update" /\ v \notin r.todo THEN r.n ELSE 0

\* What the callback still takes from what waits and gives back to what is free.
StillTaken == dev.left - Part(dev, "unsubmitted")
StillFreed == dev.left - Part(dev, "free")

\* What addSamples() may still add to what waits, and what its turn takes from what
\* is free.
StillAdded == net.left - Part(net, "unsubmitted")
StillFilled == IF net.at = "update" /\ "free" \in net.todo THEN net.n ELSE 0

\* Where thread t can be.  The callback takes what it has played from what waits before
\* it adds it to what is free.
Fits(t, r) ==
  /\ r.reg # Nothing => r.at = "update" /\ r.reg.of \in r.todo
  /\ r.at = "update" => r.n <= r.left
  /\ r.at = "idle" => r.left = 0
  /\ t = "device" =>
       /\ r.at \notin {"spin", "reset"}
       /\ r.at = "update" /\ "unsubmitted" \in r.todo => "free" \in r.todo
       /\ r.reg # Nothing /\ r.reg.of = "free" => "unsubmitted" \notin r.todo
       /\ r.kept # Nothing => r.kept.value < Total
  /\ t = "network" =>
       /\ r.at # "enter"
       /\ r.at = "update" => r.todo \subseteq {"unsubmitted", "free"}

Shape ==
  /\ \A t \in Threads : Fits(t, th[t])
  /\ starts = 0 => net.at # "reset"

\* What waits, where the two threads have found it: what the callback has found is
\* never more than there is, what the network thread has found never less, and there is
\* always as much as the callback still takes.
WaitingInv ==
  /\ StillTaken <= bufUnsubmittedSize
  /\ bufUnsubmittedSize + StillAdded < Modulus
  /\ dev.reg # Nothing /\ dev.reg.of = "unsubmitted" =>
       StillTaken <= dev.reg.value /\ dev.reg.value <= bufUnsubmittedSize
  /\ net.reg # Nothing /\ net.reg.of = "unsubmitted" =>
       bufUnsubmittedSize <= net.reg.value /\ net.reg.value + StillAdded < Modulus

\* What is free, the other way round.
FreeInv ==
  /\ StillFilled <= bufFreeSize
  /\ bufFreeSize + StillFreed < Modulus
  /\ net.kept # Nothing => net.kept.value <= bufFreeSize
  /\ net.reg # Nothing /\ net.reg.of = "free" =>
       StillFilled <= net.reg.value /\ net.reg.value <= bufFreeSize
  /\ dev.reg # Nothing /\ dev.reg.of = "free" =>
       bufFreeSize <= dev.reg.value /\ dev.reg.value + StillFreed < Modulus

\* Without a lost update the sizes differ from the ring's by what the turns under way
\* have done to one of them only.
SizesInv ==
  bufFreeSize + bufUnsubmittedSize + Part(dev, "unsubmitted") + Part(net, "free")
    = Total + Part(dev, "free") + Part(net, "unsubmitted")

\* a and b are the same place in the ring.
SamePlace(a, b) == \E q \in Int : a = b + q * Total

\* And so do the heads.
HeadsInv ==
  SamePlace(bufUnsubmittedHead + Part(net, "unsubmitted") + Part(dev, "head"),
            bufSubmittedHead + bufUnsubmittedSize + Part(dev, "unsubmitted"))

ThreadsInv ==
  /\ TypeOK /\ Shape
  /\ starts = 0 => WaitingInv /\ FreeInv
  /\ starts = 0 /\ lost = 0 => SizesInv /\ HeadsInv /\ audioPendingBytes <= Total

(***************************************************************************)
(* Numbers and records                                                     *)
(***************************************************************************)
LEMMA ThreadsTypes ==
  /\ Total \in Nat \ {0} /\ Modulus \in Nat /\ Modulus > 4 * Total
  /\ Periods \subseteq 1 .. Total /\ Prelude \in 0 .. Total
  /\ Sizes \subseteq Nat /\ \A s \in Sizes : s <= Modulus \div 2
  /\ MaxStarts \in Nat /\ MaxCalls \in Nat /\ MaxLost \in Nat
BY ThreadsAssumption

\* What size_t and the mask of the ring make of a number.
LEMMA Wrapped ==
  \A x \in Int :
    /\ SizeT(x) \in 0 .. Modulus - 1 /\ Wrap(x) \in 0 .. Total - 1
    /\ x \in 0 .. Modulus - 1 => SizeT(x) = x
<1> TAKE x \in Int
<1>1. Total \in Nat \ {0} /\ Modulus \in Nat \ {0}
  BY ThreadsTypes
<1> QED BY <1>1 DEF SizeT, Wrap

\* A thread: where it is and what it keeps.
ThreadState ==
  [at : {"idle", "enter", "spin", "reset", "loop", "update"},
   todo : SUBSET {"head", "unsubmitted", "free"},
   left : Nat, n : 0 .. Total, reg : Registers, kept : Registers]

\* Thread t goes on to the state r, the other one stays.
Becomes(t, r) ==
  /\ th' \in [Threads -> ThreadState]
  /\ th'[t] = r
  /\ \A u \in Threads \ {t} : th'[u] = th[u]

LEMMA ThreadBecomes ==
  ASSUME TypeOK, NEW t \in Threads, NEW r \in ThreadState, th' = [th EXCEPT ![t] = r]
  PROVE  Becomes(t, r)
BY DEF TypeOK, ThreadState, Becomes

\* What is loaded fits a register.
LEMMA Loaded ==
  ASSUME TypeOK, NEW v \in {"head", "unsubmitted", "free"}
  PROVE  Value(v) \in 0 .. Modulus - 1 /\ [of |-> v, value |-> Value(v)] \in Registers
BY ThreadsTypes DEF TypeOK, Value, Registers

LEMMA LoadState ==
  ASSUME TypeOK, Shape, NEW t \in Threads, Load(t)
  PROVE  \E v \in Updatable(t) :
           /\ v \in th[t].todo /\ v \in {"head", "unsubmitted", "free"}
           /\ Becomes(t, [th[t] EXCEPT !.reg = [of |-> v, value |-> Value(v)]])
<1>1. PICK v \in Updatable(t) : th' = [th EXCEPT ![t].reg = [of |-> v, value |-> Value(v)]]
  BY DEF Load
<1>2. v \in th[t].todo /\ th[t] \in ThreadState
  BY DEF Updatable, TypeOK, ThreadState
<1>3. v \in {"head", "unsubmitted", "free"}
  BY <1>2 DEF ThreadState
<1>4. PICK r : r = [th[t] EXCEPT !.reg = [of |-> v, value |-> Value(v)]]
  OBVIOUS
<1>5. r \in ThreadState
  BY <1>2, <1>3, <1>4, Loaded DEF ThreadState
<1>6. th' = [th EXCEPT ![t] = r]
  BY <1>1, <1>4
<1>7. Becomes(t, r)
  BY <1>5, <1>6, ThreadBecomes
<1> QED BY <1>2, <1>3, <1>4, <1>7

\* The state of a thread after a store.
Stored(t, v, x) ==
  LET r == [th[t] EXCEPT !.reg = Nothing, !.todo = @ \ {v},
              !.kept = IF v = Tested(t) THEN [of |-> v, value |-> x] ELSE @]
  IN  IF r.todo = {} THEN Turned(r) ELSE r

LEMMA StoredFields ==
  ASSUME NEW t \in Threads, th[t] \in ThreadState, NEW v, NEW x, NEW r, r = Stored(t, v, x)
  PROVE  /\ r.reg = Nothing /\ r.todo = th[t].todo \ {v}
         /\ IF r.todo = {} THEN r.at = "loop" /\ r.n = 0 /\ r.left = th[t].left - th[t].n
            ELSE r.at = th[t].at /\ r.n = th[t].n /\ r.left = th[t].left
         /\ r.kept \in {Nothing, IF v = Tested(t) THEN [of |-> v, value |-> x] ELSE th[t].kept}
<1>1. PICK kept : kept = IF v = Tested(t) THEN [of |-> v, value |-> x] ELSE th[t].kept
  OBVIOUS
<1>2. PICK q : q = [th[t] EXCEPT !.reg = Nothing, !.todo = @ \ {v}, !.kept = kept]
  OBVIOUS
<1>3. /\ q.reg = Nothing /\ q.todo = th[t].todo \ {v} /\ q.at = th[t].at /\ q.n = th[t].n
      /\ q.left = th[t].left /\ q.kept = kept
      /\ q = [at |-> q.at, todo |-> q.todo, left |-> q.left, n |-> q.n, reg |-> q.reg,
              kept |-> q.kept]
  BY <1>2 DEF ThreadState
<1>4. r = IF q.todo = {} THEN Turned(q) ELSE q
  BY <1>1, <1>2 DEF Stored
<1>5. CASE q.todo = {}
  <2>1. r = [q EXCEPT !.at = "loop", !.left = q.left - q.n, !.n = 0,
                      !.kept = IF q.left = q.n THEN Nothing ELSE q.kept]
    BY <1>4, <1>5 DEF Turned
  <2>2. /\ r.reg = q.reg /\ r.todo = q.todo /\ r.at = "loop" /\ r.n = 0
        /\ r.left = q.left - q.n /\ r.kept \in {Nothing, q.kept}
    BY <1>3, <2>1
  <2> QED BY <1>1, <1>3, <1>5, <2>2
<1>6. CASE q.todo # {}
  BY <1>1, <1>3, <1>4, <1>6
<1> QED BY <1>5, <1>6

LEMMA StoreState ==
  ASSUME TypeOK, Shape, NEW t \in Threads, Store(t)
  PROVE  LET v == th[t].reg.of
             x == Moved(t, v, th[t].reg.value)
         IN  /\ v \in {"head", "unsubmitted", "free"} /\ v \in th[t].todo
             /\ th[t].reg.value \in 0 .. Modulus - 1 /\ th[t].at = "update"
             /\ x \in 0 .. Modulus - 1 /\ (v = "head" => x < Total)
             /\ Becomes(t, Stored(t, v, x))
<1> DEFINE v == th[t].reg.of
           x == Moved(t, v, th[t].reg.value)
<1>1. /\ th[t] \in ThreadState /\ th[t].reg \in Registers /\ th[t].reg # Nothing
      /\ v \in th[t].todo /\ th[t].at = "update" /\ th[t].n <= th[t].left
      /\ th[t].n \in 0 .. Total /\ th[t].left \in Nat
  BY DEF Store, TypeOK, ThreadState, Shape, Fits
<1>2. v \in {"head", "unsubmitted", "free"} /\ th[t].reg.value \in 0 .. Modulus - 1
  BY <1>1 DEF Registers
<1>3. x \in 0 .. Modulus - 1 /\ (v = "head" => x < Total)
  <2>1. PICK up \in Int, down \in Int : up = th[t].reg.value + th[t].n /\ down = th[t].reg.value - th[t].n
    BY <1>1, <1>2, ThreadsTypes
  <2>2. Total \in Nat \ {0} /\ Modulus \in Nat /\ Modulus > 4 * Total
    BY ThreadsTypes
  <2>3. CASE v = "head"
    <3>1. x = Wrap(up)
      BY <2>1, <2>3 DEF Moved
    <3>2. Wrap(up) \in 0 .. Total - 1
      BY Wrapped
    <3> QED BY <2>2, <3>1, <3>2
  <2>4. CASE v # "head"
    <3>1. x \in {SizeT(up), SizeT(down)}
      BY <2>1, <2>4 DEF Moved, Sum
    <3>2. SizeT(up) \in 0 .. Modulus - 1 /\ SizeT(down) \in 0 .. Modulus - 1
      BY Wrapped
    <3> QED BY <2>4, <3>1, <3>2
  <2> QED BY <2>3, <2>4
<1> HIDE DEF x
<1>4. PICK kept \in Registers :
        kept = IF v = Tested(t) THEN [of |-> v, value |-> x] ELSE th[t].kept
  BY <1>1, <1>2, <1>3 DEF Registers, ThreadState
<1>5. PICK r : r = [th[t] EXCEPT !.reg = Nothing, !.todo = @ \ {v}, !.kept = kept]
  OBVIOUS
<1>6. /\ r \in ThreadState /\ r.left = th[t].left /\ r.n = th[t].n
  BY <1>1, <1>5 DEF ThreadState, Registers
<1>7. Turned(r) \in ThreadState
  <2>1. r.left - r.n \in Nat /\ 0 \in 0 .. Total
    BY <1>1, <1>6, ThreadsTypes
  <2>2. (IF r.left = r.n THEN Nothing ELSE r.kept) \in Registers /\ r.todo \in SUBSET {"head", "unsubmitted", "free"}
        /\ r.reg \in Registers
    BY <1>6 DEF ThreadState, Registers
  <2> QED BY <1>6, <2>1, <2>2 DEF Turned, ThreadState
<1>8. PICK s \in ThreadState : s = IF r.todo = {} THEN Turned(r) ELSE r
  BY <1>6, <1>7
<1>9. Stored(t, v, x) = s
  BY <1>4, <1>5, <1>8 DEF Stored
<1>10. th' = [th EXCEPT ![t] = s]
  BY <1>4, <1>5, <1>8 DEF Store, x
<1>11. Becomes(t, s)
  BY <1>10, ThreadBecomes
<1> QED BY <1>1, <1>2, <1>3, <1>9, <1>11 DEF x

\* A turn of the loop begins.
LEMMA TurnState ==
  ASSUME TypeOK, NEW t \in Threads, NEW k \in 0 .. Total,
         NEW vs \in SUBSET {"head", "unsubmitted", "free"}, TakesTurn(t, k, vs)
  PROVE  Becomes(t, [th[t] EXCEPT !.at = "update", !.n = k, !.todo = vs])
<1>1. th[t] \in ThreadState
  BY DEF TypeOK, ThreadState
<1>2. PICK r : r = [th[t] EXCEPT !.at = "update", !.n = k, !.todo = vs]
  OBVIOUS
<1>3. r \in ThreadState
  BY <1>1, <1>2 DEF ThreadState
<1>4. th' = [th EXCEPT ![t] = r]
  BY <1>2 DEF TakesTurn, TypeOK
<1> QED BY <1>2, <1>3, <1>4, ThreadBecomes

\* How much the callback takes in a turn.
LEMMA TakeState ==
  ASSUME TypeOK, Shape, Take
  PROVE  \E k \in 0 .. Total :
           /\ k <= dev.left /\ dev.at = "loop"
           /\ Becomes("device", [dev EXCEPT !.at = "update", !.n = k,
                                           !.todo = {"head", "unsubmitted", "free"}])
           /\ UNCHANGED <<ring, call, lost>>
<1>1. PICK head \in Seen("device") :
        TakesTurn("device", Least(th["device"].left, Total - head), {"head", "unsubmitted", "free"})
  BY DEF Take
<1>2. head \in 0 .. Total - 1 /\ dev.left \in Nat /\ Total \in Nat
  <2>1. bufSubmittedHead \in 0 .. Total - 1 /\ Total \in Nat /\ dev.left \in Nat
    BY ThreadsTypes DEF TypeOK, dev, Threads
  <2>2. dev.kept # Nothing => dev.kept.value \in 0 .. Total - 1
    <3>1. dev.kept # Nothing => dev.kept.value \in 0 .. Modulus - 1 /\ dev.kept.value < Total
      BY DEF TypeOK, Shape, Fits, Registers, dev, Threads
    <3> QED BY <3>1, <2>1, ThreadsTypes
  <2>3. head = bufSubmittedHead \/ (dev.kept # Nothing /\ head = dev.kept.value)
    BY <1>1 DEF Seen, Value, Tested, dev
  <2> QED BY <2>1, <2>2, <2>3
<1>3. PICK k \in 0 .. Total : k = Least(dev.left, Total - head) /\ k <= dev.left
  <2>1. Least(dev.left, Total - head) \in 0 .. Total /\ Least(dev.left, Total - head) <= dev.left
    BY <1>2 DEF Least
  <2> QED BY <2>1
<1>4. TakesTurn("device", k, {"head", "unsubmitted", "free"})
  BY <1>1, <1>3 DEF dev
<1>5. Becomes("device", [dev EXCEPT !.at = "update", !.n = k, !.todo = {"head", "unsubmitted", "free"}])
  BY <1>4, TurnState DEF dev, Threads
<1> QED BY <1>3, <1>4, <1>5 DEF TakesTurn, dev

\* How much addSamples() puts in in a turn: no more than the room it has seen.
LEMMA GiveState ==
  ASSUME TypeOK, Shape, Give
  PROVE  \E k \in 0 .. Total :
           /\ k <= net.left /\ net.at = "loop"
           /\ k <= bufFreeSize \/ (net.kept # Nothing /\ k <= net.kept.value)
           /\ Becomes("network", [net EXCEPT !.at = "update", !.n = k,
                                            !.todo = {"unsubmitted", "free"}])
           /\ UNCHANGED <<ring, call, lost>>
<1>1. PICK room \in Seen("network") :
        TakesTurn("network", Fitting(room), {"unsubmitted", "free"})
  BY DEF Give
<1>2. /\ room = bufFreeSize \/ (net.kept # Nothing /\ room = net.kept.value)
      /\ bufFreeSize \in Nat /\ net.left \in Nat /\ Total \in Nat
      /\ bufUnsubmittedHead \in 0 .. Total - 1
      /\ net.kept # Nothing => net.kept.value \in Nat
  BY <1>1, ThreadsTypes DEF Seen, Value, Tested, TypeOK, Registers, net, Threads
<1>3. PICK k \in 0 .. Total : k = Fitting(room) /\ k <= net.left /\ k <= room
  <2>1. room \in Nat
    BY <1>2
  <2>2. PICK l \in Nat : l = net.left
    BY <1>2
  <2>3. /\ Least(Least(l, room), Total - bufUnsubmittedHead) \in 0 .. Total
        /\ Least(Least(l, room), Total - bufUnsubmittedHead) <= l
        /\ Least(Least(l, room), Total - bufUnsubmittedHead) <= room
    BY <1>2, <2>1 DEF Least
  <2> QED BY <2>2, <2>3 DEF Fitting, net
<1>4. TakesTurn("network", k, {"unsubmitted", "free"})
  BY <1>1, <1>3
<1>5. Becomes("network", [net EXCEPT !.at = "update", !.n = k, !.todo = {"unsubmitted", "free"}])
  BY <1>4, TurnState DEF net, Threads
<1> QED BY <1>2, <1>3, <1>4, <1>5 DEF TakesTurn, net

(***************************************************************************)
(* Types and places                                                        *)
(***************************************************************************)
\* One thread has moved.
LEMMA ThreadsStep ==
  ASSUME TypeOK, Shape, NEW t \in Threads, NEW r, Becomes(t, r), Fits(t, r),
         t = "network" /\ starts' = 0 => r.at # "reset",
         starts' \in {starts, starts + 1}
  PROVE  /\ th' \in [Threads -> ThreadState]
         /\ th'["device"].at \notin {"spin", "reset"} /\ th'["network"].at # "enter"
         /\ Shape'
<1>1. th' \in [Threads -> ThreadState] /\ starts \in Nat
  BY ThreadsTypes DEF Becomes, TypeOK
<1>2. \A u \in Threads : Fits(u, th'[u])
  BY DEF Becomes, Shape
<1>3. th'["device"].at \notin {"spin", "reset"} /\ th'["network"].at # "enter"
  BY <1>2 DEF Fits, Threads
<1>4. starts' = 0 => th'["network"].at # "reset"
  BY <1>1 DEF Becomes, Shape, Threads, net
<1> QED BY <1>1, <1>2, <1>3, <1>4 DEF Shape, Fits, net

LEMMA PlacesStep == ASSUME TypeOK, Shape, [Next]_vars PROVE TypeOK' /\ Shape'
<1>1. /\ TypeOK /\ th \in [Threads -> ThreadState] /\ "device" \in Threads /\ "network" \in Threads
      /\ \A t \in Threads : th[t] \in ThreadState /\ Fits(t, th[t])
  BY DEF TypeOK, ThreadState, Threads, Shape
<1>2. ASSUME th' \in [Threads -> ThreadState], Shape',
             th'["device"].at \notin {"spin", "reset"}, th'["network"].at # "enter",
             {bufFreeSize', bufUnsubmittedSize', audioPendingBytes'} \subseteq 0 .. Modulus - 1,
             {bufSubmittedHead', bufUnsubmittedHead'} \subseteq 0 .. Total - 1,
             {cbLock', adding'} \subseteq BOOLEAN,
             calls' \in 0 .. MaxCalls, starts' \in 0 .. MaxStarts, lost' \in Nat
      PROVE  TypeOK' /\ Shape'
  BY <1>2 DEF TypeOK, ThreadState
<1>3. ASSUME NEW t \in Threads, NEW r, Becomes(t, r), Fits(t, r), r.at # "reset",
             UNCHANGED <<ring, audioPendingBytes, calls, starts, lost>>,
             {cbLock', adding'} \subseteq BOOLEAN
      PROVE  TypeOK' /\ Shape'
  <2>1. starts' = starts
    BY <1>3
  <2>2. /\ th' \in [Threads -> ThreadState] /\ Shape'
        /\ th'["device"].at \notin {"spin", "reset"} /\ th'["network"].at # "enter"
    BY <1>3, <2>1, ThreadsStep
  <2>3. UNCHANGED <<bufFreeSize, bufUnsubmittedSize, bufSubmittedHead, bufUnsubmittedHead>>
    BY <1>3 DEF ring, shared
  <2> QED BY <1>2, <1>3, <2>2, <2>3 DEF TypeOK
<1>4. ASSUME NEW period \in Periods, audioOutCallback(period) PROVE TypeOK' /\ Shape'
  <2>1. PICK k \in Nat : k = Least(bufUnsubmittedSize, period)
    BY <1>1, ThreadsTypes DEF Least, TypeOK
  <2>2. PICK r \in ThreadState : r = [dev EXCEPT !.at = "enter", !.left = k]
    BY <1>1, <2>1 DEF ThreadState, dev
  <2>3. th' = [th EXCEPT !["device"] = r]
    BY <1>1, <1>4, <2>1, <2>2 DEF audioOutCallback, dev
  <2>4. Becomes("device", r)
    BY <1>1, <2>3, ThreadBecomes
  <2>5. Fits("device", r) /\ r.at # "reset"
    BY <1>1, <1>4, <2>2 DEF Fits, audioOutCallback, dev, ThreadState
  <2> QED BY <1>1, <1>3, <1>4, <2>4, <2>5 DEF audioOutCallback, call, TypeOK
<1>5. CASE SetLock
  <2>1. PICK r \in ThreadState : r = [dev EXCEPT !.at = "loop"]
    BY <1>1 DEF ThreadState, dev
  <2>2. th' = [th EXCEPT !["device"] = r]
    BY <1>1, <1>5, <2>1 DEF SetLock, dev
  <2>3. Becomes("device", r)
    BY <1>1, <2>2, ThreadBecomes
  <2>4. Fits("device", r) /\ r.at # "reset"
    BY <1>1, <1>5, <2>1 DEF Fits, SetLock, dev, ThreadState
  <2> QED BY <1>1, <1>3, <1>5, <2>3, <2>4 DEF SetLock, TypeOK
<1>6. CASE Take
  <2>1. PICK k \in 0 .. Total :
          /\ k <= dev.left /\ dev.at = "loop"
          /\ Becomes("device", [dev EXCEPT !.at = "update", !.n = k,
                                          !.todo = {"head", "unsubmitted", "free"}])
          /\ UNCHANGED <<ring, call, lost>>
    BY <1>6, TakeState
  <2>2. PICK r : r = [dev EXCEPT !.at = "update", !.n = k, !.todo = {"head", "unsubmitted", "free"}]
    OBVIOUS
  <2>3. Fits("device", r) /\ r.at # "reset"
    BY <1>1, <2>1, <2>2 DEF Fits, dev, ThreadState
  <2> QED BY <1>1, <1>3, <2>1, <2>2, <2>3 DEF call, TypeOK
<1>7. CASE CallbackReturns
  <2>1. PICK r \in ThreadState : r = [dev EXCEPT !.at = "idle"]
    BY <1>1 DEF ThreadState, dev
  <2>2. th' = [th EXCEPT !["device"] = r]
    BY <1>1, <1>7, <2>1 DEF CallbackReturns, dev
  <2>3. Becomes("device", r)
    BY <1>1, <2>2, ThreadBecomes
  <2>4. Fits("device", r) /\ r.at # "reset"
    BY <1>1, <1>7, <2>1 DEF Fits, CallbackReturns, dev, ThreadState
  <2> QED BY <1>1, <1>3, <1>7, <2>3, <2>4 DEF CallbackReturns, TypeOK
<1>8. ASSUME NEW t \in Threads, Load(t) PROVE TypeOK' /\ Shape'
  <2>1. PICK v \in Updatable(t) :
          /\ v \in th[t].todo /\ v \in {"head", "unsubmitted", "free"}
          /\ Becomes(t, [th[t] EXCEPT !.reg = [of |-> v, value |-> Value(v)]])
    BY <1>8, LoadState
  <2>2. PICK r : r = [th[t] EXCEPT !.reg = [of |-> v, value |-> Value(v)]]
    OBVIOUS
  <2>3. /\ r.reg # Nothing /\ r.reg.of = v /\ r.at = "update" /\ th[t].at = "update" /\ r.todo = th[t].todo
        /\ r.n = th[t].n /\ r.left = th[t].left /\ r.kept = th[t].kept
    BY <1>1, <1>8, <2>1, <2>2 DEF Load, ThreadState, Nothing
  <2>4. t = "device" /\ v = "free" => "unsubmitted" \notin th[t].todo
    BY <2>1 DEF Updatable
  <2>5. Fits(t, r) /\ r.at # "reset"
    BY <1>1, <2>1, <2>3, <2>4 DEF Fits
  <2> QED BY <1>1, <1>3, <1>8, <2>1, <2>2, <2>5 DEF Load, call, TypeOK
<1>9. ASSUME NEW t \in Threads, Store(t) PROVE TypeOK' /\ Shape'
  <2>1. PICK v, x :
          /\ v = th[t].reg.of /\ x = Moved(t, v, th[t].reg.value)
          /\ v \in {"head", "unsubmitted", "free"} /\ v \in th[t].todo
          /\ th[t].at = "update" /\ x \in 0 .. Modulus - 1 /\ (v = "head" => x < Total)
          /\ Becomes(t, Stored(t, v, x))
    BY <1>9, StoreState
  <2>2. PICK r : r = Stored(t, v, x)
    OBVIOUS
  <2>3. Fits(t, r) /\ r.at # "reset"
    <3>1. th[t] \in ThreadState /\ Fits(t, th[t]) /\ th[t].n <= th[t].left
          /\ th[t].left \in Nat /\ th[t].n \in Nat /\ th[t].reg # Nothing
      BY <1>1, <1>9, <2>1, ThreadsTypes DEF Fits, Store, ThreadState
    <3>2. /\ r.reg = Nothing /\ r.todo = th[t].todo \ {v}
          /\ IF r.todo = {} THEN r.at = "loop" /\ r.n = 0 /\ r.left = th[t].left - th[t].n
             ELSE r.at = th[t].at /\ r.n = th[t].n /\ r.left = th[t].left
          /\ r.kept \in {Nothing, IF v = Tested(t) THEN [of |-> v, value |-> x] ELSE th[t].kept}
      <4>1. th[t] \in ThreadState
        BY <3>1
      <4> QED BY <4>1, <2>2, StoredFields
    <3>4. t = "device" => (r.kept # Nothing => r.kept.value < Total)
      BY <2>1, <3>1, <3>2 DEF Fits, Tested
    <3>5. r.todo # {} => r.at = "update" /\ r.n <= r.left
      BY <2>1, <3>1, <3>2
    <3>6. r.todo = {} => r.at = "loop"
      BY <3>2
    <3>7. t = "device" =>
            /\ r.at \notin {"spin", "reset"}
            /\ r.at = "update" /\ "unsubmitted" \in r.todo => "free" \in r.todo
      BY <2>1, <3>1, <3>2, <3>5, <3>6 DEF Fits
    <3>8. t = "network" =>
            /\ r.at # "enter" /\ (r.at = "update" => r.todo \subseteq {"unsubmitted", "free"})
      BY <2>1, <3>1, <3>2, <3>5, <3>6 DEF Fits
    <3>9. r.reg = Nothing /\ r.at \in {"update", "loop"} /\ (r.at = "update" => r.n <= r.left)
      BY <2>1, <3>2, <3>5, <3>6
    <3> QED BY <3>4, <3>7, <3>8, <3>9 DEF Fits
  <2>4. /\ starts' = starts /\ UNCHANGED <<cbLock, audioPendingBytes, adding, calls>>
        /\ Assign(v, x) /\ lost' \in {lost, lost + 1}
        /\ bufUnsubmittedHead' \in {bufUnsubmittedHead, Wrap(bufUnsubmittedHead + th[t].n)}
    <3>1. th[t] \in ThreadState
      BY <1>1
    <3>2. [th[t] EXCEPT !.reg = Nothing, !.todo = @ \ {v},
             !.kept = IF v = Tested(t) THEN [of |-> v, value |-> x] ELSE @].n = th[t].n
      BY ONLY <3>1 DEF ThreadState
    <3>3. UNCHANGED call /\ Assign(v, x) /\ lost' \in {lost, lost + 1}
      BY <1>9, <2>1 DEF Store
    <3>4. bufUnsubmittedHead' \in {bufUnsubmittedHead, Wrap(bufUnsubmittedHead + th[t].n)}
      BY <1>9, <2>1, <3>2 DEF Store
    <3> QED BY <3>3, <3>4 DEF call
  <2>5. /\ th' \in [Threads -> ThreadState] /\ Shape'
        /\ th'["device"].at \notin {"spin", "reset"} /\ th'["network"].at # "enter"
    BY <2>1, <2>2, <2>3, <2>4, ThreadsStep
  <2>6. {bufFreeSize', bufUnsubmittedSize'} \subseteq 0 .. Modulus - 1 /\ bufSubmittedHead' \in 0 .. Total - 1
    <3>1. x \in Nat /\ (v = "head" => x \in 0 .. Total - 1)
      BY <2>1, ThreadsTypes
    <3> QED BY <1>1, <2>1, <2>4, <3>1 DEF Assign, TypeOK
  <2>7. bufUnsubmittedHead' \in 0 .. Total - 1
    <3>1. bufUnsubmittedHead + th[t].n \in Int /\ bufUnsubmittedHead \in 0 .. Total - 1
      BY <1>1, ThreadsTypes DEF TypeOK, ThreadState
    <3>2. PICK a \in Int : a = bufUnsubmittedHead + th[t].n
      BY <3>1
    <3>3. Wrap(a) \in 0 .. Total - 1
      BY Wrapped
    <3> QED BY <2>4, <3>1, <3>2, <3>3
  <2>8. lost' \in Nat
    BY <1>1, <2>4 DEF TypeOK
  <2> QED BY <1>1, <1>2, <2>4, <2>5, <2>6, <2>7, <2>8 DEF TypeOK
<1>10. ASSUME NEW size \in Sizes, addSamples(size) PROVE TypeOK' /\ Shape'
  <2>1. PICK k \in {size, size \div 2} :
          th' = [th EXCEPT !["network"].at = "spin", !["network"].left = k]
    BY <1>10 DEF addSamples
  <2>2. k \in Nat
    BY <2>1, ThreadsTypes
  <2>3. PICK r \in ThreadState : r = [net EXCEPT !.at = "spin", !.left = k]
    BY <1>1, <2>2 DEF ThreadState, net
  <2>4. th' = [th EXCEPT !["network"] = r]
    BY <1>1, <2>1, <2>3 DEF net
  <2>5. Becomes("network", r)
    BY <1>1, <2>4, ThreadBecomes
  <2>6. Fits("network", r) /\ r.at # "reset"
    BY <1>1, <1>10, <2>3 DEF Fits, addSamples, net, ThreadState
  <2>7. starts' = starts /\ UNCHANGED <<bufFreeSize, bufUnsubmittedSize, bufSubmittedHead,
          bufUnsubmittedHead, cbLock, audioPendingBytes, lost>> /\ adding' = TRUE
        /\ calls' \in 0 .. MaxCalls
    BY <1>1, <1>10, ThreadsTypes DEF addSamples, ring, shared, TypeOK
  <2>8. /\ th' \in [Threads -> ThreadState] /\ Shape'
        /\ th'["device"].at \notin {"spin", "reset"} /\ th'["network"].at # "enter"
    BY <1>1, <2>5, <2>6, <2>7, ThreadsStep
  <2> QED BY <1>1, <1>2, <2>7, <2>8 DEF TypeOK
<1>11. CASE SpinEnds \/ ResetEnds
  <2>1. PICK r \in ThreadState : r = [net EXCEPT !.at = "loop"]
    BY <1>1 DEF ThreadState, net
  <2>2. th' = [th EXCEPT !["network"] = r]
    BY <1>1, <1>11, <2>1 DEF SpinEnds, ResetEnds, net
  <2>3. Becomes("network", r)
    BY <1>1, <2>2, ThreadBecomes
  <2>4. Fits("network", r) /\ r.at # "reset"
    BY <1>1, <1>11, <2>1 DEF Fits, SpinEnds, ResetEnds, net, ThreadState
  <2> QED BY <1>1, <1>3, <1>11, <2>3, <2>4 DEF SpinEnds, ResetEnds, call, TypeOK
<1>12. CASE notifyStreamingStartStop
  <2>1. PICK k \in {0, Prelude} :
          th' = [th EXCEPT !["network"] =
                   [@ EXCEPT !.at = "reset", !.left = k,
                             !.todo = {"free", "head", "unsubmitted"},
                             !.kept = [of |-> "free", value |-> Total]]]
    BY <1>12 DEF notifyStreamingStartStop
  <2>2. k \in Nat /\ [of |-> "free", value |-> Total] \in Registers
    BY <2>1, ThreadsTypes DEF Registers
  <2>3. PICK r \in ThreadState :
          r = [net EXCEPT !.at = "reset", !.left = k, !.todo = {"free", "head", "unsubmitted"},
                          !.kept = [of |-> "free", value |-> Total]]
    BY <1>1, <2>2 DEF ThreadState, net
  <2>4. th' = [th EXCEPT !["network"] = r]
    BY <1>1, <2>1, <2>3 DEF net
  <2>5. Becomes("network", r)
    BY <1>1, <2>4, ThreadBecomes
  <2>6. Fits("network", r)
    BY <1>1, <1>12, <2>3 DEF Fits, notifyStreamingStartStop, net, ThreadState
  <2>7. /\ UNCHANGED <<bufFreeSize, bufUnsubmittedSize, bufSubmittedHead, cbLock,
                       audioPendingBytes, adding, lost>>
        /\ bufUnsubmittedHead' = 0 /\ 0 \in 0 .. Total - 1
        /\ calls' \in 0 .. MaxCalls /\ starts' \in 0 .. MaxStarts
        /\ starts' = starts + 1 /\ starts' # 0
    BY <1>1, <1>12, ThreadsTypes DEF notifyStreamingStartStop, shared, TypeOK
  <2>8. /\ th' \in [Threads -> ThreadState] /\ Shape'
        /\ th'["device"].at \notin {"spin", "reset"} /\ th'["network"].at # "enter"
    BY <1>1, <2>5, <2>6, <2>7, ThreadsStep
  <2> QED BY <1>1, <1>2, <2>7, <2>8 DEF TypeOK
<1>13. CASE Reset
  <2>1. PICK v \in net.todo :
          /\ Assign(v, IF v = "free" THEN Total ELSE 0)
          /\ th' = [th EXCEPT !["network"].todo = @ \ {v}]
    BY <1>13 DEF Reset, net
  <2>2. PICK r \in ThreadState : r = [net EXCEPT !.todo = @ \ {v}]
    BY <1>1 DEF ThreadState, net
  <2>3. th' = [th EXCEPT !["network"] = r]
    BY <1>1, <2>1, <2>2 DEF net
  <2>4. Becomes("network", r)
    BY <1>1, <2>3, ThreadBecomes
  <2>5. Fits("network", r) /\ starts # 0
    BY <1>1, <1>13, <2>2 DEF Fits, Reset, net, ThreadState, Shape
  <2>6. UNCHANGED <<bufUnsubmittedHead, cbLock, audioPendingBytes, adding, calls, starts, lost>>
    BY <1>13 DEF Reset, call
  <2>7. /\ th' \in [Threads -> ThreadState] /\ Shape'
        /\ th'["device"].at \notin {"spin", "reset"} /\ th'["network"].at # "enter"
    BY <1>1, <2>4, <2>5, <2>6, ThreadsStep
  <2>8. {bufFreeSize', bufUnsubmittedSize'} \subseteq 0 .. Modulus - 1 /\ bufSubmittedHead' \in 0 .. Total - 1
    BY <1>1, <2>1, ThreadsTypes DEF Assign, TypeOK
  <2> QED BY <1>1, <1>2, <2>6, <2>7, <2>8 DEF TypeOK
<1>14. CASE Give
  <2>1. PICK k \in 0 .. Total :
          /\ k <= net.left /\ net.at = "loop"
          /\ Becomes("network", [net EXCEPT !.at = "update", !.n = k, !.todo = {"unsubmitted", "free"}])
          /\ UNCHANGED <<ring, call, lost>>
    BY <1>14, GiveState
  <2>2. PICK r : r = [net EXCEPT !.at = "update", !.n = k, !.todo = {"unsubmitted", "free"}]
    OBVIOUS
  <2>3. Fits("network", r) /\ r.at # "reset"
    BY <1>1, <2>1, <2>2 DEF Fits, net, ThreadState
  <2> QED BY <1>1, <1>3, <2>1, <2>2, <2>3 DEF call, TypeOK
<1>15. CASE NetworkReturns
  <2>1. PICK r \in ThreadState : r = [net EXCEPT !.at = "idle", !.left = 0, !.kept = Nothing]
    BY <1>1 DEF ThreadState, net, Registers
  <2>2. th' = [th EXCEPT !["network"] = r]
    BY <1>1, <1>15, <2>1 DEF NetworkReturns, net
  <2>3. Becomes("network", r)
    BY <1>1, <2>2, ThreadBecomes
  <2>4. Fits("network", r) /\ r.at # "reset"
    BY <1>1, <1>15, <2>1 DEF Fits, NetworkReturns, net, ThreadState
  <2>5. /\ UNCHANGED <<bufFreeSize, bufUnsubmittedSize, bufSubmittedHead, bufUnsubmittedHead,
                       cbLock, calls, starts, lost>>
        /\ adding' = FALSE /\ audioPendingBytes' \in {bufUnsubmittedSize, audioPendingBytes}
    BY <1>15 DEF NetworkReturns, ring, shared
  <2>6. /\ th' \in [Threads -> ThreadState] /\ Shape'
        /\ th'["device"].at \notin {"spin", "reset"} /\ th'["network"].at # "enter"
    BY <1>1, <2>3, <2>4, <2>5, ThreadsStep
  <2> QED BY <1>1, <1>2, <2>5, <2>6 DEF TypeOK
<1>16. CASE UNCHANGED vars
  <2>1. /\ UNCHANGED <<bufFreeSize, bufUnsubmittedSize, bufSubmittedHead, bufUnsubmittedHead>>
        /\ UNCHANGED <<cbLock, audioPendingBytes, adding, calls, starts, th, lost>>
    BY <1>16 DEF vars, ring, shared, call
  <2> QED BY <1>1, <2>1 DEF TypeOK, Shape, Fits, net
<1> QED BY <1>4, <1>5, <1>6, <1>7, <1>8, <1>9, <1>10, <1>11, <1>12, <1>13, <1>14, <1>15, <1>16
        DEF Next, Device, Network, Threads

(***************************************************************************)
(* No more is taken than there is                                          *)
(***************************************************************************)
\* The numbers the invariants are about.
LEMMA Numbers ==
  ASSUME TypeOK, Shape
  PROVE  /\ bufFreeSize \in Nat /\ bufUnsubmittedSize \in Nat /\ starts \in Nat /\ lost \in Nat
         /\ bufFreeSize < Modulus /\ bufUnsubmittedSize < Modulus
         /\ Total \in Nat \ {0} /\ Modulus \in Nat /\ Modulus > 4 * Total
         /\ \A t \in Threads :
              /\ th[t] \in ThreadState /\ Fits(t, th[t])
              /\ th[t].left \in Nat /\ th[t].n \in Nat
              /\ th[t].reg # Nothing => th[t].reg.value \in Nat
              /\ th[t].kept # Nothing => th[t].kept.value \in Nat
         /\ dev = th["device"] /\ net = th["network"] /\ Threads = {"device", "network"}
<1>1. TypeOK /\ \A t \in Threads : Fits(t, th[t])
  BY DEF Shape
<1>2. \A t \in Threads :
        /\ th[t] \in ThreadState /\ th[t].left \in Nat /\ th[t].n \in Nat
        /\ th[t].reg \in Registers /\ th[t].kept \in Registers
  BY <1>1, ThreadsTypes DEF TypeOK, ThreadState
<1>3. \A r \in Registers : r # Nothing => r.value \in Nat
  BY ThreadsTypes DEF Registers
<1> QED BY <1>1, <1>2, <1>3, ThreadsTypes DEF TypeOK, dev, net, Threads

\* What a store does to the parts of the turn that are done: the one stored is done
\* now, and with the last one the turn is over.
LEMMA StoredParts ==
  ASSUME TypeOK, Shape, NEW t \in Threads, Store(t)
  PROVE  LET v == th[t].reg.of
         IN  \E e \in {0, th[t].n} :
               /\ e = (IF th[t].todo = {v} THEN th[t].n ELSE 0)
               /\ th'[t].left = th[t].left - e
               /\ Part(th[t], v) = 0 /\ Part(th'[t], v) = th[t].n - e
               /\ \A w \in {"head", "unsubmitted", "free"} \ {v} :
                    Part(th'[t], w) = Part(th[t], w) - e
<1>1. PICK v, x :
        /\ v = th[t].reg.of /\ x = Moved(t, v, th[t].reg.value)
        /\ v \in {"head", "unsubmitted", "free"} /\ v \in th[t].todo
        /\ th[t].at = "update" /\ Becomes(t, Stored(t, v, x))
  BY StoreState
<1>2. PICK r : r = Stored(t, v, x)
  OBVIOUS
<1>3. th[t] \in ThreadState /\ th'[t] = r /\ th[t].n \in Nat /\ th[t].left \in Nat
  BY <1>1, <1>2, Numbers DEF Becomes
<1>4. /\ r.todo = th[t].todo \ {v}
      /\ IF r.todo = {} THEN r.at = "loop" /\ r.n = 0 /\ r.left = th[t].left - th[t].n
         ELSE r.at = th[t].at /\ r.n = th[t].n /\ r.left = th[t].left
  <2>1. th[t] \in ThreadState
    BY <1>3
  <2> QED BY <2>1, <1>2, StoredFields
<1>5. r.todo = {} <=> th[t].todo = {v}
  BY <1>1, <1>4
<1>6. CASE th[t].todo = {v}
  BY <1>1, <1>3, <1>4, <1>5, <1>6 DEF Part
<1>7. CASE th[t].todo # {v}
  BY <1>1, <1>3, <1>4, <1>5, <1>7 DEF Part
<1> QED BY <1>6, <1>7

\* The two invariants, thread by thread.
DeviceRoom ==
  /\ StillTaken <= bufUnsubmittedSize
  /\ bufFreeSize + StillFreed < Modulus
  /\ dev.reg # Nothing /\ dev.reg.of = "unsubmitted" =>
       StillTaken <= dev.reg.value /\ dev.reg.value <= bufUnsubmittedSize
  /\ dev.reg # Nothing /\ dev.reg.of = "free" =>
       bufFreeSize <= dev.reg.value /\ dev.reg.value + StillFreed < Modulus

NetworkRoom ==
  /\ StillFilled <= bufFreeSize
  /\ bufUnsubmittedSize + StillAdded < Modulus
  /\ net.kept # Nothing => net.kept.value <= bufFreeSize
  /\ net.reg # Nothing /\ net.reg.of = "free" =>
       StillFilled <= net.reg.value /\ net.reg.value <= bufFreeSize
  /\ net.reg # Nothing /\ net.reg.of = "unsubmitted" =>
       bufUnsubmittedSize <= net.reg.value /\ net.reg.value + StillAdded < Modulus

\* A step of the callback that stores nothing: it may ask for what waits.
LEMMA DevicePauses ==
  ASSUME TypeOK, Shape, DeviceRoom, NetworkRoom, NEW r, Becomes("device", r),
         UNCHANGED <<bufFreeSize, bufUnsubmittedSize>>,
         r.left - Part(r, "unsubmitted") <= bufUnsubmittedSize,
         bufFreeSize + (r.left - Part(r, "free")) < Modulus,
         r.reg = Nothing \/ r.reg.value = Value(r.reg.of)
  PROVE  DeviceRoom' /\ NetworkRoom'
<1>1. dev' = r /\ net' = net
  BY DEF Becomes, dev, net, Threads
<1>2. DeviceRoom'
  <2>1. bufFreeSize \in Nat /\ bufUnsubmittedSize \in Nat
    BY Numbers
  <2>2. StillTaken' = r.left - Part(r, "unsubmitted") /\ StillFreed' = r.left - Part(r, "free")
    BY <1>1 DEF StillTaken, StillFreed, Part
  <2>3. r.reg # Nothing => (r.reg.of = "unsubmitted" => r.reg.value = bufUnsubmittedSize)
                           /\ (r.reg.of = "free" => r.reg.value = bufFreeSize)
    BY DEF Value
  <2> QED BY <1>1, <2>1, <2>2, <2>3 DEF DeviceRoom
<1>3. NetworkRoom'
  BY <1>1 DEF NetworkRoom, StillFilled, StillAdded, Part
<1> QED BY <1>2, <1>3

\* A step of the network thread that stores nothing in the sizes.
LEMMA NetworkPauses ==
  ASSUME TypeOK, Shape, DeviceRoom, NetworkRoom, NEW r, Becomes("network", r),
         UNCHANGED <<bufFreeSize, bufUnsubmittedSize>>,
         r.at = "update" /\ "free" \in r.todo => r.n <= bufFreeSize,
         bufUnsubmittedSize + (r.left - Part(r, "unsubmitted")) < Modulus,
         r.kept = Nothing \/ r.kept = net.kept,
         r.reg = Nothing \/ r.reg.value = Value(r.reg.of)
  PROVE  DeviceRoom' /\ NetworkRoom'
<1>1. net' = r /\ dev' = dev
  BY DEF Becomes, dev, net, Threads
<1>2. NetworkRoom'
  <2>1. bufFreeSize \in Nat /\ bufUnsubmittedSize \in Nat
    BY Numbers
  <2>2. /\ StillAdded' = r.left - Part(r, "unsubmitted")
        /\ StillFilled' = IF r.at = "update" /\ "free" \in r.todo THEN r.n ELSE 0
    BY <1>1 DEF StillAdded, StillFilled, Part
  <2>3. r.reg # Nothing => (r.reg.of = "unsubmitted" => r.reg.value = bufUnsubmittedSize)
                           /\ (r.reg.of = "free" => r.reg.value = bufFreeSize)
    BY DEF Value
  <2> QED BY <1>1, <2>1, <2>2, <2>3 DEF NetworkRoom
<1>3. DeviceRoom'
  BY <1>1 DEF DeviceRoom, StillTaken, StillFreed, Part
<1> QED BY <1>2, <1>3

\* A store of the callback: what it has loaded of what waits is not more than there
\* is, and of what is free not less, so that no other thread's room gets less.
LEMMA DeviceStores ==
  ASSUME TypeOK, Shape, DeviceRoom, NetworkRoom, Store("device")
  PROVE  /\ DeviceRoom' /\ NetworkRoom'
         /\ dev.reg.of = "unsubmitted" =>
              bufUnsubmittedSize' = dev.reg.value - dev.n /\ bufFreeSize' = bufFreeSize
         /\ dev.reg.of = "free" =>
              bufFreeSize' = dev.reg.value + dev.n /\ bufUnsubmittedSize' = bufUnsubmittedSize
<1>1. PICK v, x, r :
        /\ v = dev.reg.of /\ x = Moved("device", v, dev.reg.value)
        /\ v \in {"head", "unsubmitted", "free"} /\ v \in dev.todo /\ dev.at = "update"
        /\ r = th'["device"] /\ r = Stored("device", v, x) /\ Becomes("device", r)
  BY StoreState DEF dev, Threads, Becomes
<1>2. PICK e : /\ r.left = dev.left - e
               /\ Part(dev, v) = 0 /\ Part(r, v) = dev.n - e
               /\ \A w \in {"head", "unsubmitted", "free"} \ {v} : Part(r, w) = Part(dev, w) - e
               /\ e \in {0, dev.n}
  <2>1. "device" \in Threads
    BY DEF Threads
  <2> QED BY <1>1, <2>1, StoredParts DEF dev
<1>3. /\ dev' = r /\ net' = net /\ r.reg = Nothing /\ Assign(v, x) /\ dev.reg # Nothing
  <2>1. dev' = r /\ net' = net
    BY <1>1 DEF Becomes, dev, net, Threads
  <2>2. "device" \in Threads /\ th["device"] \in ThreadState
    BY Numbers DEF Threads
  <2>3. r.reg = Nothing
    BY <1>1, <2>2, StoredFields
  <2>4. Assign(v, x) /\ dev.reg # Nothing
    BY <1>1 DEF Store, dev
  <2> QED BY <2>1, <2>3, <2>4
<1>4. /\ bufFreeSize \in Nat /\ bufUnsubmittedSize \in Nat /\ Modulus \in Nat
      /\ dev.left \in Nat /\ dev.n \in Nat /\ dev.reg.value \in Nat /\ dev.n <= dev.left
      /\ net.left \in Nat /\ net.n \in Nat /\ Part(net, "unsubmitted") \in Nat
      /\ Part(dev, "unsubmitted") \in Nat /\ Part(dev, "free") \in Nat
      /\ net.reg # Nothing => net.reg.value \in Nat
      /\ net.kept # Nothing => net.kept.value \in Nat
  BY <1>1, <1>3, Numbers DEF Fits, Part
<1>5. /\ StillTaken = dev.left - Part(dev, "unsubmitted") /\ StillFreed = dev.left - Part(dev, "free")
      /\ StillTaken' = r.left - Part(r, "unsubmitted") /\ StillFreed' = r.left - Part(r, "free")
      /\ StillAdded' = StillAdded /\ StillFilled' = StillFilled
      /\ StillAdded \in Int /\ StillFilled \in Nat
  BY <1>3, <1>4 DEF StillTaken, StillFreed, StillAdded, StillFilled, Part
<1>6. CASE v = "head"
  <2>1. UNCHANGED <<bufFreeSize, bufUnsubmittedSize>>
    BY <1>3, <1>6 DEF Assign
  <2>2. StillTaken' = StillTaken /\ StillFreed' = StillFreed
    BY <1>2, <1>4, <1>5, <1>6
  <2> QED BY <1>1, <1>3, <1>5, <1>6, <2>1, <2>2 DEF DeviceRoom, NetworkRoom
<1>7. CASE v = "unsubmitted"
  <2>1. StillTaken = dev.left /\ StillTaken' = dev.left - dev.n /\ StillFreed' = StillFreed
    BY <1>2, <1>4, <1>5, <1>7
  <2>2. /\ dev.left <= dev.reg.value /\ dev.reg.value <= bufUnsubmittedSize
        /\ bufUnsubmittedSize < Modulus
    BY <1>1, <1>3, <1>7, <2>1, Numbers DEF DeviceRoom
  <2>3. x = dev.reg.value - dev.n
    <3>1. PICK y \in Int : y = dev.reg.value - dev.n
      BY <1>4
    <3>2. y \in 0 .. Modulus - 1
      BY <1>4, <2>2, <3>1
    <3>3. x = SizeT(y)
      BY <1>1, <1>7, <3>1 DEF Moved, Sum, Grows, dev
    <3> QED BY <3>1, <3>2, <3>3, Wrapped
  <2>4. bufUnsubmittedSize' = dev.reg.value - dev.n /\ bufFreeSize' = bufFreeSize
    BY <1>3, <1>7, <2>3 DEF Assign
  <2>5. DeviceRoom'
    BY <1>3, <1>4, <1>5, <2>1, <2>2, <2>4 DEF DeviceRoom
  <2>6. NetworkRoom'
    BY <1>3, <1>4, <1>5, <2>2, <2>4 DEF NetworkRoom
  <2> QED BY <1>1, <1>7, <2>4, <2>5, <2>6
<1>8. CASE v = "free"
  <2>1. StillFreed = dev.left /\ StillFreed' = dev.left - dev.n /\ StillTaken' = StillTaken
    BY <1>2, <1>4, <1>5, <1>8
  <2>2. bufFreeSize <= dev.reg.value /\ dev.reg.value + dev.left < Modulus
    BY <1>1, <1>3, <1>8, <2>1 DEF DeviceRoom
  <2>3. x = dev.reg.value + dev.n
    <3>1. PICK y \in Int : y = dev.reg.value + dev.n
      BY <1>4
    <3>2. y \in 0 .. Modulus - 1
      BY <1>4, <2>2, <3>1
    <3>3. x = SizeT(y)
      BY <1>1, <1>8, <3>1 DEF Moved, Sum, Grows, dev
    <3> QED BY <3>1, <3>2, <3>3, Wrapped
  <2>4. bufFreeSize' = dev.reg.value + dev.n /\ bufUnsubmittedSize' = bufUnsubmittedSize
    BY <1>3, <1>8, <2>3 DEF Assign
  <2>5. DeviceRoom'
    BY <1>3, <1>4, <1>5, <2>1, <2>2, <2>4 DEF DeviceRoom
  <2>6. NetworkRoom'
    BY <1>3, <1>4, <1>5, <2>2, <2>4 DEF NetworkRoom
  <2> QED BY <1>1, <1>8, <2>4, <2>5, <2>6
<1> QED BY <1>1, <1>6, <1>7, <1>8

\* A store of the network thread, the other way round.
LEMMA NetworkStores ==
  ASSUME TypeOK, Shape, DeviceRoom, NetworkRoom, Store("network")
  PROVE  /\ DeviceRoom' /\ NetworkRoom'
         /\ net.reg.of = "unsubmitted" =>
              bufUnsubmittedSize' = net.reg.value + net.n /\ bufFreeSize' = bufFreeSize
         /\ net.reg.of = "free" =>
              bufFreeSize' = net.reg.value - net.n /\ bufUnsubmittedSize' = bufUnsubmittedSize
<1>1. PICK v, x, r :
        /\ v = net.reg.of /\ x = Moved("network", v, net.reg.value)
        /\ v \in {"head", "unsubmitted", "free"} /\ v \in net.todo /\ net.at = "update"
        /\ r = th'["network"] /\ r = Stored("network", v, x) /\ Becomes("network", r)
  BY StoreState DEF net, Threads, Becomes
<1>2. PICK e : /\ r.left = net.left - e
               /\ Part(net, v) = 0 /\ Part(r, v) = net.n - e
               /\ \A w \in {"head", "unsubmitted", "free"} \ {v} : Part(r, w) = Part(net, w) - e
               /\ e \in {0, net.n}
  <2>1. "network" \in Threads
    BY DEF Threads
  <2> QED BY <1>1, <2>1, StoredParts DEF net
<1>3. /\ net' = r /\ dev' = dev /\ r.reg = Nothing /\ Assign(v, x) /\ net.reg # Nothing
      /\ r.kept \in {Nothing, IF v = "free" THEN [of |-> v, value |-> x] ELSE net.kept}
      /\ r.todo = net.todo \ {v}
      /\ r.todo # {} => r.at = "update" /\ r.n = net.n
  <2>1. net' = r /\ dev' = dev
    BY <1>1 DEF Becomes, dev, net, Threads
  <2>2. "network" \in Threads /\ th["network"] \in ThreadState
    BY Numbers DEF Threads
  <2>3. /\ r.reg = Nothing /\ r.todo = net.todo \ {v}
        /\ r.todo # {} => r.at = "update" /\ r.n = net.n
        /\ r.kept \in {Nothing, IF v = Tested("network") THEN [of |-> v, value |-> x] ELSE net.kept}
    BY <1>1, <2>2, StoredFields DEF net
  <2>4. Assign(v, x) /\ net.reg # Nothing
    BY <1>1 DEF Store, net
  <2> QED BY <2>1, <2>3, <2>4 DEF Tested
<1>4. /\ bufFreeSize \in Nat /\ bufUnsubmittedSize \in Nat /\ Modulus \in Nat
      /\ net.left \in Nat /\ net.n \in Nat /\ net.reg.value \in Nat /\ net.n <= net.left
      /\ dev.left \in Nat /\ dev.n \in Nat
      /\ Part(net, "unsubmitted") \in Nat
      /\ Part(dev, "unsubmitted") \in Nat /\ Part(dev, "free") \in Nat
      /\ dev.reg # Nothing => dev.reg.value \in Nat
      /\ net.kept # Nothing => net.kept.value \in Nat
      /\ v # "head"
  BY <1>1, <1>3, Numbers DEF Fits, Part
<1>5. /\ StillAdded = net.left - Part(net, "unsubmitted")
      /\ StillAdded' = r.left - Part(r, "unsubmitted")
      /\ StillFilled = IF "free" \in net.todo THEN net.n ELSE 0
      /\ StillFilled' = IF v # "free" /\ "free" \in net.todo THEN net.n ELSE 0
      /\ StillTaken' = StillTaken /\ StillFreed' = StillFreed
      /\ StillTaken \in Int /\ StillFreed \in Int
  BY <1>1, <1>3, <1>4 DEF StillTaken, StillFreed, StillAdded, StillFilled, Part
<1>6. CASE v = "unsubmitted"
  <2>1. StillAdded = net.left /\ StillAdded' = net.left - net.n /\ StillFilled' = StillFilled
    BY <1>2, <1>4, <1>5, <1>6
  <2>2. bufUnsubmittedSize <= net.reg.value /\ net.reg.value + net.left < Modulus
    BY <1>1, <1>3, <1>6, <2>1 DEF NetworkRoom
  <2>3. x = net.reg.value + net.n
    <3>1. PICK y \in Int : y = net.reg.value + net.n
      BY <1>4
    <3>2. y \in 0 .. Modulus - 1
      BY <1>4, <2>2, <3>1
    <3>3. x = SizeT(y)
      BY <1>1, <1>6, <3>1 DEF Moved, Sum, Grows, net
    <3> QED BY <3>1, <3>2, <3>3, Wrapped
  <2>4. bufUnsubmittedSize' = net.reg.value + net.n /\ bufFreeSize' = bufFreeSize
    BY <1>3, <1>6, <2>3 DEF Assign
  <2>5. DeviceRoom'
    BY <1>3, <1>4, <1>5, <2>2, <2>4 DEF DeviceRoom
  <2>6. NetworkRoom'
    BY <1>3, <1>4, <1>5, <1>6, <2>1, <2>2, <2>4 DEF NetworkRoom
  <2> QED BY <1>1, <1>6, <2>4, <2>5, <2>6
<1>7. CASE v = "free"
  <2>1. StillFilled = net.n /\ StillFilled' = 0 /\ StillAdded' = StillAdded
    BY <1>1, <1>2, <1>4, <1>5, <1>7
  <2>2. net.n <= net.reg.value /\ net.reg.value <= bufFreeSize /\ bufFreeSize < Modulus
    BY <1>1, <1>3, <1>7, <2>1, Numbers DEF NetworkRoom
  <2>3. x = net.reg.value - net.n
    <3>1. PICK y \in Int : y = net.reg.value - net.n
      BY <1>4
    <3>2. y \in 0 .. Modulus - 1
      BY <1>4, <2>2, <3>1
    <3>3. x = SizeT(y)
      BY <1>1, <1>7, <3>1 DEF Moved, Sum, Grows, net
    <3> QED BY <3>1, <3>2, <3>3, Wrapped
  <2>4. bufFreeSize' = net.reg.value - net.n /\ bufUnsubmittedSize' = bufUnsubmittedSize
    BY <1>3, <1>7, <2>3 DEF Assign
  <2>5. DeviceRoom'
    BY <1>3, <1>4, <1>5, <2>2, <2>4 DEF DeviceRoom
  <2>6. r.kept # Nothing => r.kept.value = bufFreeSize'
    BY <1>3, <1>7, <2>3, <2>4
  <2>7. NetworkRoom'
    BY <1>3, <1>4, <1>5, <2>1, <2>2, <2>4, <2>6 DEF NetworkRoom
  <2> QED BY <1>1, <1>7, <2>4, <2>5, <2>7
<1> QED BY <1>1, <1>4, <1>6, <1>7

LEMMA RoomIsBoth ==
  ASSUME starts = 0 => WaitingInv /\ FreeInv
  PROVE  starts = 0 => DeviceRoom /\ NetworkRoom
BY DEF WaitingInv, FreeInv, DeviceRoom, NetworkRoom

\* Both threads keep the room there is, whatever they do, until a start or a stop.
LEMMA RoomStep ==
  ASSUME TypeOK, Shape, starts = 0 => WaitingInv /\ FreeInv, [Next]_vars, starts' = 0
  PROVE  WaitingInv' /\ FreeInv'
<1> SUFFICES DeviceRoom' /\ NetworkRoom'
  BY DEF WaitingInv, FreeInv, DeviceRoom, NetworkRoom
<1>0. starts = 0 /\ net.at # "reset"
  <2>1. starts' \in {starts, starts + 1} /\ starts \in Nat
    BY Numbers DEF Next, Device, Network, audioOutCallback, SetLock, Take, TakesTurn,
       CallbackReturns, Load, Store, addSamples, SpinEnds, notifyStreamingStartStop, Reset,
       ResetEnds, Give, NetworkReturns, call, vars
  <2> QED BY <2>1 DEF Shape
<1>1. TypeOK /\ Shape /\ DeviceRoom /\ NetworkRoom
  BY <1>0, RoomIsBoth
<1>2. /\ bufFreeSize \in Nat /\ bufUnsubmittedSize \in Nat /\ Modulus \in Nat
      /\ Total \in Nat \ {0} /\ Modulus > 4 * Total
      /\ dev \in ThreadState /\ net \in ThreadState
      /\ Fits("device", dev) /\ Fits("network", net)
      /\ dev.left \in Nat /\ dev.n \in Nat /\ net.left \in Nat /\ net.n \in Nat
  BY Numbers
<1>3. /\ "device" \in Threads /\ "network" \in Threads
      /\ dev = th["device"] /\ net = th["network"]
  BY DEF Threads, dev, net
<1>4. /\ dev.left - Part(dev, "unsubmitted") <= bufUnsubmittedSize
      /\ bufFreeSize + (dev.left - Part(dev, "free")) < Modulus
      /\ bufUnsubmittedSize + (net.left - Part(net, "unsubmitted")) < Modulus
      /\ net.at = "update" /\ "free" \in net.todo => net.n <= bufFreeSize
  BY <1>1 DEF DeviceRoom, NetworkRoom, StillTaken, StillFreed, StillAdded, StillFilled
<1>5. ASSUME NEW period \in Periods, audioOutCallback(period) PROVE DeviceRoom' /\ NetworkRoom'
  <2>1. period \in 1 .. Total
    BY ThreadsTypes
  <2>2. PICK k \in Nat : /\ k = Least(bufUnsubmittedSize, period)
                         /\ k <= bufUnsubmittedSize /\ k <= Total
    BY <1>2, <2>1 DEF Least
  <2>3. PICK r : r = [dev EXCEPT !.at = "enter", !.left = k]
    OBVIOUS
  <2>4. r \in ThreadState /\ r.at = "enter" /\ r.left = k /\ r.reg = dev.reg
    BY <1>2, <2>3 DEF ThreadState
  <2>5. th' = [th EXCEPT !["device"] = r]
    BY <1>1, <1>3, <1>5, <2>2, <2>3 DEF audioOutCallback
  <2>6. Becomes("device", r)
    BY <1>1, <1>3, <2>4, <2>5, ThreadBecomes
  <2>7. dev.reg = Nothing
    BY <1>2, <1>3, <1>5 DEF Fits, audioOutCallback
  <2>8. Part(r, "unsubmitted") = 0 /\ Part(r, "free") = 0
    BY <2>4 DEF Part
  <2>9. bufFreeSize < Modulus \div 2
    BY <1>5 DEF audioOutCallback, Orderly
  <2>10. bufFreeSize + k < Modulus
    BY <1>2, <2>2, <2>9
  <2>11. UNCHANGED <<bufFreeSize, bufUnsubmittedSize>>
    BY <1>5 DEF audioOutCallback, ring, shared
  <2> QED BY <1>1, <1>2, <2>2, <2>4, <2>6, <2>7, <2>8, <2>10, <2>11, DevicePauses
<1>6. ASSUME NEW r \in ThreadState, th' = [th EXCEPT !["device"] = r], dev.at # "update",
             dev.left = r.left, r.at # "update", r.reg = dev.reg,
             UNCHANGED <<bufFreeSize, bufUnsubmittedSize>>
      PROVE  DeviceRoom' /\ NetworkRoom'
  <2>1. Becomes("device", r)
    BY <1>1, <1>3, <1>6, ThreadBecomes
  <2>2. r.reg = Nothing
    BY <1>2, <1>6 DEF Fits
  <2>3. /\ Part(r, "unsubmitted") = Part(dev, "unsubmitted")
        /\ Part(r, "free") = Part(dev, "free")
    BY <1>6 DEF Part
  <2> QED BY <1>1, <1>4, <1>6, <2>1, <2>2, <2>3, DevicePauses
<1>7. CASE SetLock
  <2>1. PICK r : r = [dev EXCEPT !.at = "loop"]
    OBVIOUS
  <2>2. /\ r \in ThreadState /\ r.left = dev.left /\ r.reg = dev.reg /\ r.at # "update"
    BY <1>2, <2>1 DEF ThreadState
  <2>3. th' = [th EXCEPT !["device"] = r] /\ dev.at # "update"
    BY <1>1, <1>3, <1>7, <2>1 DEF SetLock
  <2> QED BY <1>6, <1>7, <2>2, <2>3 DEF SetLock, ring, shared
<1>8. CASE CallbackReturns
  <2>1. PICK r : r = [dev EXCEPT !.at = "idle"]
    OBVIOUS
  <2>2. /\ r \in ThreadState /\ r.left = dev.left /\ r.reg = dev.reg /\ r.at # "update"
    BY <1>2, <2>1 DEF ThreadState
  <2>3. th' = [th EXCEPT !["device"] = r] /\ dev.at # "update"
    BY <1>1, <1>3, <1>8, <2>1 DEF CallbackReturns
  <2> QED BY <1>6, <1>8, <2>2, <2>3 DEF CallbackReturns, ring, shared
<1>9. CASE Take
  <2>1. PICK k \in 0 .. Total :
          /\ dev.at = "loop"
          /\ Becomes("device", [dev EXCEPT !.at = "update", !.n = k,
                                          !.todo = {"head", "unsubmitted", "free"}])
          /\ UNCHANGED <<ring, call, lost>>
    BY <1>1, <1>9, TakeState
  <2>2. PICK r : r = [dev EXCEPT !.at = "update", !.n = k, !.todo = {"head", "unsubmitted", "free"}]
    OBVIOUS
  <2>3. r.left = dev.left /\ r.reg = dev.reg /\ r.todo = {"head", "unsubmitted", "free"}
    BY <1>2, <2>2 DEF ThreadState
  <2>4. /\ Part(r, "unsubmitted") = 0 /\ Part(r, "free") = 0
        /\ Part(dev, "unsubmitted") = 0 /\ Part(dev, "free") = 0
    BY <2>1, <2>3 DEF Part
  <2>5. r.reg = Nothing
    BY <1>2, <2>1, <2>3 DEF Fits
  <2>6. UNCHANGED <<bufFreeSize, bufUnsubmittedSize>> /\ Becomes("device", r)
    BY <2>1, <2>2 DEF ring, shared
  <2> QED BY <1>1, <1>4, <2>3, <2>4, <2>5, <2>6, DevicePauses
<1>10. CASE Load("device")
  <2>1. PICK v :
          /\ v \in {"head", "unsubmitted", "free"}
          /\ Becomes("device", [dev EXCEPT !.reg = [of |-> v, value |-> Value(v)]])
    BY <1>1, <1>3, <1>10, LoadState
  <2>2. PICK r : r = [dev EXCEPT !.reg = [of |-> v, value |-> Value(v)]]
    OBVIOUS
  <2>3. /\ r.left = dev.left /\ r.reg.value = Value(r.reg.of)
        /\ Part(r, "unsubmitted") = Part(dev, "unsubmitted") /\ Part(r, "free") = Part(dev, "free")
    BY <1>2, <2>2 DEF ThreadState, Part
  <2>4. UNCHANGED <<bufFreeSize, bufUnsubmittedSize>> /\ Becomes("device", r)
    BY <1>10, <2>1, <2>2 DEF Load, ring, shared
  <2> QED BY <1>1, <1>4, <2>3, <2>4, DevicePauses
<1>11. ASSUME NEW r \in ThreadState, th' = [th EXCEPT !["network"] = r], net.at # "update",
              bufUnsubmittedSize + r.left < Modulus, r.at # "update", r.reg = net.reg,
              r.kept = Nothing \/ r.kept = net.kept,
              UNCHANGED <<bufFreeSize, bufUnsubmittedSize>>
       PROVE  DeviceRoom' /\ NetworkRoom'
  <2>1. Becomes("network", r)
    BY <1>1, <1>3, <1>11, ThreadBecomes
  <2>2. r.reg = Nothing
    BY <1>2, <1>11 DEF Fits
  <2>3. Part(r, "unsubmitted") = 0 /\ r.left - 0 = r.left
    BY <1>11 DEF Part, ThreadState
  <2> QED BY <1>1, <1>11, <2>1, <2>2, <2>3, NetworkPauses
<1>12. ASSUME NEW size \in Sizes, addSamples(size) PROVE DeviceRoom' /\ NetworkRoom'
  <2>1. size \in Nat /\ size <= Modulus \div 2
    BY ThreadsTypes
  <2>2. PICK k \in {size, size \div 2} :
          th' = [th EXCEPT !["network"].at = "spin", !["network"].left = k]
    BY <1>12 DEF addSamples
  <2>8. k \in Nat /\ k <= size
    <3>1. size \div 2 \in Nat /\ size \div 2 <= size
      BY <2>1
    <3> QED BY <2>1, <2>2, <3>1
  <2>3. PICK r : r = [net EXCEPT !.at = "spin", !.left = k]
    OBVIOUS
  <2>4. /\ r \in ThreadState /\ r.left = k /\ r.reg = net.reg /\ r.at # "update"
        /\ r.kept = net.kept
    BY <1>2, <2>3, <2>8 DEF ThreadState
  <2>5. th' = [th EXCEPT !["network"] = r] /\ net.at # "update"
    BY <1>1, <1>3, <1>12, <2>2, <2>3 DEF addSamples
  <2>6. bufUnsubmittedSize < Modulus \div 2 /\ UNCHANGED <<bufFreeSize, bufUnsubmittedSize>>
    BY <1>12 DEF addSamples, Orderly, ring, shared
  <2>7. bufUnsubmittedSize + k < Modulus
    BY <1>2, <2>1, <2>6, <2>8
  <2> QED BY <1>11, <2>4, <2>5, <2>6, <2>7
<1>13. net.at # "update" => bufUnsubmittedSize + net.left < Modulus
  BY <1>2, <1>4 DEF Part
<1>14. CASE SpinEnds
  <2>1. PICK r : r = [net EXCEPT !.at = "loop"]
    OBVIOUS
  <2>2. /\ r \in ThreadState /\ r.left = net.left /\ r.reg = net.reg /\ r.at # "update"
        /\ r.kept = net.kept
    BY <1>2, <2>1 DEF ThreadState
  <2>3. th' = [th EXCEPT !["network"] = r] /\ net.at # "update"
    BY <1>1, <1>3, <1>14, <2>1 DEF SpinEnds
  <2>4. UNCHANGED <<bufFreeSize, bufUnsubmittedSize>>
    BY <1>14 DEF SpinEnds, ring, shared
  <2> QED BY <1>11, <1>13, <2>2, <2>3, <2>4
<1>15. CASE Give
  <2>1. PICK k \in 0 .. Total :
          /\ net.at = "loop"
          /\ k <= bufFreeSize \/ (net.kept # Nothing /\ k <= net.kept.value)
          /\ Becomes("network", [net EXCEPT !.at = "update", !.n = k,
                                           !.todo = {"unsubmitted", "free"}])
          /\ UNCHANGED <<ring, call, lost>>
    BY <1>1, <1>15, GiveState
  <2>2. k <= bufFreeSize
    <3>1. net.kept # Nothing => net.kept.value \in Nat /\ net.kept.value <= bufFreeSize
      BY <1>1, <1>3, Numbers DEF NetworkRoom
    <3> QED BY <1>2, <2>1, <3>1
  <2>3. PICK r : r = [net EXCEPT !.at = "update", !.n = k, !.todo = {"unsubmitted", "free"}]
    OBVIOUS
  <2>4. /\ r.left = net.left /\ r.reg = net.reg /\ r.n = k /\ r.kept = net.kept
        /\ Part(r, "unsubmitted") = 0 /\ Part(net, "unsubmitted") = 0
    BY <1>2, <2>1, <2>3 DEF ThreadState, Part
  <2>5. r.reg = Nothing
    BY <1>2, <2>1, <2>4 DEF Fits
  <2>6. UNCHANGED <<bufFreeSize, bufUnsubmittedSize>> /\ Becomes("network", r)
    BY <2>1, <2>3 DEF ring, shared
  <2> QED BY <1>1, <1>4, <2>2, <2>4, <2>5, <2>6, NetworkPauses
<1>16. CASE NetworkReturns
  <2>1. PICK r : r = [net EXCEPT !.at = "idle", !.left = 0, !.kept = Nothing]
    OBVIOUS
  <2>2. /\ r \in ThreadState /\ r.left = 0 /\ r.reg = net.reg /\ r.at # "update"
        /\ r.kept = Nothing
    BY <1>2, <2>1 DEF ThreadState, Registers
  <2>3. th' = [th EXCEPT !["network"] = r] /\ net.at # "update"
    BY <1>1, <1>3, <1>16, <2>1 DEF NetworkReturns
  <2>4. UNCHANGED <<bufFreeSize, bufUnsubmittedSize>> /\ bufUnsubmittedSize + 0 < Modulus
    BY <1>16, <1>2, Numbers DEF NetworkReturns, ring, shared
  <2> QED BY <1>11, <2>2, <2>3, <2>4
<1>17. CASE Load("network")
  <2>1. PICK v :
          /\ v \in {"head", "unsubmitted", "free"}
          /\ Becomes("network", [net EXCEPT !.reg = [of |-> v, value |-> Value(v)]])
    BY <1>1, <1>3, <1>17, LoadState
  <2>2. PICK r : r = [net EXCEPT !.reg = [of |-> v, value |-> Value(v)]]
    OBVIOUS
  <2>3. /\ r.left = net.left /\ r.reg.value = Value(r.reg.of) /\ r.kept = net.kept
        /\ r.at = net.at /\ r.todo = net.todo /\ r.n = net.n
        /\ Part(r, "unsubmitted") = Part(net, "unsubmitted")
    BY <1>2, <2>2 DEF ThreadState, Part
  <2>4. UNCHANGED <<bufFreeSize, bufUnsubmittedSize>> /\ Becomes("network", r)
    BY <1>17, <2>1, <2>2 DEF Load, ring, shared
  <2> QED BY <1>1, <1>4, <2>3, <2>4, NetworkPauses
<1>18. ASSUME notifyStreamingStartStop \/ Reset \/ ResetEnds PROVE FALSE
  <2>1. starts \in Nat
    BY Numbers
  <2> QED BY <1>0, <1>3, <1>18, <2>1 DEF notifyStreamingStartStop, Reset, ResetEnds
<1>19. CASE UNCHANGED vars
  <2>1. UNCHANGED <<bufFreeSize, bufUnsubmittedSize, th>>
    BY <1>19 DEF vars, ring, shared
  <2> QED BY <1>1, <2>1 DEF DeviceRoom, NetworkRoom, StillTaken, StillFreed, StillAdded,
             StillFilled, Part, dev, net
<1>20. CASE Store("device") \/ Store("network")
  BY <1>1, <1>20, DeviceStores, NetworkStores
<1> QED BY <1>5, <1>7, <1>8, <1>9, <1>10, <1>12, <1>14, <1>15, <1>16, <1>17, <1>18, <1>19,
           <1>20 DEF Next, Device, Network

(***************************************************************************)
(* Places in the ring                                                      *)
(***************************************************************************)
\* Only zero is a multiple of the ring's size and less than it.
LEMMA NoTurnsBetween ==
  ASSUME NEW q \in Int, q * Total < Total, -Total < q * Total
  PROVE  q * Total = 0
<1>1. Total \in Int /\ Total > 0
  BY ThreadsTypes
<1>2. CASE q >= 1
  BY <1>1, <1>2, Z3
<1>3. CASE q <= -1
  BY <1>1, <1>3, Z3
<1>4. CASE q = 0
  BY <1>1, <1>4
<1> QED BY <1>2, <1>3, <1>4

LEMMA WrapTurns ==
  ASSUME NEW x \in Int
  PROVE  \E q \in Int : Wrap(x) = x + q * Total
<1>1. Total \in Int /\ Total > 0
  BY ThreadsTypes
<1>2. PICK d \in Int, m \in Int : d = x \div Total /\ m = x % Total
  BY <1>1
<1>3. x = d * Total + m
  BY <1>1, <1>2, Z3
<1>4. (-d) * Total = -(d * Total)
  BY <1>1, Z3
<1>5. PICK y \in Int : y = d * Total
  BY <1>1
<1>6. Wrap(x) = x + (-y)
  <2>1. x = y + m
    BY <1>3, <1>5
  <2>2. m = x + (-y)
    BY <2>1
  <2> QED BY <1>2, <2>2 DEF Wrap
<1>7. Wrap(x) = x + (-d) * Total /\ -d \in Int
  BY <1>4, <1>5, <1>6
<1> QED BY <1>7

\* Both places move by as much, up to whole turns of the ring.
LEMMA PlacesMove ==
  ASSUME NEW a \in Int, NEW b \in Int, NEW c \in Int, NEW d \in Int,
         SamePlace(a, b),
         NEW p \in Int, NEW q \in Int, c - d = a - b + p * Total + q * Total
  PROVE  SamePlace(c, d)
<1>1. Total \in Int
  BY ThreadsTypes
<1>2. PICK k \in Int : a = b + k * Total
  BY DEF SamePlace
<1>3. (k + p + q) * Total = k * Total + p * Total + q * Total
  BY <1>1, Z3
<1>4. k * Total \in Int /\ p * Total \in Int /\ q * Total \in Int
  BY <1>1
<1>5. PICK x \in Int, y \in Int, z \in Int : x = k * Total /\ y = p * Total /\ z = q * Total
  BY <1>4
<1>6. c = d + (x + y + z)
  BY <1>2, <1>5
<1>7. c = d + (k + p + q) * Total
  BY <1>3, <1>5, <1>6
<1> QED BY <1>7 DEF SamePlace

\* The one place in the ring.
LEMMA PlaceIsWrap ==
  ASSUME NEW a \in 0 .. Total - 1, NEW b \in Int, SamePlace(a, b)
  PROVE  a = Wrap(b)
<1>1. Total \in Int /\ Total > 0 /\ a \in Int
  BY ThreadsTypes
<1>2. PICK k \in Int : a = b + k * Total
  BY DEF SamePlace
<1>3. PICK q \in Int : Wrap(b) = b + q * Total
  BY WrapTurns
<1>4. PICK w \in Int : w = Wrap(b) /\ 0 <= w /\ w < Total
  BY <1>1, Wrapped
<1>5. (k - q) * Total = k * Total - q * Total
  BY <1>1, Z3
<1>6. k * Total \in Int /\ q * Total \in Int
  BY <1>1
<1>7. (k - q) * Total = a - w
  <2>1. PICK x \in Int, y \in Int : x = k * Total /\ y = q * Total
    BY <1>6
  <2>2. a = b + x
    BY <1>2, <2>1
  <2>3. w = b + y
    BY <1>3, <1>4, <2>1
  <2>4. (k - q) * Total = x - y
    BY <1>5, <2>1
  <2>5. x - y = a - w
    BY <1>1, <1>4, <2>2, <2>3
  <2> QED BY <2>4, <2>5
<1>8. PICK z \in Int : z = (k - q) * Total /\ z = a - w
  BY <1>1, <1>4, <1>7
<1>9. z = 0
  <2>1. z < Total /\ -Total < z
    BY <1>1, <1>4, <1>8
  <2> QED BY <1>8, <2>1, NoTurnsBetween
<1> QED BY <1>1, <1>4, <1>8, <1>9

(***************************************************************************)
(* Sizes and heads agree                                                   *)
(***************************************************************************)
\* A step that stores nothing finishes no part of a turn.
LEMMA Pause ==
  ASSUME TypeOK, Shape, Next, starts' = 0, ~Store("device"), ~Store("network")
  PROVE  /\ UNCHANGED ring /\ starts = 0 /\ lost' = lost
         /\ \A v \in {"head", "unsubmitted", "free"} : Part(dev', v) = Part(dev, v)
         /\ \A v \in {"unsubmitted", "free"} : Part(net', v) = Part(net, v)
<1>0. starts = 0 /\ net.at # "reset"
  <2>1. starts' \in {starts, starts + 1} /\ starts \in Nat
    BY Numbers DEF Next, Device, Network, audioOutCallback, SetLock, Take, TakesTurn,
       CallbackReturns, Load, addSamples, SpinEnds, notifyStreamingStartStop, Reset,
       ResetEnds, Give, NetworkReturns, call
  <2> QED BY <2>1 DEF Shape
<1>1. TypeOK /\ Shape
  OBVIOUS
<1>2. /\ "device" \in Threads /\ "network" \in Threads /\ "device" # "network"
      /\ dev = th["device"] /\ net = th["network"]
      /\ dev' = th'["device"] /\ net' = th'["network"]
      /\ dev \in ThreadState /\ net \in ThreadState
  BY Numbers DEF Threads, dev, net
<1>3. ASSUME NEW r \in ThreadState, NEW t \in Threads, th' = [th EXCEPT ![t] = r],
             th[t].at # "update", r.at # "update", UNCHANGED <<ring, starts, lost>>
      PROVE  /\ \A v : Part(dev', v) = Part(dev, v)
             /\ \A v : Part(net', v) = Part(net, v)
             /\ UNCHANGED ring /\ lost' = lost
  <2>1. Becomes(t, r)
    BY <1>1, <1>3, ThreadBecomes
  <2> QED BY <1>2, <1>3, <2>1 DEF Becomes, Part, Threads
<1>4. ASSUME NEW period \in Periods, audioOutCallback(period)
      PROVE  /\ \A v : Part(dev', v) = Part(dev, v)
             /\ \A v : Part(net', v) = Part(net, v)
             /\ UNCHANGED ring /\ lost' = lost
  <2>1. period \in 1 .. Total /\ bufUnsubmittedSize \in Nat
    BY ThreadsTypes, Numbers
  <2>2. PICK k \in Nat : k = Least(bufUnsubmittedSize, period)
    BY <2>1 DEF Least
  <2>3. PICK r : r = [dev EXCEPT !.at = "enter", !.left = k]
    OBVIOUS
  <2>4. r \in ThreadState /\ r.at = "enter"
    BY <1>2, <2>3 DEF ThreadState
  <2>5. th' = [th EXCEPT !["device"] = r] /\ th["device"].at # "update"
    BY <1>1, <1>2, <1>4, <2>2, <2>3 DEF audioOutCallback
  <2>6. UNCHANGED <<ring, starts, lost>>
    BY <1>4 DEF audioOutCallback, call
  <2> QED BY <1>2, <1>3, <2>4, <2>5, <2>6
<1>5. CASE SetLock \/ CallbackReturns
  <2>1. PICK a \in {"loop", "idle"} : th' = [th EXCEPT !["device"].at = a]
    BY <1>5 DEF SetLock, CallbackReturns
  <2>2. PICK r : r = [dev EXCEPT !.at = a]
    OBVIOUS
  <2>3. r \in ThreadState /\ r.at = a
    BY <1>2, <2>1, <2>2 DEF ThreadState
  <2>4. th' = [th EXCEPT !["device"] = r]
    BY <1>2, <2>1, <2>2
  <2>5. UNCHANGED <<ring, starts, lost>> /\ th["device"].at # "update"
    BY <1>5 DEF SetLock, CallbackReturns
  <2> QED BY <1>2, <1>3, <2>1, <2>3, <2>4, <2>5
<1>6. CASE Take
  <2>1. PICK k \in 0 .. Total :
          /\ dev.at = "loop"
          /\ Becomes("device", [dev EXCEPT !.at = "update", !.n = k,
                                          !.todo = {"head", "unsubmitted", "free"}])
          /\ UNCHANGED <<ring, call, lost>>
    BY <1>1, <1>6, TakeState
  <2>2. PICK r : r = [dev EXCEPT !.at = "update", !.n = k, !.todo = {"head", "unsubmitted", "free"}]
    OBVIOUS
  <2>3. r.todo = {"head", "unsubmitted", "free"}
    BY <1>2, <2>2 DEF ThreadState
  <2>4. dev' = r /\ net' = net
    BY <1>2, <2>1, <2>2 DEF Becomes, Threads
  <2> QED BY <1>0, <2>1, <2>3, <2>4 DEF Part
<1>7. ASSUME NEW t \in Threads, Load(t)
      PROVE  /\ \A v : Part(dev', v) = Part(dev, v)
             /\ \A v : Part(net', v) = Part(net, v)
             /\ UNCHANGED ring /\ lost' = lost
  <2>1. PICK v : Becomes(t, [th[t] EXCEPT !.reg = [of |-> v, value |-> Value(v)]])
    BY <1>1, <1>7, LoadState
  <2>2. PICK r : r = [th[t] EXCEPT !.reg = [of |-> v, value |-> Value(v)]]
    OBVIOUS
  <2>3. th[t] \in ThreadState
    BY Numbers
  <2>4. r.at = th[t].at /\ r.todo = th[t].todo /\ r.n = th[t].n
    BY <2>2, <2>3 DEF ThreadState
  <2> QED BY <1>2, <1>7, <2>1, <2>2, <2>4 DEF Becomes, Part, Load, Threads
<1>8. ASSUME NEW size \in Sizes, addSamples(size)
      PROVE  /\ \A v : Part(dev', v) = Part(dev, v)
             /\ \A v : Part(net', v) = Part(net, v)
             /\ UNCHANGED ring /\ lost' = lost
  <2>1. PICK k \in {size, size \div 2} :
          th' = [th EXCEPT !["network"].at = "spin", !["network"].left = k]
    BY <1>8 DEF addSamples
  <2>2. k \in Nat
    BY <2>1, ThreadsTypes
  <2>3. PICK r : r = [net EXCEPT !.at = "spin", !.left = k]
    OBVIOUS
  <2>4. r \in ThreadState /\ r.at = "spin"
    BY <1>2, <2>2, <2>3 DEF ThreadState
  <2>5. th' = [th EXCEPT !["network"] = r] /\ th["network"].at # "update"
    BY <1>1, <1>2, <1>8, <2>1, <2>3 DEF addSamples
  <2>6. UNCHANGED <<ring, starts, lost>>
    BY <1>8 DEF addSamples
  <2> QED BY <1>2, <1>3, <2>4, <2>5, <2>6
<1>9. CASE SpinEnds
  <2>1. PICK r : r = [net EXCEPT !.at = "loop"]
    OBVIOUS
  <2>2. r \in ThreadState /\ r.at = "loop"
    BY <1>2, <2>1 DEF ThreadState
  <2>3. th' = [th EXCEPT !["network"] = r] /\ th["network"].at # "update"
    BY <1>1, <1>2, <1>9, <2>1 DEF SpinEnds
  <2>4. UNCHANGED <<ring, starts, lost>>
    BY <1>9 DEF SpinEnds, call
  <2> QED BY <1>0, <1>2, <1>3, <2>2, <2>3, <2>4
<1>10. CASE Give
  <2>1. PICK k \in 0 .. Total :
          /\ net.at = "loop"
          /\ Becomes("network", [net EXCEPT !.at = "update", !.n = k,
                                           !.todo = {"unsubmitted", "free"}])
          /\ UNCHANGED <<ring, call, lost>>
    BY <1>1, <1>10, GiveState
  <2>2. PICK r : r = [net EXCEPT !.at = "update", !.n = k, !.todo = {"unsubmitted", "free"}]
    OBVIOUS
  <2>3. r.todo = {"unsubmitted", "free"}
    BY <1>2, <2>2 DEF ThreadState
  <2>4. net' = r /\ dev' = dev
    BY <1>2, <2>1, <2>2 DEF Becomes, Threads
  <2> QED BY <1>0, <2>1, <2>3, <2>4 DEF Part
<1>11. CASE NetworkReturns
  <2>1. PICK r : r = [net EXCEPT !.at = "idle", !.left = 0, !.kept = Nothing]
    OBVIOUS
  <2>2. r \in ThreadState /\ r.at = "idle"
    BY <1>2, <2>1 DEF ThreadState, Registers
  <2>3. th' = [th EXCEPT !["network"] = r] /\ th["network"].at # "update"
    BY <1>1, <1>2, <1>11, <2>1 DEF NetworkReturns
  <2>4. UNCHANGED <<ring, starts, lost>>
    BY <1>11 DEF NetworkReturns
  <2> QED BY <1>0, <1>2, <1>3, <2>2, <2>3, <2>4
<1>12. ASSUME notifyStreamingStartStop \/ Reset \/ ResetEnds PROVE FALSE
  <2>1. starts \in Nat
    BY Numbers
  <2> QED BY <1>0, <1>2, <1>12, <2>1 DEF notifyStreamingStartStop, Reset, ResetEnds
<1> QED BY <1>0, <1>2, <1>4, <1>5, <1>6, <1>7, <1>8, <1>9, <1>10, <1>11, <1>12
        DEF Next, Device, Network

\* A store that undoes nothing changes a size by just what it is about, and the parts of
\* the turn with it.
LEMMA AgreeStore ==
  ASSUME TypeOK, Shape, DeviceRoom, NetworkRoom, SizesInv, HeadsInv,
         NEW t \in Threads, Store(t), lost = 0, lost' = 0
  PROVE  SizesInv' /\ HeadsInv'
<1>1. PICK v, x :
        /\ v = th[t].reg.of /\ x = Moved(t, v, th[t].reg.value)
        /\ v \in {"head", "unsubmitted", "free"} /\ v \in th[t].todo /\ th[t].at = "update"
        /\ Becomes(t, Stored(t, v, x))
  BY StoreState
<1>2. PICK e \in {0, th[t].n} :
        /\ e = (IF th[t].todo = {v} THEN th[t].n ELSE 0)
        /\ Part(th[t], v) = 0 /\ Part(th'[t], v) = th[t].n - e
        /\ \A w \in {"head", "unsubmitted", "free"} \ {v} : Part(th'[t], w) = Part(th[t], w) - e
  BY <1>1, StoredParts
<1>3. /\ Value(v) = th[t].reg.value /\ Assign(v, x)
      /\ bufUnsubmittedHead' = IF t = "network" /\ e = th[t].n /\ th[t].todo = {v}
                               THEN Wrap(bufUnsubmittedHead + e) ELSE bufUnsubmittedHead
  <2>1. Value(v) = th[t].reg.value /\ Assign(v, x)
    BY <1>1 DEF Store
  <2>2. PICK r : r = [th[t] EXCEPT !.reg = Nothing, !.todo = @ \ {v},
                 !.kept = IF v = Tested(t) THEN [of |-> v, value |-> x] ELSE @]
    OBVIOUS
  <2>3. r.todo = th[t].todo \ {v} /\ r.n = th[t].n
    BY <2>2, Numbers DEF ThreadState
  <2>4. bufUnsubmittedHead' = IF t = "network" /\ r.todo = {}
                                 THEN Wrap(bufUnsubmittedHead + r.n)
                                 ELSE bufUnsubmittedHead
    BY <1>1, <2>2 DEF Store
  <2>5. r.todo = {} <=> th[t].todo = {v}
    BY <1>1, <2>3
  <2> QED BY <1>2, <2>1, <2>3, <2>4, <2>5
<1>4. /\ bufFreeSize \in Int /\ bufUnsubmittedSize \in Int /\ Total \in Int
      /\ bufSubmittedHead \in Int /\ bufUnsubmittedHead \in Int
      /\ th[t].n \in Int /\ e \in Int
      /\ \A w : Part(dev, w) \in Int /\ Part(net, w) \in Int
  <2>1. bufSubmittedHead \in Int /\ bufUnsubmittedHead \in Int
    BY ThreadsTypes DEF TypeOK
  <2>2. \A w : Part(dev, w) \in Int /\ Part(net, w) \in Int
    BY Numbers DEF Part
  <2> QED BY <1>2, <2>1, <2>2, Numbers
<1>5. PICK U \in Int, F \in Int, S \in Int, H \in Int,
           dh \in Int, du \in Int, df \in Int, nu \in Int, nf \in Int, n \in Int :
        /\ U = bufUnsubmittedSize /\ F = bufFreeSize /\ S = bufSubmittedHead /\ H = bufUnsubmittedHead
        /\ dh = Part(dev, "head") /\ du = Part(dev, "unsubmitted") /\ df = Part(dev, "free")
        /\ nu = Part(net, "unsubmitted") /\ nf = Part(net, "free") /\ n = th[t].n
  BY <1>4
<1>6. /\ F + U + du + nf = Total + df + nu
      /\ SamePlace(H + nu + dh, S + U + du)
  BY <1>5 DEF SizesInv, HeadsInv
<1>7. CASE t = "device"
  <2>1. dev = th[t] /\ dev' = th'[t] /\ net' = net
    BY <1>1, <1>7 DEF Becomes, dev, net, Threads
  <2>2. Part(net', "unsubmitted") = nu /\ Part(net', "free") = nf
    BY <1>5, <2>1
  <2>3. bufUnsubmittedHead' = H
    BY <1>3, <1>5, <1>7
  <2>4. CASE v = "head"
    <3>1. /\ dh = 0 /\ Part(dev', "head") = n - e /\ Part(dev', "unsubmitted") = du - e
          /\ Part(dev', "free") = df - e
      BY <1>2, <1>5, <2>1, <2>4
    <3>2. bufUnsubmittedSize' = U /\ bufFreeSize' = F /\ bufSubmittedHead' = Wrap(S + n)
      BY <1>1, <1>3, <1>5, <2>4 DEF Assign, Moved, Value
    <3>3. SizesInv'
      <4>1. F + U + (du - e) + nf = Total + (df - e) + nu
        BY <1>4, <1>6
      <4> QED BY <2>2, <3>1, <3>2, <4>1 DEF SizesInv
    <3>4. PICK y \in Int : y = S + n
      BY <1>5
    <3>5. PICK q \in Int : Wrap(y) = y + q * Total
      BY WrapTurns
    <3>6. PICK z \in Int : z = q * Total
      BY <1>4
    <3>7. PICK w \in Int : w = bufSubmittedHead' /\ w = S + n + z
      BY <3>2, <3>4, <3>5, <3>6
    <3>8. PICK m \in Int : m = -q /\ m * Total = -z
      <4>1. (-q) * Total = -z
        BY <1>4, <3>6, Z3
      <4> QED BY <4>1
    <3>9. PICK a \in Int, b \in Int, c \in Int, d \in Int :
            /\ a = H + nu + dh /\ b = S + U + du
            /\ c = H + nu + (n - e) /\ d = w + U + (du - e)
      BY <1>2, <1>4
    <3>10. 0 * Total = 0
      BY <1>4
    <3>11. c - d = a - b + m * Total + 0 * Total
      BY <1>4, <3>1, <3>7, <3>8, <3>9, <3>10
    <3>12. SamePlace(c, d)
      <4>1. SamePlace(a, b) /\ 0 \in Int
        BY <1>6, <3>9
      <4> QED BY <3>11, <4>1, PlacesMove
    <3>13. SamePlace(H + nu + (n - e), w + U + (du - e))
      BY <3>9, <3>12
    <3>14. HeadsInv'
      BY <2>2, <2>3, <3>1, <3>2, <3>7, <3>13 DEF HeadsInv
    <3> QED BY <3>3, <3>14
  <2>5. CASE v # "head"
    <3>1. bufSubmittedHead' = S
      BY <1>3, <1>5, <2>5 DEF Assign
    <3>2. /\ bufUnsubmittedSize' + Part(dev', "unsubmitted") = U + du - e
          /\ Part(dev', "head") = dh - e
          /\ bufFreeSize' - Part(dev', "free") = F - df + e
          /\ bufUnsubmittedSize' \in Int /\ bufFreeSize' \in Int
          /\ Part(dev', "unsubmitted") \in Int /\ Part(dev', "free") \in Int
      <4>1. CASE v = "unsubmitted"
        <5>1. bufUnsubmittedSize' = U - n /\ bufFreeSize' = F
          BY <1>1, <1>3, <1>5, <1>7, <2>1, <4>1, DeviceStores DEF Value
        <5>2. /\ du = 0 /\ Part(dev', "unsubmitted") = n - e /\ Part(dev', "head") = dh - e
              /\ Part(dev', "free") = df - e
          BY <1>2, <1>5, <2>1, <4>1
        <5> QED BY <1>4, <5>1, <5>2
      <4>2. CASE v = "free"
        <5>1. bufFreeSize' = F + n /\ bufUnsubmittedSize' = U
          BY <1>1, <1>3, <1>5, <1>7, <2>1, <4>2, DeviceStores DEF Value
        <5>2. /\ df = 0 /\ Part(dev', "free") = n - e /\ Part(dev', "head") = dh - e
              /\ Part(dev', "unsubmitted") = du - e
          BY <1>2, <1>5, <2>1, <4>2
        <5> QED BY <1>4, <5>1, <5>2
      <4> QED BY <1>1, <2>5, <4>1, <4>2
    <3>8. PICK u \in Int, f \in Int, pu \in Int, pf \in Int :
            /\ u = bufUnsubmittedSize' /\ f = bufFreeSize'
            /\ pu = Part(dev', "unsubmitted") /\ pf = Part(dev', "free")
      BY <3>2
    <3>9. u + pu = U + du - e /\ f - pf = F - df + e
      BY <3>2, <3>8
    <3>3. SizesInv'
      <4>1. f + u + pu + nf = Total + pf + nu
        BY <1>4, <1>6, <3>9
      <4> QED BY <2>2, <3>8, <4>1 DEF SizesInv
    <3>4. PICK a \in Int, b \in Int, c \in Int, d \in Int :
            /\ a = H + nu + dh /\ b = S + U + du
            /\ c = H + nu + (dh - e)
            /\ d = S + u + pu
      BY <1>4
    <3>5. 0 * Total = 0
      BY <1>4
    <3>6. c - d = a - b + 0 * Total + 0 * Total
      <4>1. c - d = a - b
        BY <1>4, <3>4, <3>9
      <4> QED BY <3>5, <4>1
    <3>7. SamePlace(c, d)
      BY <1>6, <3>4, <3>6, PlacesMove
    <3>10. SamePlace(H + nu + (dh - e), S + u + pu)
      BY <3>4, <3>7
    <3>11. HeadsInv'
      BY <2>2, <2>3, <3>1, <3>2, <3>8, <3>10 DEF HeadsInv
    <3> QED BY <3>3, <3>11
  <2> QED BY <2>4, <2>5
<1>8. CASE t = "network"
  <2>1. net = th[t] /\ net' = th'[t] /\ dev' = dev
    BY <1>1, <1>8 DEF Becomes, dev, net, Threads
  <2>2. Part(dev', "head") = dh /\ Part(dev', "unsubmitted") = du /\ Part(dev', "free") = df
    BY <1>5, <2>1
  <2>3. v # "head"
    BY <1>1, <1>8, Numbers DEF Fits
  <2>4. bufSubmittedHead' = S
    BY <1>3, <1>5, <2>3 DEF Assign
  <2>5. /\ bufUnsubmittedSize' - Part(net', "unsubmitted") = U - nu + e
        /\ bufFreeSize' + Part(net', "free") = F + nf - e
        /\ bufUnsubmittedSize' \in Int /\ bufFreeSize' \in Int
        /\ Part(net', "unsubmitted") \in Int /\ Part(net', "free") \in Int
    <3>1. CASE v = "unsubmitted"
      <4>1. bufUnsubmittedSize' = U + n /\ bufFreeSize' = F
        BY <1>1, <1>3, <1>5, <1>8, <2>1, <3>1, NetworkStores DEF Value
      <4>2. nu = 0 /\ Part(net', "unsubmitted") = n - e /\ Part(net', "free") = nf - e
        BY <1>2, <1>5, <2>1, <3>1
      <4> QED BY <1>4, <4>1, <4>2
    <3>2. CASE v = "free"
      <4>1. bufFreeSize' = F - n /\ bufUnsubmittedSize' = U
        BY <1>1, <1>3, <1>5, <1>8, <2>1, <3>2, NetworkStores DEF Value
      <4>2. nf = 0 /\ Part(net', "free") = n - e /\ Part(net', "unsubmitted") = nu - e
        BY <1>2, <1>5, <2>1, <3>2
      <4> QED BY <1>4, <4>1, <4>2
    <3> QED BY <1>1, <2>3, <3>1, <3>2
  <2>6. SizesInv'
    BY <1>4, <1>6, <2>2, <2>5 DEF SizesInv
  <2>7. PICK q \in Int : bufUnsubmittedHead' = H + e + q * Total
    <3>1. PICK y \in Int : y = H + e
      BY <1>4
    <3>2. PICK q \in Int : Wrap(y) = y + q * Total
      BY WrapTurns
    <3>3. 0 * Total = 0 /\ 0 \in Int
      BY <1>4
    <3>4. CASE th[t].todo = {v}
      BY <1>2, <1>3, <1>5, <1>8, <3>1, <3>2, <3>4
    <3>5. CASE th[t].todo # {v}
      <4>1. bufUnsubmittedHead' = H /\ e = 0
        BY <1>2, <1>3, <1>5, <3>5
      <4>2. H = H + e + 0 * Total
        BY <1>5, <3>3, <4>1
      <4> QED BY <3>3, <4>1, <4>2
    <3> QED BY <3>4, <3>5
  <2>8. PICK z \in Int : z = q * Total
    BY <1>4
  <2>9. bufUnsubmittedHead' = H + e + z
    BY <2>7, <2>8
  <2>14. PICK u \in Int, h \in Int, pu \in Int :
           /\ u = bufUnsubmittedSize' /\ h = bufUnsubmittedHead' /\ pu = Part(net', "unsubmitted")
    BY <1>4, <2>5, <2>9
  <2>15. u - pu = U - nu + e /\ h = H + e + z
    BY <2>5, <2>9, <2>14
  <2>10. PICK a \in Int, b \in Int, c \in Int, d \in Int :
          a = H + nu + dh /\ b = S + U + du /\ c = h + pu + dh /\ d = S + u + du
    OBVIOUS
  <2>11. 0 * Total = 0
    BY <1>4
  <2>12. c - d = a - b + q * Total + 0 * Total
    <3>1. c - d = a - b + z
      BY <1>4, <2>10, <2>15
    <3> QED BY <2>8, <2>11, <3>1
  <2>13. SamePlace(c, d)
    BY <1>6, <2>10, <2>12, PlacesMove
  <2>16. SamePlace(h + pu + dh, S + u + du)
    BY <2>10, <2>13
  <2>17. HeadsInv'
    BY <2>2, <2>4, <2>14, <2>16 DEF HeadsInv
  <2> QED BY <2>6, <2>17
<1> QED BY <1>7, <1>8 DEF Threads

(***************************************************************************)
(* The invariant and the theorems                                          *)
(***************************************************************************)
LEMMA ThreadsInit == Init => ThreadsInv
<1> SUFFICES ASSUME Init PROVE ThreadsInv
  OBVIOUS
<1>1. PICK r : r = [at |-> "idle", todo |-> {}, left |-> 0, n |-> 0, reg |-> Nothing,
                    kept |-> Nothing]
  OBVIOUS
<1>2. th["device"] = r /\ th["network"] = r /\ th \in [Threads -> {r}]
  BY <1>1 DEF Init, Threads
<1>3. r \in ThreadState
  BY <1>1, ThreadsTypes DEF ThreadState, Registers
<1>4. /\ Total \in 0 .. Modulus - 1 /\ 0 \in 0 .. Modulus - 1 /\ 0 \in 0 .. Total - 1
      /\ 0 \in 0 .. MaxCalls /\ 0 \in 0 .. MaxStarts /\ Total \in Nat \ {0}
      /\ Modulus \in Nat /\ Total < Modulus
  BY ThreadsTypes
<1>5. r.at = "idle" /\ r.reg = Nothing /\ r.kept = Nothing /\ r.left = 0
  BY <1>1
<1>6. TypeOK
  <2>1. th \in [Threads -> ThreadState]
    BY <1>2, <1>3
  <2>2. th["device"].at = "idle" /\ th["network"].at = "idle"
    BY <1>2, <1>5
  <2>3. lost \in Nat /\ calls \in 0 .. MaxCalls /\ starts \in 0 .. MaxStarts
    BY <1>4 DEF Init
  <2>4. /\ {bufFreeSize, bufUnsubmittedSize, audioPendingBytes} \subseteq 0 .. Modulus - 1
        /\ {bufSubmittedHead, bufUnsubmittedHead} \subseteq 0 .. Total - 1
        /\ {cbLock, adding} \subseteq BOOLEAN
    BY <1>4 DEF Init
  <2> QED BY <2>1, <2>2, <2>3, <2>4 DEF TypeOK, ThreadState
<1>7. Shape
  BY <1>2, <1>5 DEF Shape, Fits, net, Threads
<1>8. \A v : Part(dev, v) = 0 /\ Part(net, v) = 0
  BY <1>2, <1>5 DEF Part, dev, net
<1>9. WaitingInv /\ FreeInv
  <2>1. dev.left = 0 /\ net.left = 0 /\ net.at = "idle"
    BY <1>2, <1>5 DEF dev, net
  <2>2. StillTaken = 0 /\ StillFreed = 0 /\ StillAdded = 0 /\ StillFilled = 0
    BY <1>8, <2>1 DEF StillTaken, StillFreed, StillAdded, StillFilled
  <2>3. dev.reg = Nothing /\ net.reg = Nothing /\ net.kept = Nothing
    BY <1>2, <1>5 DEF dev, net
  <2> QED BY <1>4, <2>2, <2>3 DEF Init, WaitingInv, FreeInv
<1>10. SizesInv /\ audioPendingBytes <= Total
  BY <1>4, <1>8 DEF Init, SizesInv
<1>11. HeadsInv
  <2>1. 0 = 0 + 0 * Total
    BY <1>4
  <2>2. SamePlace(0, 0)
    BY <2>1 DEF SamePlace
  <2> QED BY <1>8, <2>2 DEF Init, HeadsInv
<1> QED BY <1>6, <1>7, <1>9, <1>10, <1>11 DEF ThreadsInv

\* addSamples() notes what waits when its own turns are over; the callback under way can
\* only have taken more from it than it has given back.
LEMMA PendingStep ==
  ASSUME ThreadsInv, [Next]_vars, starts = 0, lost = 0
  PROVE  audioPendingBytes' <= Total
<1>1. TypeOK /\ Shape /\ SizesInv /\ audioPendingBytes <= Total
  BY DEF ThreadsInv
<1>2. CASE NetworkReturns
  <2>1. net.at = "loop" /\ audioPendingBytes' \in {bufUnsubmittedSize, audioPendingBytes}
    BY <1>2 DEF NetworkReturns, net
  <2>2. Part(net, "unsubmitted") = 0 /\ Part(net, "free") = 0
    BY <2>1 DEF Part
  <2>3. /\ Part(dev, "unsubmitted") \in Nat /\ Part(dev, "free") \in Nat
        /\ Part(dev, "free") <= Part(dev, "unsubmitted")
    BY <1>1, Numbers DEF Part, Fits
  <2>4. PICK U \in Nat, F \in Nat, u \in Nat, f \in Nat :
          /\ U = bufUnsubmittedSize /\ F = bufFreeSize
          /\ u = Part(dev, "unsubmitted") /\ f = Part(dev, "free")
    BY <1>1, <2>3, Numbers
  <2>5. F + U + u + 0 = Total + f + 0 /\ f <= u /\ Total \in Nat
    BY <1>1, <2>2, <2>3, <2>4, ThreadsTypes DEF SizesInv
  <2>6. U <= Total
    BY <2>5
  <2> QED BY <1>1, <2>1, <2>4, <2>6
<1>3. CASE ~NetworkReturns
  <2>1. audioPendingBytes' = audioPendingBytes
    BY <1>3 DEF Next, Device, Network, audioOutCallback, SetLock, Take, TakesTurn,
       CallbackReturns, Load, Store, addSamples, SpinEnds, notifyStreamingStartStop, Reset,
       ResetEnds, Give, call, vars
  <2> QED BY <1>1, <2>1
<1> QED BY <1>2, <1>3

LEMMA ThreadsNext == ThreadsInv /\ [Next]_vars => ThreadsInv'
<1> SUFFICES ASSUME ThreadsInv, [Next]_vars PROVE ThreadsInv'
  OBVIOUS
<1>1. TypeOK /\ Shape /\ (starts = 0 => WaitingInv /\ FreeInv)
  BY DEF ThreadsInv
<1>2. TypeOK' /\ Shape'
  BY <1>1, PlacesStep
<1>3. starts' = 0 => WaitingInv' /\ FreeInv'
  BY <1>1, RoomStep
<1>4. ASSUME starts' = 0, lost' = 0 PROVE SizesInv' /\ HeadsInv' /\ audioPendingBytes' <= Total
  <2>1. starts' \in {starts, starts + 1} /\ lost' \in {lost, lost + 1}
        /\ starts \in Nat /\ lost \in Nat
    BY <1>1, Numbers DEF Next, Device, Network, audioOutCallback, SetLock, Take, TakesTurn,
       CallbackReturns, Load, Store, addSamples, SpinEnds, notifyStreamingStartStop, Reset,
       ResetEnds, Give, NetworkReturns, call, vars
  <2>2. starts = 0 /\ lost = 0
    BY <1>4, <2>1
  <2>3. SizesInv /\ HeadsInv /\ DeviceRoom /\ NetworkRoom
    BY <2>2, <1>1, RoomIsBoth DEF ThreadsInv
  <2>4. audioPendingBytes' <= Total
    BY <2>2, PendingStep
  <2>5. CASE Store("device") \/ Store("network")
    BY <1>1, <1>4, <2>2, <2>3, <2>4, <2>5, AgreeStore DEF Threads
  <2>6. ASSUME Next, ~Store("device"), ~Store("network") PROVE SizesInv' /\ HeadsInv'
    <3>1. /\ UNCHANGED ring
          /\ \A v \in {"head", "unsubmitted", "free"} : Part(dev', v) = Part(dev, v)
          /\ \A v \in {"unsubmitted", "free"} : Part(net', v) = Part(net, v)
      BY <1>1, <1>4, <2>6, Pause
    <3> QED BY <2>3, <3>1 DEF SizesInv, HeadsInv, ring, shared
  <2>7. CASE UNCHANGED vars
    <3>1. UNCHANGED <<bufFreeSize, bufUnsubmittedSize, bufSubmittedHead, bufUnsubmittedHead, th>>
      BY <2>7 DEF vars, ring, shared
    <3> QED BY <2>3, <2>4, <3>1 DEF SizesInv, HeadsInv, Part, dev, net
  <2> QED BY <2>4, <2>5, <2>6, <2>7
<1> QED BY <1>2, <1>3, <1>4 DEF ThreadsInv

\* The invariant: of what waits the callback has never seen more, and of what is free the
\* network thread never more, than there is.
THEOREM ThreadsInvHolds == Spec => []ThreadsInv
<1>1. Init => ThreadsInv
  BY ThreadsInit
<1>2. ThreadsInv /\ [Next]_vars => ThreadsInv'
  BY ThreadsNext
<1> QED BY <1>1, <1>2, PTL DEF Spec

\* Whatever updates overlap and get lost, until a stream is started or stopped neither
\* thread takes more from a size than it has found there, and without a lost update what
\* addSamples() notes as pending fits the ring.
THEOREM SizesStayInRange == Spec => []SizesInRange
<1>1. ThreadsInv => SizesInRange
  <2> SUFFICES ASSUME ThreadsInv PROVE SizesInRange
    OBVIOUS
  <2>1. TypeOK /\ Shape
    BY DEF ThreadsInv
  <2>2. PendingFitsRingUnlessLost
    BY DEF ThreadsInv, PendingFitsRingUnlessLost
  <2>3. ASSUME starts = 0, NEW t \in Threads, th[t].reg # Nothing, th[t].reg.of # "head",
               ~Grows(t, th[t].reg.of)
        PROVE  th[t].n <= th[t].reg.value
    <3>1. /\ th[t].at = "update" /\ th[t].reg.of \in th[t].todo /\ th[t].n <= th[t].left
          /\ th[t].reg.of \in {"unsubmitted", "free"}
          /\ th[t].n \in Nat /\ th[t].left \in Nat /\ th[t].reg.value \in Nat
      BY <2>1, <2>3, Numbers DEF Fits, ThreadState
    <3>2. WaitingInv /\ FreeInv
      BY <2>3 DEF ThreadsInv
    <3>3. CASE t = "device"
      <4>1. dev = th[t] /\ th[t].reg.of = "unsubmitted"
        BY <2>3, <3>1, <3>3 DEF Grows, dev
      <4>2. StillTaken = th[t].left
        BY <3>1, <4>1 DEF StillTaken, Part
      <4> QED BY <2>3, <3>1, <3>2, <4>1, <4>2 DEF WaitingInv
    <3>4. CASE t = "network"
      <4>1. net = th[t] /\ th[t].reg.of = "free"
        BY <2>3, <3>1, <3>4 DEF Grows, net
      <4>2. StillFilled = th[t].n
        BY <3>1, <4>1 DEF StillFilled
      <4> QED BY <2>3, <3>1, <3>2, <4>1, <4>2 DEF FreeInv
    <3> QED BY <3>3, <3>4 DEF Threads
  <2> QED BY <2>1, <2>2, <2>3 DEF SizesInRange, NeverBelowZero
<1> QED BY <1>1, ThreadsInvHolds, PTL

\* Nothing but a lost update puts the two sizes and the two heads out of step: with both
\* threads out of the ring what waits and what is free are the whole ring, and the network
\* thread's head is as far ahead as there is sound that waits.
THEOREM ThreadsAgreeUnlessLost == Spec => []InStepUnlessLost
<1>1. ThreadsInv => InStepUnlessLost
  <2> SUFFICES ASSUME ThreadsInv, \A t \in Threads : th[t].at \in {"idle", "enter", "spin"},
                      lost = 0, starts = 0
               PROVE  /\ bufFreeSize + bufUnsubmittedSize = Total
                      /\ bufUnsubmittedHead = Wrap(bufSubmittedHead + bufUnsubmittedSize)
    BY DEF InStepUnlessLost
  <2>1. TypeOK /\ Shape /\ SizesInv /\ HeadsInv
    BY DEF ThreadsInv
  <2>2. \A v : Part(dev, v) = 0 /\ Part(net, v) = 0
    BY DEF Part, dev, net, Threads
  <2>3. PICK U \in Nat, F \in Nat, S \in Int, H \in 0 .. Total - 1 :
          /\ U = bufUnsubmittedSize /\ F = bufFreeSize
          /\ S = bufSubmittedHead /\ H = bufUnsubmittedHead
    <3>1. bufSubmittedHead \in Int /\ bufUnsubmittedHead \in 0 .. Total - 1
      BY <2>1, ThreadsTypes DEF TypeOK
    <3> QED BY <2>1, <3>1, Numbers
  <2>4. F + U + 0 + 0 = Total + 0 + 0 /\ Total \in Nat
    BY <2>1, <2>2, <2>3, ThreadsTypes DEF SizesInv
  <2>5. SamePlace(H + 0 + 0, S + U + 0)
    BY <2>1, <2>2, <2>3 DEF HeadsInv
  <2>6. PICK y \in Int : y = S + U
    OBVIOUS
  <2>7. H + 0 + 0 = H /\ S + U + 0 = y
    BY <2>4, <2>6
  <2>8. SamePlace(H, y)
    BY <2>5, <2>7
  <2>9. H = Wrap(y)
    BY <2>8, PlaceIsWrap
  <2> QED BY <2>3, <2>4, <2>6, <2>9
<1> QED BY <1>1, ThreadsInvHolds, PTL
=============================================================================
