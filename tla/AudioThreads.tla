----------------------------- MODULE AudioThreads -----------------------------
(***************************************************************************)
(* The sizes and heads of the playback ring (libvncclient/audio.c), which  *)
(* the network thread, in addSamples() and notifyStreamingStartStop(), and *)
(* the device's thread, in audioOutCallback(), share without a lock.  A    *)
(* step reads or writes one shared variable.  The build optimises (-O3):   *)
(* where a value is read twice without a call in between it is loaded      *)
(* once, updates that do not depend on each other change places, and what  *)
(* a thread has stored it may keep in a register for the next turn of its  *)
(* loop.  But x -= k stays a load and a store.                             *)
(*                                                                         *)
(* The device runs and the ring is Total bytes long.  The sound itself,    *)
(* and when a chunk is trimmed, are left to AudioRing.                     *)
(***************************************************************************)
EXTENDS Integers

CONSTANTS
  Total,     \* bufTotalSize
  Periods,   \* bytes the device asks for in a callback
  Sizes,     \* bytes of sound that addSamples() is called with
  Prelude,   \* bytes of silence a stream starts with
  Modulus,   \* size_t wraps at this value
  MaxStarts, \* bound: starts and stops of the stream
  MaxCalls,  \* bound: calls made by the network thread, starts and stops included
  MaxLost    \* bound: updates lost before the threads make no more calls

ASSUME ThreadsAssumption ==
  /\ Total \in Nat \ {0}
  /\ Periods \subseteq 1 .. Total
  /\ Prelude \in 0 .. Total
  /\ Modulus \in Nat /\ Modulus % Total = 0 /\ Modulus > 4 * Total
  /\ Sizes \subseteq 1 .. Modulus \div 2
  /\ {MaxStarts, MaxCalls, MaxLost} \subseteq Nat

VARIABLES
  bufFreeSize, bufUnsubmittedSize,
  bufSubmittedHead,    \* moved by the callback
  bufUnsubmittedHead,  \* moved by the network thread alone
  cbLock,
  audioPendingBytes,   \* of clientStats
  th,     \* what each thread is at, a record: see Init
  adding, \* the network thread is in addSamples()
  calls,  \* calls the network thread has made
  starts, \* those of them that started or stopped the stream
  lost    \* stores that have undone one the other thread made since the load

shared == <<bufFreeSize, bufUnsubmittedSize, bufSubmittedHead>>
ring == <<shared, bufUnsubmittedHead>>
call == <<cbLock, audioPendingBytes, adding, calls, starts>>
vars == <<ring, call, th, lost>>

Threads == {"device", "network"}
Nothing == [of |-> "nothing"]

SizeT(x) == x % Modulus
Wrap(x) == x % Total
Least(x, y) == IF x < y THEN x ELSE y

\* The ring as audioInit() leaves it, and two threads outside of it.  Of a thread:
\*   at    the place in its function
\*   todo  the shared variables it has yet to update there
\*   left  its bytes_left_to_copy
\*   n     its bytes_to_copy
\*   reg   what it has loaded from one of todo and not yet stored
\*   kept  what a register keeps of the last turn of its loop
Init ==
  /\ bufFreeSize = Total /\ bufUnsubmittedSize = 0
  /\ bufSubmittedHead = 0 /\ bufUnsubmittedHead = 0
  /\ cbLock = FALSE /\ audioPendingBytes = 0
  /\ th = [t \in Threads |-> [at |-> "idle", todo |-> {}, left |-> 0, n |-> 0,
                              reg |-> Nothing, kept |-> Nothing]]
  /\ adding = FALSE
  /\ calls = 0 /\ starts = 0 /\ lost = 0

\* Bound: no call begins once more than MaxLost updates are lost or a size has
\* wrapped round.
Orderly ==
  /\ lost <= MaxLost
  /\ bufFreeSize < Modulus \div 2 /\ bufUnsubmittedSize < Modulus \div 2

-------------------------------------------------------------------------------
(* x += k and x -= k on the shared variables. *)

Value(v) ==
  CASE v = "head" -> bufSubmittedHead
    [] v = "unsubmitted" -> bufUnsubmittedSize
    [] v = "free" -> bufFreeSize

\* What the loops test of the ring: the callback where it reads, the network
\* thread how much room there is.
Tested(t) == IF t = "device" THEN "head" ELSE "free"

\* The sizes grow by what is freed and what is added.
Grows(t, v) == (t = "device") = (v = "free")
Sum(t, v, x, k) == SizeT(IF Grows(t, v) THEN x + k ELSE x - k)

\* Mutant: the callback gives back all that is left to copy in every turn.
MovedWhole(t, v, x) ==
  IF v = "head" THEN Wrap(x + th[t].n)
  ELSE Sum(t, v, x, IF v = "free" /\ t = "device" THEN th[t].left ELSE th[t].n)

\* What thread t makes of the value x of variable v.
Moved(t, v, x) == IF v = "head" THEN Wrap(x + th[t].n) ELSE Sum(t, v, x, th[t].n)

\* What may be updated next.  The order is free but for one thing, in which the
\* source and gcc's code agree: what the callback has played it takes from what
\* waits before it adds it to what is free.
Updatable(t) ==
  IF t = "device" /\ "unsubmitted" \in th[t].todo THEN th[t].todo \ {"free"}
  ELSE th[t].todo

Load(t) ==
  /\ th[t].at = "update" /\ th[t].reg = Nothing
  /\ \E v \in Updatable(t) : th' = [th EXCEPT ![t].reg = [of |-> v, value |-> Value(v)]]
  /\ UNCHANGED <<ring, call, lost>>

Assign(v, x) ==
  /\ bufSubmittedHead' = IF v = "head" THEN x ELSE bufSubmittedHead
  /\ bufUnsubmittedSize' = IF v = "unsubmitted" THEN x ELSE bufUnsubmittedSize
  /\ bufFreeSize' = IF v = "free" THEN x ELSE bufFreeSize

\* A turn of the loop is over: what is the thread's own changes too.  Without
\* another turn nothing needs to be kept.
Turned(r) ==
  [r EXCEPT !.at = "loop", !.left = @ - r.n, !.n = 0,
            !.kept = IF r.left = r.n THEN Nothing ELSE @]

\* Of what it stores the thread keeps what the loop tests.
Store(t) ==
  /\ th[t].reg # Nothing
  /\ LET v == th[t].reg.of
         x == Moved(t, v, th[t].reg.value)
         r == [th[t] EXCEPT !.reg = Nothing, !.todo = @ \ {v},
                 !.kept = IF v = Tested(t) THEN [of |-> v, value |-> x] ELSE @]
     IN /\ Assign(v, x)
        /\ lost' = IF Value(v) = th[t].reg.value THEN lost ELSE lost + 1
        /\ th' = [th EXCEPT ![t] = IF r.todo = {} THEN Turned(r) ELSE r]
        /\ bufUnsubmittedHead' = IF t = "network" /\ r.todo = {}
                                 THEN Wrap(bufUnsubmittedHead + r.n)
                                 ELSE bufUnsubmittedHead
  /\ UNCHANGED call

\* What a turn of the loop may see of Tested(t).
Seen(t) ==
  {Value(Tested(t))} \cup (IF th[t].kept = Nothing THEN {} ELSE {th[t].kept.value})

\* A turn of the loop with k bytes that updates the variables vs.
TakesTurn(t, k, vs) ==
  /\ th[t].at = "loop"
  /\ th' = [th EXCEPT ![t].at = "update", ![t].n = k, ![t].todo = vs]
  /\ UNCHANGED <<ring, call, lost>>

-------------------------------------------------------------------------------
(* audioOutCallback(). *)

\* It is left at once when nothing waits.
audioOutCallback(period) ==
  /\ th["device"].at = "idle"
  /\ bufUnsubmittedSize # 0
  /\ Orderly
  /\ th' = [th EXCEPT !["device"].at = "enter",
                      !["device"].left = Least(bufUnsubmittedSize, period)]
  /\ UNCHANGED <<ring, call, lost>>

SetLock ==
  /\ th["device"].at = "enter"
  /\ cbLock' = TRUE
  /\ th' = [th EXCEPT !["device"].at = "loop"]
  /\ UNCHANGED <<ring, audioPendingBytes, adding, calls, starts, lost>>

\* Another turn, up to the end of the ring.
Take ==
  /\ th["device"].left # 0
  /\ \E head \in Seen("device") :
       TakesTurn("device", Least(th["device"].left, Total - head),
                 {"head", "unsubmitted", "free"})

\* Mutant: the lock stays.
CallbackKeepsLock ==
  /\ th["device"].at = "loop" /\ th["device"].left = 0
  /\ th' = [th EXCEPT !["device"].at = "idle"]
  /\ UNCHANGED <<ring, call, lost>>

CallbackReturns ==
  /\ th["device"].at = "loop" /\ th["device"].left = 0
  /\ cbLock' = FALSE
  /\ th' = [th EXCEPT !["device"].at = "idle"]
  /\ UNCHANGED <<ring, audioPendingBytes, adding, calls, starts, lost>>

Device == SetLock \/ Take \/ CallbackReturns \/ Load("device") \/ Store("device")

-------------------------------------------------------------------------------
(* The network thread. *)

\* addSamples() with size bytes, or half of them.
addSamples(size) ==
  /\ th["network"].at = "idle"
  /\ calls < MaxCalls /\ calls' = calls + 1
  /\ Orderly
  /\ \E k \in {size, size \div 2} :
       th' = [th EXCEPT !["network"].at = "spin", !["network"].left = k]
  /\ adding' = TRUE
  /\ UNCHANGED <<ring, cbLock, audioPendingBytes, starts, lost>>

\* while (cbLock) usleep(5)
SpinEnds ==
  /\ th["network"].at = "spin"
  /\ ~cbLock
  /\ th' = [th EXCEPT !["network"].at = "loop"]
  /\ UNCHANGED <<ring, call, lost>>

\* notifyStreamingStartStop(): three stores, and silence for a start.  What the
\* register keeps of the room is what is about to be stored.
notifyStreamingStartStop ==
  /\ th["network"].at = "idle"
  /\ calls < MaxCalls /\ calls' = calls + 1
  /\ starts < MaxStarts /\ starts' = starts + 1
  /\ Orderly
  /\ \E k \in {0, Prelude} :
       th' = [th EXCEPT !["network"] =
                [@ EXCEPT !.at = "reset", !.left = k,
                          !.todo = {"free", "head", "unsubmitted"},
                          !.kept = [of |-> "free", value |-> Total]]]
  /\ bufUnsubmittedHead' = 0
  /\ UNCHANGED <<shared, cbLock, audioPendingBytes, adding, lost>>

Reset ==
  /\ th["network"].at = "reset"
  /\ \E v \in th["network"].todo :
       /\ Assign(v, IF v = "free" THEN Total ELSE 0)
       /\ th' = [th EXCEPT !["network"].todo = @ \ {v}]
  /\ UNCHANGED <<bufUnsubmittedHead, call, lost>>

ResetEnds ==
  /\ th["network"].at = "reset" /\ th["network"].todo = {}
  /\ th' = [th EXCEPT !["network"].at = "loop"]
  /\ UNCHANGED <<ring, call, lost>>

\* Mutant: one byte too many for the room there is.
FittingOver(room) ==
  Least(Least(th["network"].left, room + 1), Total - bufUnsubmittedHead)

\* bytes_to_copy of a turn that has seen this much room.
Fitting(room) ==
  Least(Least(th["network"].left, room), Total - bufUnsubmittedHead)

\* Another turn, with what there is room for.
Give ==
  \E room \in Seen("network") :
    /\ Fitting(room) # 0
    /\ TakesTurn("network", Fitting(room), {"unsubmitted", "free"})

\* All is stored or the ring is full.  addSamples() notes what waits.
NetworkReturns ==
  /\ th["network"].at = "loop"
  /\ \E room \in Seen("network") : Fitting(room) = 0
  /\ audioPendingBytes' = IF adding THEN bufUnsubmittedSize ELSE audioPendingBytes
  /\ adding' = FALSE
  /\ th' = [th EXCEPT !["network"].at = "idle", !["network"].left = 0,
                      !["network"].kept = Nothing]
  /\ UNCHANGED <<ring, cbLock, calls, starts, lost>>

Network ==
  \/ SpinEnds \/ Reset \/ ResetEnds \/ Give \/ NetworkReturns
  \/ Load("network") \/ Store("network")

Next ==
  \/ \E period \in Periods : audioOutCallback(period)
  \/ Device
  \/ \E size \in Sizes : addSamples(size)
  \/ notifyStreamingStartStop
  \/ Network

Spec == Init /\ [][Next]_vars

\* Once in a function both threads go on; how often the device calls is its
\* own affair.
FairSpec == Spec /\ WF_vars(Device) /\ WF_vars(Network)

-------------------------------------------------------------------------------
(* Properties. *)

Registers ==
  {Nothing} \cup [of : {"head", "unsubmitted", "free"}, value : 0 .. Modulus - 1]

TypeOK ==
  /\ {bufFreeSize, bufUnsubmittedSize, audioPendingBytes} \subseteq 0 .. Modulus - 1
  /\ {bufSubmittedHead, bufUnsubmittedHead} \subseteq 0 .. Total - 1
  /\ {cbLock, adding} \subseteq BOOLEAN
  /\ th \in [Threads -> [at : {"idle", "enter", "spin", "reset", "loop", "update"},
                         todo : SUBSET {"head", "unsubmitted", "free"},
                         left : Nat, n : 0 .. Total, reg : Registers, kept : Registers]]
  /\ th["device"].at \notin {"spin", "reset"} /\ th["network"].at # "enter"
  /\ calls \in 0 .. MaxCalls /\ starts \in 0 .. MaxStarts /\ lost \in Nat

\* Whatever updates overlap, and although some get lost, neither thread ever takes
\* more from a size than it has found there, which would wrap size_t, until a
\* stream is started or stopped while a callback runs.
NeverBelowZero ==
  starts = 0 =>
    \A t \in Threads :
      /\ th[t].reg # Nothing /\ th[t].reg.of # "head" /\ ~Grows(t, th[t].reg.of)
      => th[t].n <= th[t].reg.value

\* clientStats.audioPendingBytes is documented as the bytes pending to be sent to
\* the audio hardware: as long as no update is lost and no stream started, it is
\* never more than the ring can hold.
PendingFitsRingUnlessLost == lost = 0 /\ starts = 0 => audioPendingBytes <= Total

\* Each size stays one that the ring can have: the parts above, and TypeOK.
SizesInRange == TypeOK /\ NeverBelowZero /\ PendingFitsRingUnlessLost

\* Overlapping updates of one variable are the only thing that puts the two
\* sizes and the two heads out of step: with both threads out of the ring they
\* agree, as AudioRing's Accounting says, until a stream is started.
InStepUnlessLost ==
  (\A t \in Threads : th[t].at \in {"idle", "enter", "spin"}) /\ lost = 0 /\ starts = 0 =>
    /\ bufFreeSize + bufUnsubmittedSize = Total
    /\ bufUnsubmittedHead = Wrap(bufSubmittedHead + bufUnsubmittedSize)

\* addSamples() returns although it spins on cbLock while one callback may
\* follow another: while it spins nothing is added, and the callbacks run out
\* of sound.  So does every callback, whatever the network thread does to the
\* sizes and heads meanwhile.
CallsReturn == \A t \in Threads : th[t].at # "idle" ~> th[t].at = "idle"
===============================================================================
