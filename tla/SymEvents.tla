------------------------------ MODULE SymEvents ------------------------------
(***************************************************************************)
(* The event and the timer event of the nnSdk layer (libnx-cruiser,        *)
(* sym-impl.c), one of each, with the threads that wait for them or start  *)
(* the timer, and the conversion of ticks the same layer offers.           *)
(*                                                                         *)
(* UEvent and UTimer of libnx are external: a wait takes a signal, and     *)
(* clears it if the event is auto-clear; a timer whose next_tick is not 0  *)
(* fires once the system tick has reached it, and a one-shot timer then    *)
(* goes back to 0.                                                         *)
(***************************************************************************)
EXTENDS Integers

CONSTANTS
    Callers,     \* the threads
    Spans,       \* the spans, in nanoseconds, timers are started with
    TickRate,    \* ticks in a second, 19200000 in the code
    NsRate,      \* nanoseconds in a second
    Wrap,        \* 2^64, the values of a u64
    MaxClock,    \* bound on the system tick
    MaxStarts    \* bound on the starts of the timer

ASSUME RatesAssumption ==
    /\ TickRate \in Nat \ {0} /\ NsRate \in Nat \ {0}
    /\ Wrap \in Nat /\ NsRate * TickRate < Wrap
    /\ MaxClock \in Nat \ {0} /\ MaxStarts \in Nat /\ Spans \subseteq Nat

VARIABLES
    event,   \* the UEvent: [signal, autoClear]
    timer,   \* the UTimer: [nextTick, type]
    clock,   \* the system tick
    waits,   \* waits[t]: what t waits for, or which start it is in
    starts,  \* history: starts of the timer
    wakes,   \* history: waits for the timer that returned
    overtaken, \* history: starts whose next_tick was gone when they came to
               \* utimerStart, which set it once more
    ran      \* history: the last start: [at, span], and of the last wait
             \* that returned, how long after it: [slept, asked]

tms == <<timer, starts, wakes, overtaken, ran>>
eventVars == <<event, tms, clock, waits>>
NotWaiting(t) == waits[t] = "none"
-----------------------------------------------------------------------------
(* nn::os::ConvertToTimeSpan.  The arithmetic is unsigned, so the test for *)
(* a negative result never fails and the value is never saturated.         *)
ToNsHalfUp(tick) == ((NsRate * tick + TickRate \div 2) \div TickRate) % Wrap
ConvertToTimeSpan(tick) ==
    (((NsRate * (tick % TickRate)) % Wrap) \div TickRate
        + NsRate * (tick \div TickRate)) % Wrap

(* nn::os::GetSystemTick reads the clock, which advances by itself. *)
Tick ==
    clock < MaxClock /\ clock' = clock + 1 /\ UNCHANGED <<event, tms, waits>>

EventsInit ==
    /\ event = [signal |-> FALSE, autoClear |-> TRUE]
    /\ timer = [nextTick |-> 0, type |-> "oneShot"]
    /\ clock = 1
    /\ waits = [t \in Callers |-> "none"]
    /\ starts = 0 /\ wakes = 0 /\ overtaken = 0
    /\ ran = [at |-> 0, span |-> 0, slept |-> 0, asked |-> 0]

(* nn::os::InitializeEvent, of an event nobody waits for; the signal it    *)
(* may be asked to begin with is not there yet ("TODO: implement this").   *)
AutoClear(clearMode) == clearMode = "auto"
InitializeEvent(clearMode) ==
    /\ \A t \in Callers : waits[t] # "event"
    /\ event' = [signal |-> FALSE, autoClear |-> AutoClear(clearMode)]
    /\ UNCHANGED <<tms, clock, waits>>

SignalEvent ==
    /\ event' = [event EXCEPT !.signal = TRUE]
    /\ UNCHANGED <<tms, clock, waits>>

(* nn::os::TimedWaitEvent: the call, and its two ways to return. *)
TimedWaitEvent(t) ==
    /\ NotWaiting(t)
    /\ waits' = [waits EXCEPT ![t] = "event"]
    /\ UNCHANGED <<event, tms, clock>>

WaitSucceeds(t) ==
    /\ waits[t] = "event" /\ event.signal
    /\ event' = [event EXCEPT !.signal = ~event.autoClear]
    /\ waits' = [waits EXCEPT ![t] = "none"]
    /\ UNCHANGED <<tms, clock>>

WaitTimesOut(t) ==
    /\ waits[t] = "event" /\ ~event.signal
    /\ waits' = [waits EXCEPT ![t] = "none"]
    /\ UNCHANGED <<event, tms, clock>>
-----------------------------------------------------------------------------
(* nn::os::InitializeTimerEvent, which has no use for the clear mode, and  *)
(* FinalizeTimerEvent (utimerStop).                                        *)
InitializeTimerEvent ==
    /\ \A t \in Callers : waits[t] \in {"none", "event"}
    /\ timer' = [nextTick |-> 0, type |-> "oneShot"]
    /\ UNCHANGED <<event, starts, wakes, overtaken, ran, clock, waits>>

FinalizeTimerEvent ==
    /\ timer' = [timer EXCEPT !.nextTick = 0]
    /\ UNCHANGED <<event, starts, wakes, overtaken, ran, clock, waits>>

(* nn::os::StartOneShotTimerEvent stores the span itself as next_tick; the *)
(* interval and the type it also stores are there already.  Then, with the *)
(* lock of the timer that the stores do without, utimerStart sets it to    *)
(* the present tick, but only if it is 0.                                  *)
Repeating == "repeating"
StartType == "oneShot"
StartOneShotTimerEvent(t, span) ==
    /\ NotWaiting(t)
    /\ starts < MaxStarts
    /\ timer' = [nextTick |-> span, type |-> StartType]
    /\ starts' = starts + 1
    /\ ran' = [ran EXCEPT !.at = clock, !.span = span]
    /\ waits' = [waits EXCEPT ![t] = IF span = 0 THEN "startNow" ELSE "start"]
    /\ UNCHANGED <<event, wakes, overtaken, clock>>

Gone == timer.nextTick = 0
UtimerStart(t) ==
    /\ waits[t] \in {"startNow", "start"}
    /\ timer' = [timer EXCEPT !.nextTick = IF Gone THEN clock ELSE @]
    /\ overtaken' = overtaken + (IF Gone /\ waits[t] = "start" THEN 1 ELSE 0)
    /\ waits' = [waits EXCEPT ![t] = "none"]
    /\ UNCHANGED <<event, starts, wakes, ran, clock>>

(* nn::os::WaitTimerEvent: the call, without a timeout, and its return. *)
WaitTimerEvent(t) ==
    /\ NotWaiting(t)
    /\ waits' = [waits EXCEPT ![t] = "timer"]
    /\ UNCHANGED <<event, tms, clock>>

TimerFires(t) ==
    /\ waits[t] = "timer"
    /\ timer.nextTick # 0 /\ clock >= timer.nextTick
    /\ timer' = [timer EXCEPT !.nextTick = IF timer.type = "oneShot" THEN 0
                                           ELSE clock]
    /\ wakes' = wakes + 1
    /\ ran' = [ran EXCEPT
                 !.slept = ConvertToTimeSpan(clock) - ConvertToTimeSpan(ran.at),
                 !.asked = ran.span]
    /\ waits' = [waits EXCEPT ![t] = "none"]
    /\ UNCHANGED <<event, starts, overtaken, clock>>

EventsNext ==
    \/ Tick
    \/ \E m \in {"auto", "manual"} : InitializeEvent(m)
    \/ SignalEvent
    \/ InitializeTimerEvent \/ FinalizeTimerEvent
    \/ \E t \in Callers :
          \/ TimedWaitEvent(t) \/ WaitSucceeds(t) \/ WaitTimesOut(t)
          \/ \E span \in Spans : StartOneShotTimerEvent(t, span)
          \/ UtimerStart(t)
          \/ WaitTimerEvent(t) \/ TimerFires(t)

EventsSpec == EventsInit /\ [][EventsNext]_eventVars
-----------------------------------------------------------------------------
(* Properties. *)

EventsTypeOK ==
    /\ event \in [signal : BOOLEAN, autoClear : BOOLEAN]
    /\ timer \in [nextTick : Nat, type : {"oneShot"}]
    /\ clock \in 1 .. MaxClock
    /\ waits \in [Callers -> {"none", "event", "timer", "startNow", "start"}]
    /\ starts \in 0 .. MaxStarts /\ wakes \in Nat /\ overtaken \in Nat
    /\ ran \in [at : Nat, span : Nat, slept : Int, asked : Nat]

(* Whoever waits and whoever starts, one start of the timer lets one wait  *)
(* return: the second of two waiters stays, also with a timer that was     *)
(* asked to be manual-clear, which is ignored.  The one way to two waits   *)
(* is a waiter that fires, or a call that empties the timer, between the   *)
(* store of next_tick and utimerStart (sym-impl.c, 701-707 and 722-738).   *)
OneWakePerStart == wakes <= starts + overtaken

(* As long as the value fits, the conversion is the exact number of whole  *)
(* nanoseconds: splitting off the seconds loses nothing (sym-impl.c, 319). *)
TimeSpanIsExact ==
    NsRate * clock < Wrap * TickRate =>
        ConvertToTimeSpan(clock) = (NsRate * clock) \div TickRate

(* StartOneShotTimerEvent(timer_event, time_span_ns) takes an nn::TimeSpan *)
(* (sym-impl.c, 722-724): the wait returns no sooner than that span after  *)
(* the start, by the layer's own ConvertToTimeSpan.                        *)
OneShotWaitsItsSpan == ran.slept >= ran.asked
=============================================================================
