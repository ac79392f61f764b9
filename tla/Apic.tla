-------------------------------- MODULE Apic --------------------------------
(***************************************************************************)
(* Local APICs, their timers, and the IO APIC                              *)
(* (src/src/cpu/system/apic.cpp): a queue of pending interrupts per core,  *)
(* fed by the core's timer, by inter-processor interrupts and by routed    *)
(* IRQ lines.  A local APIC that is disabled drops what it is sent.        *)
(* Operators on values; TlbShootdown makes a state machine of them.        *)
(***************************************************************************)
EXTENDS Integers, Sequences

\* ApicInterrupt: the factories timer, ipi and external_irq.
timer_interrupt(core, vector) == [kind |-> "TIMER", vector |-> vector, target |-> core]
ipi(target, vector) == [kind |-> "IPI", vector |-> vector, target |-> target]
external_irq(target, vector) == [kind |-> "EXTERNAL_IRQ", vector |-> vector, target |-> target]

NoTimer == [enabled |-> FALSE, mode |-> "ONE_SHOT", initial |-> 0, remaining |-> 0]

\* LocalApicTimer::configure, for an interval of at least one tick.
configure(interval, mode) ==
  [enabled |-> TRUE, mode |-> mode, initial |-> interval, remaining |-> interval]

TimerFires(timer) == timer.enabled /\ timer.remaining = 1

\* LocalApicTimer::tick: periodic timers reload, one-shot timers stop.
TimerTick(timer) ==
  IF ~timer.enabled THEN timer
  ELSE IF timer.remaining > 1 THEN [timer EXCEPT !.remaining = @ - 1]
  ELSE IF timer.mode = "PERIODIC" THEN [timer EXCEPT !.remaining = timer.initial]
  ELSE [timer EXCEPT !.remaining = 0, !.enabled = FALSE]

\* LocalApic: disabled, without a timer and with nothing pending.
NewLocalApic == [enabled |-> FALSE, timer |-> NoTimer, pending |-> <<>>]

\* configure_stage7_services: enabled, with a periodic timer.
BootedLocalApic(interval) ==
  [NewLocalApic EXCEPT !.enabled = TRUE, !.timer = configure(interval, "PERIODIC")]

\* LocalApic::tick.  A disabled APIC does not even count.
LocalTick(apic, core, vector) ==
  IF ~apic.enabled THEN apic
  ELSE [apic EXCEPT !.timer = TimerTick(@),
                    !.pending = IF TimerFires(apic.timer)
                                THEN Append(@, timer_interrupt(core, vector)) ELSE @]

receive_interrupt(apic, interrupt) ==
  IF apic.enabled THEN [apic EXCEPT !.pending = Append(@, interrupt)] ELSE apic

CanTake(apic) == apic.enabled /\ apic.pending /= <<>>

\* Mutant: the whole queue is taken for one interrupt.
take_all_interrupts(apic) == [apic EXCEPT !.pending = <<>>]

take_pending_interrupt(apic) == [apic EXCEPT !.pending = Tail(@)]

\* IoApic: a route is absent or leads to a vector on a core, perhaps masked.
NoRoute == [present |-> FALSE, target |-> 0, masked |-> FALSE]
set_route(target) == [present |-> TRUE, target |-> target, masked |-> FALSE]
clear_route(route) == [route EXCEPT !.present = FALSE]
with_masked(route, masked) == [route EXCEPT !.masked = masked]
Raises(route) == route.present /\ ~route.masked

\* broadcast_ipi: everyone but the source.
broadcast_ipi(apics, source, vector) ==
  [core \in DOMAIN apics |-> IF core = source THEN apics[core]
                             ELSE receive_interrupt(apics[core], ipi(core, vector))]
=============================================================================
