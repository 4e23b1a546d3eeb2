-------------------------------- MODULE Smp ---------------------------------
(***************************************************************************)
(* kernel/smp.c and the multiprocessor part of kernel/bench.c.  Processor  *)
(* 0 runs the shell.  The others (APs) are started by boot_ap, enter       *)
(* ap_thread and take commands from a mailbox of one word each; the bench  *)
(* command makes all of them and processor 0 go through a handshake on     *)
(* one byte per AP.  Every processor that has nothing to do arms the       *)
(* monitor hardware on the line it waits for, reads the line again, and    *)
(* halts in mwait.                                                         *)
(*                                                                         *)
(* A bench is a pair of scripts, one of processor 0 and one of an AP,      *)
(* whose operations are stores to a byte and waits for a value.  Memory is *)
(* sequentially consistent: x86 keeps the stores of a processor in order,  *)
(* and no processor passes a decisive read before a store of its own.      *)
(* What the bench measures is left out.  The monitor hardware is external. *)
(***************************************************************************)
EXTENDS Integers, Sequences, SequencesExt

CONSTANTS
  NumAp,            \* the APs are processors 1..NumAp
  CStates,          \* rounds of the ping-pong, one per C-state (4)
  None

Commands == {"HELLO", "RUN_BENCH"}

ASSUME SmpAssumption ==
  NumAp \in Nat /\ CStates \in Nat \ {0} /\ None \notin Commands

Bsp == 0
Aps == 1..NumAp
Cpus == {Bsp} \cup Aps
Lines == [name : {"command", "ready"}, ap : Aps]

VARIABLES
  pc,               \* where each processor is
  script,           \* the operations it has still to execute
  armed,            \* the line its monitor is armed on, or None
  command,          \* ap_command_mwait_line, None standing for 0
  taken,            \* local command of ap_thread
  ready,            \* ready[cpu][0] of bench.c
  enabled,          \* the APs whose smp_table flags say PROCESSOR_ENABLED
  calm              \* history: no command was on its way when the bench began

vars == <<pc, script, armed, command, taken, ready, enabled, calm>>

-----------------------------------------------------------------------------
(* The scripts.                                                            *)

Store(a, v) == [op |-> "store", ap |-> a, v |-> v]
Watch(a, v) == [op |-> "watch", ap |-> a, v |-> v]
Post(a) == [op |-> "post", ap |-> a, v |-> 0]
Ops == [op : {"store", "watch", "post"}, ap : Aps, v : 0..9]

Repeat(k, ops) == FlattenSeq([i \in 1..k |-> ops])

\* A loop over the members of cpus, in the order of their numbers.
ForEach(cpus, Body(_)) ==
  FlattenSeq([a \in Aps |-> IF a \in cpus THEN Body(a) ELSE <<>>])

\* Mutant: the command is posted before the byte is reset.
LaunchEarly(a) == <<Post(a), Store(a, 0)>>

Launch(a) == <<Store(a, 0), Post(a)>>

\* The three measurements of one AP alone.
Single(a) == <<Store(a, 4), Watch(a, 5), Store(a, 6), Watch(a, 7),
               Store(a, 8), Watch(a, 9)>>

\* Mutant: one measurement of all APs together does not wait for them.
TogetherUnwatched(cpus, v) == ForEach(cpus, LAMBDA a : <<Store(a, v)>>)

\* One measurement of all APs together.
Together(cpus, v) ==
  ForEach(cpus, LAMBDA a : <<Store(a, v)>>)
    \o ForEach(cpus, LAMBDA a : <<Watch(a, v + 1)>>)

\* smp_bench.
BspScript(cpus) ==
  ForEach(cpus, Launch)
    \o ForEach(cpus, LAMBDA a : <<Watch(a, 1)>>)
    \o Repeat(CStates, ForEach(cpus, LAMBDA a : <<Store(a, 2), Watch(a, 3)>>))
    \o ForEach(cpus, Single)
    \o Together(cpus, 4) \o Together(cpus, 6) \o Together(cpus, 8)

\* run_bench_ap.
ApScript(a) ==
  <<Store(a, 1)>>
    \o Repeat(CStates, <<Watch(a, 2), Store(a, 3)>>)
    \o Repeat(2, <<Watch(a, 4), Store(a, 5), Watch(a, 6), Store(a, 7),
                   Watch(a, 8), Store(a, 9)>>)

-----------------------------------------------------------------------------

Running == {"run", "check", "mwait", "halted"}
Waiting == {"read", "monitor", "reread", "doze", "asleep"}

TypeOK ==
  /\ pc \in [Cpus -> Running \cup Waiting
                       \cup {"shell", "off", "start", "enable", "clear", "hello"}]
  /\ script \in [Cpus -> Seq(Ops)]
  /\ \A p \in Cpus : script[p] # <<>> <=> pc[p] \in Running
  /\ armed \in [Cpus -> Lines \cup {None}]
  /\ command \in [Aps -> Commands \cup {None}]
  /\ taken \in [Aps -> Commands \cup {None}]
  /\ \A a \in Aps : pc[a] = "clear" => taken[a] # None
  /\ ready \in [Aps -> 0..9]
  /\ enabled \in SUBSET Aps
  /\ calm \in BOOLEAN

\* Before boot_ap.
Init ==
  /\ pc = [p \in Cpus |-> IF p = Bsp THEN "shell" ELSE "off"]
  /\ script = [p \in Cpus |-> <<>>]
  /\ armed = [p \in Cpus |-> None]
  /\ command = [a \in Aps |-> None]
  /\ taken = [a \in Aps |-> None]
  /\ ready = [a \in Aps |-> 0]
  /\ enabled = {}
  /\ calm = FALSE

CommandLine(a) == [name |-> "command", ap |-> a]
ReadyLine(a) == [name |-> "ready", ap |-> a]

\* A processor goes on from a halt when its monitor is disarmed.
Awake(s) == CASE s = "asleep" -> "read" [] s = "halted" -> "run" [] OTHER -> s

\* The monitors armed on a line that is stored to are disarmed; next gives the
\* new pc of the processors that do not wake up.
StoreWakes(line, next) ==
  /\ armed' = [p \in Cpus |-> IF armed[p] = line THEN None ELSE armed[p]]
  /\ pc' = [p \in Cpus |-> IF armed[p] = line THEN Awake(next[p]) ELSE next[p]]

Goto(p, s) == [pc EXCEPT ![p] = s]

-----------------------------------------------------------------------------
(* The shell of processor 0.                                               *)

\* boot_ap: INIT and two start-up interrupts to all but itself; an AP that was
\* running starts again.
BootAp ==
  /\ pc[Bsp] = "shell"
  /\ pc' = [p \in Cpus |-> IF p = Bsp THEN "shell" ELSE "start"]
  /\ script' = [p \in Cpus |-> <<>>]
  /\ armed' = [p \in Cpus |-> IF p = Bsp THEN armed[p] ELSE None]
  /\ UNCHANGED <<command, taken, ready, enabled, calm>>

\* do_hello_ap, post_command_to_ap.
HelloAp(a) ==
  /\ pc[Bsp] = "shell"
  /\ command' = [command EXCEPT ![a] = "HELLO"]
  /\ StoreWakes(CommandLine(a), pc)
  /\ UNCHANGED <<script, taken, ready, enabled, calm>>

\* No command is in the mailbox of an enabled AP or about to be cleared
\* from it.
Calm ==
  \A a \in enabled : command[a] = None /\ pc[a] \in Waiting \cup {"hello"}

\* do_bench: the processors that take part are the ones enabled now.
Bench ==
  /\ pc[Bsp] = "shell"
  /\ script' = [script EXCEPT ![Bsp] = BspScript(enabled)]
  /\ pc' = Goto(Bsp, IF enabled = {} THEN "shell" ELSE "run")
  /\ calm' = Calm
  /\ UNCHANGED <<armed, command, taken, ready, enabled>>

-----------------------------------------------------------------------------
(* The scripts' operations.                                                *)

\* Where processor p goes with the rest of its script.
Return(p) == IF p = Bsp THEN "shell" ELSE "read"
Rest(p) == Tail(script[p])
Onward(p) == IF Rest(p) = <<>> THEN Return(p) ELSE "run"
Op(p) == Head(script[p])

DoStore(p) ==
  /\ pc[p] = "run"
  /\ Op(p).op = "store"
  /\ ready' = [ready EXCEPT ![Op(p).ap] = Op(p).v]
  /\ StoreWakes(ReadyLine(Op(p).ap), Goto(p, Onward(p)))
  /\ script' = [script EXCEPT ![p] = Rest(p)]
  /\ UNCHANGED <<command, taken, enabled, calm>>

DoPost(p) ==
  /\ pc[p] = "run"
  /\ Op(p).op = "post"
  /\ command' = [command EXCEPT ![Op(p).ap] = "RUN_BENCH"]
  /\ StoreWakes(CommandLine(Op(p).ap), Goto(p, Onward(p)))
  /\ script' = [script EXCEPT ![p] = Rest(p)]
  /\ UNCHANGED <<taken, ready, enabled, calm>>

\* watch_mem1: monitor, lfence, compare, mwait.
WatchMonitor(p) ==
  /\ pc[p] = "run"
  /\ Op(p).op = "watch"
  /\ armed' = [armed EXCEPT ![p] = ReadyLine(Op(p).ap)]
  /\ pc' = Goto(p, "check")
  /\ UNCHANGED <<script, command, taken, ready, enabled, calm>>

\* Mutant: the value is not looked at behind the monitor.
WatchUnchecked(p) ==
  /\ pc[p] = "check"
  /\ pc' = Goto(p, "mwait")
  /\ UNCHANGED <<script, armed, command, taken, ready, enabled, calm>>

WatchCheck(p) ==
  /\ pc[p] = "check"
  /\ IF ready[Op(p).ap] = Op(p).v
     THEN pc' = Goto(p, Onward(p)) /\ script' = [script EXCEPT ![p] = Rest(p)]
     ELSE pc' = Goto(p, "mwait") /\ UNCHANGED script
  /\ UNCHANGED <<armed, command, taken, ready, enabled, calm>>

\* mwait: halt if the monitor is still armed.
Halt(p, to, awake) ==
  /\ pc' = Goto(p, IF armed[p] # None THEN to ELSE awake)
  /\ UNCHANGED <<script, armed, command, taken, ready, enabled, calm>>

WatchMwait(p) == pc[p] = "mwait" /\ Halt(p, "halted", "run")

-----------------------------------------------------------------------------
(* An AP: cAP_main and ap_thread.                                          *)

Start(a) ==
  /\ pc[a] = "start"
  /\ command' = [command EXCEPT ![a] = None]
  /\ pc' = Goto(a, "enable")
  /\ UNCHANGED <<script, armed, taken, ready, enabled, calm>>

Enable(a) ==
  /\ pc[a] = "enable"
  /\ enabled' = enabled \cup {a}
  /\ pc' = Goto(a, "read")
  /\ UNCHANGED <<script, armed, command, taken, ready, calm>>

\* Mutant: the command is not tested.
ReadUntested(a, here, otherwise) ==
  /\ pc[a] = here
  /\ taken' = [taken EXCEPT ![a] = command[a]]
  /\ pc' = Goto(a, "clear")
  /\ UNCHANGED <<script, armed, command, ready, enabled, calm>>

\* command = *command_ptr; if (command) ...
Read(a, here, otherwise) ==
  /\ pc[a] = here
  /\ taken' = [taken EXCEPT ![a] = command[a]]
  /\ pc' = Goto(a, IF command[a] # None THEN "clear" ELSE otherwise)
  /\ UNCHANGED <<script, armed, command, ready, enabled, calm>>

\* Mutant: the mailbox is cleared and run_command looks into it again.
ClearThenRead(a) ==
  /\ pc[a] = "clear"
  /\ command' = [command EXCEPT ![a] = None]
  /\ script' = [script EXCEPT ![a] =
                  IF command'[a] = "RUN_BENCH" THEN ApScript(a) ELSE <<>>]
  /\ pc' = Goto(a, IF command'[a] = "RUN_BENCH" THEN "run" ELSE "hello")
  /\ UNCHANGED <<armed, taken, ready, enabled, calm>>

\* *command_ptr = 0, and run_command begins.
Clear(a) ==
  /\ pc[a] = "clear"
  /\ command' = [command EXCEPT ![a] = None]
  /\ script' = [script EXCEPT ![a] =
                  IF taken[a] = "RUN_BENCH" THEN ApScript(a) ELSE <<>>]
  /\ pc' = Goto(a, IF taken[a] = "RUN_BENCH" THEN "run" ELSE "hello")
  /\ UNCHANGED <<armed, taken, ready, enabled, calm>>

Hello(a) ==
  /\ pc[a] = "hello"
  /\ pc' = Goto(a, "read")
  /\ UNCHANGED <<script, armed, command, taken, ready, enabled, calm>>

Monitor(a) ==
  /\ pc[a] = "monitor"
  /\ armed' = [armed EXCEPT ![a] = CommandLine(a)]
  /\ pc' = Goto(a, "reread")
  /\ UNCHANGED <<script, command, taken, ready, enabled, calm>>

Mwait(a) == pc[a] = "doze" /\ Halt(a, "asleep", "read")

\* An interrupt disarms the monitor and ends the halt.
Disturb(p) ==
  /\ armed[p] # None
  /\ armed' = [armed EXCEPT ![p] = None]
  /\ pc' = Goto(p, Awake(pc[p]))
  /\ UNCHANGED <<script, command, taken, ready, enabled, calm>>

-----------------------------------------------------------------------------

Perform(p) ==
  DoStore(p) \/ DoPost(p) \/ WatchMonitor(p) \/ WatchCheck(p) \/ WatchMwait(p)

Thread(a) ==
  \/ Start(a) \/ Enable(a)
  \/ Read(a, "read", "monitor")
  \/ Monitor(a)
  \/ Read(a, "reread", "doze")
  \/ Mwait(a)
  \/ Clear(a) \/ Hello(a)

Next ==
  \/ BootAp \/ Bench
  \/ \E a \in Aps : HelloAp(a) \/ Thread(a)
  \/ \E p \in Cpus : Perform(p) \/ Disturb(p)

\* Every processor goes on; nobody has to type a command.
Fairness ==
  /\ \A p \in Cpus : WF_vars(Perform(p))
  /\ \A a \in Aps : WF_vars(Thread(a))

Spec == Init /\ [][Next]_vars /\ Fairness

-----------------------------------------------------------------------------
(* Properties.                                                             *)

\* No processor is halted while the line it waits for already holds what it
\* waits for (smp.c:41-52, bench.c:144-153).
NoLostWakeup ==
  /\ \A a \in Aps : pc[a] = "asleep" => command[a] = None
  /\ \A p \in Cpus : pc[p] = "halted" => ready[Op(p).ap] # Op(p).v

\* The handshake: a byte takes its values in the order of the protocol, so no
\* side overwrites a value the other has not seen, and it is reset only while
\* its AP is not in the bench.
Follows(old, new) ==
  \/ new = old + 1
  \/ <<old, new>> \in {<<3, 2>>, <<9, 4>>}

Handshake ==
  [][\A a \in Aps :
       ready'[a] # ready[a] =>
         \/ Follows(ready[a], ready'[a])
         \/ ready'[a] = 0 /\ pc[a] \notin Running]_vars

\* A bench that begins when no command is on its way ends.
BenchEnds == pc[Bsp] # "shell" /\ calm ~> pc[Bsp] = "shell"

\* The AP is at the beginning of run_command for command c.
Begins(a, c) ==
  IF c = "HELLO" THEN pc[a] = "hello" ELSE pc[a] = "run" /\ script[a] = ApScript(a)

\* A command that is in the mailbox while its AP waits for one, goes to wait
\* for one, or runs another one to its end is run by the AP (smp.c:34-52),
\* unless another command replaces it or boot_ap starts the AP again.  Nothing
\* is said of a command posted between the read of the mailbox and the store
\* that clears it (smp.c:35-37), or before cAP_main empties the mailbox
\* (main.c:862): such commands are lost.
CommandRuns ==
  \A a \in Aps, c \in Commands :
    command[a] = c /\ pc[a] \in Waiting \cup {"enable", "hello"}
      ~> \/ Begins(a, c)
         \/ command[a] \notin {None, c}
         \/ pc[a] = "start"

-----------------------------------------------------------------------------
(* The inductive invariant behind NoLostWakeup.                            *)

\* Every processor has a program counter, a monitor and a script, every AP a
\* mailbox and a byte.
ShapeInv ==
  /\ pc = [p \in Cpus |-> pc[p]]
  /\ armed = [p \in Cpus |-> armed[p]]
  /\ script = [p \in Cpus |-> script[p]]
  /\ command = [a \in Aps |-> command[a]]
  /\ ready = [a \in Aps |-> ready[a]]

\* An AP behind its monitor is armed on its mailbox, which was empty when it
\* looked again, unless it has been disarmed since.
MailboxInv ==
  \A a \in Aps :
    /\ pc[a] \in {"reread", "doze", "asleep"} /\ armed[a] # None
         => armed[a] = CommandLine(a)
    /\ pc[a] \in {"doze", "asleep"} /\ armed[a] # None => command[a] = None
    /\ pc[a] = "asleep" => armed[a] # None

\* The same of a processor in the handshake and of the byte it waits for.
ByteInv ==
  \A p \in Cpus :
    /\ pc[p] \in {"check", "mwait", "halted"} /\ armed[p] # None
         => armed[p] = ReadyLine(Op(p).ap)
    /\ pc[p] \in {"mwait", "halted"} /\ armed[p] # None
         => ready[Op(p).ap] # Op(p).v
    /\ pc[p] = "halted" => armed[p] # None

WakeupInv == ShapeInv /\ MailboxInv /\ ByteInv

-----------------------------------------------------------------------------
(* The inductive invariant behind Handshake.                               *)

\* What is left of a script on the byte and the mailbox of one AP.
OnAp(ops, a) ==
  FlattenSeq([i \in 1..Len(ops) |-> IF ops[i].ap = a THEN <<ops[i]>> ELSE <<>>])

\* The values that a byte takes in a bench, from value 0 to value LastValue.
LastValue == 2 * CStates + 13
Value(k) ==
  CASE k <= 1 -> k
    [] k > 1 /\ k <= 2 * CStates + 1 -> 2 + (k % 2)
    [] OTHER -> 4 + ((k - 2 * CStates - 2) % 6)

\* The AP stores the odd ones and waits for the even ones; processor 0 does
\* the opposite.
ByAp(a, k) == IF k % 2 = 1 THEN Store(a, Value(k)) ELSE Watch(a, Value(k))
ByBsp(a, k) == IF k % 2 = 1 THEN Watch(a, Value(k)) ELSE Store(a, Value(k))

\* What either has to do from value k on.  Processor 0 posts the command
\* between 0 and 1.
ApFrom(a, k) == [n \in 1..(LastValue + 1 - k) |-> ByAp(a, k - 1 + n)]
BspFrom(a, k) == [n \in 1..(LastValue + 1 - k) |-> ByBsp(a, k - 1 + n)]
WholePart(a) == Launch(a) \o BspFrom(a, 1)

\* No command to run the bench is under way to the AP.
NoBench(a) ==
  /\ command[a] # "RUN_BENCH"
  /\ ~(pc[a] = "clear" /\ taken[a] = "RUN_BENCH")

\* The AP is not in a bench: it has not been started or it has finished.
Apart(a) ==
  /\ OnAp(script[Bsp], a) \in {<<>>, WholePart(a), Tail(WholePart(a))}
  /\ OnAp(script[Bsp], a) = Tail(WholePart(a)) => ready[a] = 0
  /\ script[a] = <<>>
  /\ NoBench(a)

\* The command has been posted and not been taken yet.
Called(a) ==
  /\ OnAp(script[Bsp], a) = BspFrom(a, 1)
  /\ ready[a] = 0
  /\ script[a] = <<>>

\* Both are about value k of the byte, or one of them has stored it and the
\* other has not seen it.
InStep(a, j, k) ==
  /\ OnAp(script[Bsp], a) = BspFrom(a, j)
  /\ script[a] = ApFrom(a, k)
  /\ NoBench(a)
  /\ \/ j = k /\ ready[a] = Value(k - 1)
     \/ j = k + 1 /\ k % 2 = 0 /\ ready[a] = Value(k)
     \/ k = j + 1 /\ j % 2 = 1 /\ ready[a] = Value(j)

Meets(a) ==
  \/ Apart(a)
  \/ Called(a)
  \/ \E j \in 1..LastValue, k \in 1..(LastValue + 1) : InStep(a, j, k)

\* A processor behind a monitor of watch_mem1 has a wait at the head of its
\* script.
WatchInv ==
  \A p \in Cpus : pc[p] \in {"check", "mwait", "halted"} => Op(p).op = "watch"

MeetingInv == WatchInv /\ \A a \in Aps : Meets(a)

=============================================================================
