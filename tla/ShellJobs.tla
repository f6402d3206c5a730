------------------------------ MODULE ShellJobs ------------------------------
(***************************************************************************)
(* The shell commands of src/reg_commands.c that hand their work to a      *)
(* thread of its own: eapki, ewpki, eapku and ewpku (install or uninstall  *)
(* a package) and js (run a script).  argv points into the line buffer of  *)
(* the shell, which the next command overwrites; so each command copies    *)
(* its argument to the heap, and the thread frees the copy.                *)
(*                                                                         *)
(* Memory is a function from addresses, the line buffer and the heap       *)
(* blocks, to the argument written there.  One step is what a thread does  *)
(* between two points where another one can run.  A thread may block       *)
(* inside the calls it makes, so every order of steps is possible;         *)
(* priorities say only who may be kept from running (see Preempted).       *)
(***************************************************************************)
EXTENDS Integers

CONSTANTS
    Args,         \* paths and identifiers that may be typed
    NoArg,        \* the command is typed without an argument
    StopOption,   \* js --stop
    Line,         \* address of argv[1]
    Blocks,       \* bound: addresses of the heap
    Threads,      \* bound: thread objects the kernel can create
    Nobody,       \* no block, no thread
    Free          \* what a block holds while it is not allocated

ASSUME AddressAssumption == Line \notin Blocks /\ Nobody \notin Blocks
ASSUME ThreadAssumption  == Nobody \notin Threads
ASSUME ContentAssumption ==
    /\ NoArg \notin Args /\ StopOption \notin Args /\ Free \notin Args
    /\ Free # NoArg /\ Free # StopOption

PkgCommands == {"eapki", "ewpki", "eapku", "ewpku"}
Commands    == PkgCommands \cup {"js"}
Addresses   == Blocks \cup {Line}

\* Priorities of threads, the smaller the more urgent.  The shell, installs
\* and scripts have Default; js --atp may give a script any other, of which one
\* on each side is enough.
Default     == 20
Priorities  == {Default - 1, Default, Default + 1}

VARIABLES
    shell,        \* where the shell thread is in the command
    cmd,          \* the command it executes
    copy,         \* its local path_copy, id_copy or file_copy
    tid,          \* its local tid (js: thread)
    mem,          \* mem[a]: what is written at address a
    thread,       \* the kernel's thread objects
    engine,       \* the thread whose script runs, or Nobody
    stop,         \* the running script has been asked to stop
    typed         \* typed[t]: history, the argument the operator gave for t

shellVars  == <<shell, cmd, copy, tid>>
engineVars == <<engine, stop>>
vars == <<shellVars, mem, thread, engineVars, typed>>

\* "absent": no thread; "created": not started; "ready": about to read its
\* parameter; "working": inside the call its entry function makes.
ThreadState == {"absent", "created", "ready", "working"}

\* The locals of a command point to something exactly while it uses them.
TypeOK ==
    /\ shell \in {"prompt", "called", "copied", "created"}
    /\ cmd \in Commands
    /\ copy \in IF shell \in {"copied", "created"} THEN Blocks ELSE {Nobody}
    /\ tid \in IF shell = "created" THEN Threads ELSE {Nobody}
    /\ mem \in [Addresses -> Args \cup {NoArg, StopOption, Free}]
    /\ thread \in [Threads -> [state : ThreadState, entry : Commands,
                               param : Addresses \cup {Nobody},
                               priority : Priorities]]
    /\ engine \in Threads \cup {Nobody}
    /\ stop \in BOOLEAN
    /\ typed \in [Threads -> Args \cup {NoArg}]

Absent == [state |-> "absent", entry |-> "js", param |-> Nobody,
           priority |-> Default]

Init ==
    /\ shell = "prompt"
    /\ cmd = "js"
    /\ copy = Nobody
    /\ tid = Nobody
    /\ mem = [a \in Addresses |-> IF a = Line THEN NoArg ELSE Free]
    /\ thread = [t \in Threads |-> Absent]
    /\ engine = Nobody
    /\ stop = FALSE
    /\ typed = [t \in Threads |-> NoArg]

-----------------------------------------------------------------------------
(***************************************************************************)
(* The shell thread.                                                       *)
(***************************************************************************)

\* The shell reads a line into its buffer and calls the command.
Type(c, a) ==
    /\ shell = "prompt"
    /\ a = StopOption => c = "js"
    /\ shell' = "called"
    /\ cmd' = c
    /\ mem' = [mem EXCEPT ![Line] = a]
    /\ UNCHANGED <<copy, tid, thread, engineVars, typed>>

\* argc < 2 (js: no file name, or an option it does not know): a message.
Usage ==
    /\ shell = "called" /\ mem[Line] = NoArg
    /\ shell' = "prompt"
    /\ UNCHANGED <<cmd, copy, tid, mem, thread, engineVars, typed>>

\* js --stop: a request to the script that runs, if there is one.
RequestStop ==
    /\ shell = "called" /\ mem[Line] = StopOption
    /\ stop' = (engine # Nobody)
    /\ shell' = "prompt"
    /\ UNCHANGED <<cmd, copy, tid, mem, thread, engine, typed>>

CopyArgument(b) ==
    /\ shell = "called" /\ mem[Line] \in Args
    /\ mem[b] = Free
    /\ mem' = [mem EXCEPT ![b] = mem[Line]]
    /\ copy' = b
    /\ shell' = "copied"
    /\ UNCHANGED <<cmd, tid, thread, engineVars, typed>>

OutOfMemory ==
    /\ shell = "called" /\ mem[Line] \in Args
    /\ shell' = "prompt"
    /\ UNCHANGED <<cmd, copy, tid, mem, thread, engineVars, typed>>

\* Slip: the thread is given argv[1] itself.
CreateOnLine(t) ==
    /\ shell = "copied"
    /\ thread[t] = Absent
    /\ \E p \in IF cmd = "js" THEN Priorities ELSE {Default} :
          thread' = [thread EXCEPT ![t] = [state |-> "created", entry |-> cmd,
                                           param |-> Line, priority |-> p]]
    /\ tid' = t
    /\ shell' = "created"
    /\ typed' = [typed EXCEPT ![t] = mem[Line]]
    /\ UNCHANGED <<cmd, copy, mem, engineVars>>

CreateThread(t) ==
    /\ shell = "copied"
    /\ thread[t] = Absent
    /\ \E p \in IF cmd = "js" THEN Priorities ELSE {Default} :
          thread' = [thread EXCEPT ![t] = [state |-> "created", entry |-> cmd,
                                           param |-> copy, priority |-> p]]
    /\ tid' = t
    /\ shell' = "created"
    /\ typed' = [typed EXCEPT ![t] = mem[Line]]
    /\ UNCHANGED <<cmd, copy, mem, engineVars>>

\* Slips: the result of rt_thread_create is not looked at; the copy is
\* forgotten when there is no thread.
CreateFailsUnchecked ==
    /\ shell = "copied"
    /\ shell' = "created"
    /\ UNCHANGED <<cmd, copy, tid, mem, thread, engineVars, typed>>

CreateFailsKeeps ==
    /\ shell = "copied"
    /\ copy' = Nobody
    /\ shell' = "prompt"
    /\ UNCHANGED <<cmd, tid, mem, thread, engineVars, typed>>

\* rt_thread_create finds no memory for the object or its stack.
CreateFails ==
    /\ shell = "copied"
    /\ mem' = [mem EXCEPT ![copy] = Free]
    /\ copy' = Nobody
    /\ shell' = "prompt"
    /\ UNCHANGED <<cmd, tid, thread, engineVars, typed>>

\* Slips: the command waits for the thread to end; it frees its copy on the
\* way out as well.
StartupJoins ==
    /\ shell = "created"
    /\ \/ /\ thread[tid].state = "created"
          /\ thread' = [thread EXCEPT ![tid].state = "ready"]
          /\ UNCHANGED shellVars
       \/ /\ thread[tid] = Absent
          /\ copy' = Nobody /\ tid' = Nobody
          /\ shell' = "prompt"
          /\ UNCHANGED <<cmd, thread>>
    /\ UNCHANGED <<mem, engineVars, typed>>

StartupFrees ==
    /\ shell = "created"
    /\ thread' = [thread EXCEPT ![tid].state = "ready"]
    /\ mem' = [mem EXCEPT ![copy] = Free]
    /\ copy' = Nobody /\ tid' = Nobody
    /\ shell' = "prompt"
    /\ UNCHANGED <<cmd, engineVars, typed>>

\* rt_thread_startup; the command returns and its locals are gone.
Startup ==
    /\ shell = "created"
    /\ thread' = [thread EXCEPT ![tid].state = "ready"]
    /\ copy' = Nobody /\ tid' = Nobody
    /\ shell' = "prompt"
    /\ UNCHANGED <<cmd, mem, engineVars, typed>>

-----------------------------------------------------------------------------
(***************************************************************************)
(* The threads.  What eos_app_install and its like do is not in the        *)
(* repository; they return, with whatever result.                          *)
(***************************************************************************)

\* The entry function frees its parameter and returns: the thread is gone.
ExitFreeing(t) ==
    /\ mem' = [mem EXCEPT ![thread[t].param] = Free]
    /\ thread' = [thread EXCEPT ![t] = Absent]

\* The call is made with the parameter, which the thread then still needs:
\* it prints it when the call has succeeded.
CallPkgMgr(t) ==
    /\ thread[t].state = "ready" /\ thread[t].entry \in PkgCommands
    /\ thread' = [thread EXCEPT ![t].state = "working"]
    /\ UNCHANGED <<shellVars, mem, engineVars, typed>>

PkgMgrReturns(t) ==
    /\ thread[t].state = "working" /\ thread[t].entry \in PkgCommands
    /\ ExitFreeing(t)
    /\ UNCHANGED <<shellVars, engineVars, typed>>

\* app_run_thread_entry: the file cannot be read.
ReadFails(t) ==
    /\ thread[t].state = "ready" /\ thread[t].entry = "js"
    /\ ExitFreeing(t)
    /\ UNCHANGED <<shellVars, engineVars, typed>>

\* The file has been read and script_engine_run is called: it runs one
\* script at a time.
RunScript(t) ==
    /\ thread[t].state = "ready" /\ thread[t].entry = "js"
    /\ engine = Nobody
    /\ engine' = t
    /\ thread' = [thread EXCEPT ![t].state = "working"]
    /\ UNCHANGED <<shellVars, mem, stop, typed>>

\* SE_ERR_ALREADY_RUNNING.
AlreadyRunning(t) ==
    /\ thread[t].state = "ready" /\ thread[t].entry = "js"
    /\ engine # Nobody
    /\ ExitFreeing(t)
    /\ UNCHANGED <<shellVars, engineVars, typed>>

\* The script ends, by itself or because it was asked to.
ScriptEnds(t) ==
    /\ engine = t
    /\ engine' = Nobody
    /\ stop' = FALSE
    /\ ExitFreeing(t)
    /\ UNCHANGED <<shellVars, typed>>

-----------------------------------------------------------------------------
Command == \/ Usage \/ RequestStop \/ OutOfMemory
           \/ CreateFails \/ Startup
           \/ \E b \in Blocks : CopyArgument(b)
           \/ \E t \in Threads : CreateThread(t)

\* The steps a thread takes without the help of a script that may run on.
Work(t) == \/ CallPkgMgr(t) \/ PkgMgrReturns(t)
           \/ ReadFails(t) \/ RunScript(t) \/ AlreadyRunning(t)

Next == \/ \E c \in Commands, a \in Args \cup {NoArg, StopOption} : Type(c, a)
        \/ Command
        \/ \E t \in Threads : Work(t) \/ ScriptEnds(t)

Spec == Init /\ [][Next]_vars

\* A thread above priority p that may be running: the scheduler is strict, so
\* it keeps every thread of priority p from the processor until it blocks.
Preempted(p) == \E t \in Threads : /\ thread[t].state \in {"ready", "working"}
                                   /\ thread[t].priority < p

\* A thread that nobody above it keeps from running gets its share of the
\* processor, and the calls it makes return; of scripts only those that have
\* been asked to stop do.
Fairness ==
    /\ WF_vars(Command /\ ~Preempted(Default))
    /\ \A t \in Threads :
          /\ WF_vars(Work(t) /\ ~Preempted(thread[t].priority))
          /\ WF_vars(stop /\ ScriptEnds(t) /\ ~Preempted(thread[t].priority))

FairSpec == Spec /\ Fairness

-----------------------------------------------------------------------------
(***************************************************************************)
(* Properties.                                                             *)
(***************************************************************************)
Live(t) == thread[t].state # "absent"

\* A thread finds at its parameter, from its creation to its end, what the
\* operator typed for it, whatever has been typed since and whatever other
\* threads have allocated and freed: neither the line buffer nor a block
\* freed too early is ever read.
ActsOnTyped == \A t \in Threads : Live(t) => mem[thread[t].param] = typed[t]

\* Every allocated block has exactly one owner that will free it, the command
\* until it has created the thread and that thread from then on; and no owner
\* has a block that is free or another's.  No path of the five commands, the
\* failures of malloc and rt_thread_create included, loses or frees twice.
OneOwner ==
    /\ \A t \in Threads : Live(t) => /\ thread[t].param \in Blocks
                                     /\ mem[thread[t].param] # Free
    /\ \A t, u \in Threads :
          Live(t) /\ Live(u) /\ thread[t].param = thread[u].param => t = u
    /\ shell = "copied" =>
          /\ copy \in Blocks /\ mem[copy] # Free
          /\ \A t \in Threads : Live(t) => thread[t].param # copy
    /\ \A b \in Blocks : mem[b] # Free =>
          \/ shell = "copied" /\ b = copy
          \/ \E t \in Threads : Live(t) /\ b = thread[t].param

\* What the engine's owner is, for the proofs: a thread that is inside
\* script_engine_run, where nobody else is.
EngineIsWorking ==
    /\ engine # Nobody => /\ thread[engine].state = "working"
                          /\ thread[engine].entry = "js"
    /\ \A t \in Threads :
          thread[t].state = "working" /\ thread[t].entry = "js" => engine = t
    /\ stop => engine # Nobody

\* What a command relies on between its steps, for the proofs: the line has
\* not changed since it was copied, the thread it starts has not run yet.
CommandInv ==
    /\ shell = "copied" => mem[Line] \in Args /\ mem[copy] = mem[Line]
    /\ shell = "created" => thread[tid].state = "created"

\* The inductive invariant, for the proofs: who owns what between any two
\* steps of the shell and of the threads.
JobsInv == OneOwner /\ ActsOnTyped /\ EngineIsWorking /\ CommandInv

\* The console does not wait for a job: even when no memory or thread is left,
\* and with any number of installs and scripts running, the prompt comes back.
\* Only a script that --atp puts above the shell can keep it away.
PromptReturns ==
    shell # "prompt" ~> shell = "prompt" \/ Preempted(Default)

\* What may hold block b for ever: a script that is left running, for its own
\* path, and for what a thread or a command it outranks has not come to free.
HeldByScript(b) ==
    /\ engine # Nobody
    /\ \/ b = thread[engine].param
       \/ b = copy /\ thread[engine].priority < Default
       \/ \E t \in Threads : /\ thread[t].param = b
                             /\ thread[engine].priority < thread[t].priority

\* When commands cease, every job but a script that is left running, and those
\* such a script outranks, comes to an end and its block returns to the heap.
\* With the default priorities a script that runs on stands in nobody's way.
JobsEnd ==
    <>[][shell' # "called"]_vars =>
        <>[](\A b \in Blocks : mem[b] # Free => HeldByScript(b))
=============================================================================
