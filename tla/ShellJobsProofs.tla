--------------------------- MODULE ShellJobsProofs ---------------------------
(***************************************************************************)
(* For any number of threads and blocks, and whatever is typed: the        *)
(* commands of ShellJobs never lose, share or free twice a copied          *)
(* argument, and every thread acts on the argument typed for it.           *)
(***************************************************************************)
EXTENDS ShellJobs, TLAPS

USE AddressAssumption, ThreadAssumption, ContentAssumption

\* At the first prompt no memory is allocated and no thread exists.
LEMMA InitHolds == Init => TypeOK /\ JobsInv
<1> SUFFICES ASSUME Init PROVE TypeOK /\ JobsInv
  OBVIOUS
<1> USE DEF Init, Absent, Live
<1>1. TypeOK
  <2>1. mem \in [Addresses -> Args \cup {NoArg, StopOption, Free}]
    OBVIOUS
  <2>2. thread \in [Threads -> [state : ThreadState, entry : Commands,
                                param : Addresses \cup {Nobody},
                                priority : Priorities]]
    BY DEF ThreadState, Commands, Priorities, Default
  <2> QED
    BY <2>1, <2>2 DEF TypeOK, Commands
<1>2. OneOwner /\ ActsOnTyped
  BY DEF OneOwner, ActsOnTyped, Addresses
<1>3. EngineIsWorking /\ CommandInv
  BY DEF EngineIsWorking, CommandInv
<1> QED
  BY <1>1, <1>2, <1>3 DEF JobsInv

-----------------------------------------------------------------------------
\* Every step of the shell and of a thread keeps the variables in range: the
\* commands use their locals only where they point to something.
LEMMA TypeStep == TypeOK /\ JobsInv /\ [Next]_vars => TypeOK'
<1> SUFFICES ASSUME TypeOK, JobsInv, [Next]_vars PROVE TypeOK'
  OBVIOUS
<1> USE DEF TypeOK, Addresses, shellVars, engineVars
<1>1. ASSUME NEW c \in Commands, NEW a \in Args \cup {NoArg, StopOption},
             Type(c, a)
      PROVE  TypeOK'
  BY <1>1 DEF Type
<1>2. CASE Usage
  BY <1>2 DEF Usage
<1>3. CASE RequestStop
  BY <1>3 DEF RequestStop
<1>4. CASE OutOfMemory
  BY <1>4 DEF OutOfMemory
<1>5. CASE CreateFails
  BY <1>5 DEF CreateFails
<1>6. CASE Startup
  <2>1. thread' \in [Threads -> [state : ThreadState, entry : Commands,
                                 param : Addresses \cup {Nobody},
                                 priority : Priorities]]
    BY <1>6 DEF Startup, ThreadState
  <2> QED
    BY <1>6, <2>1 DEF Startup
<1>7. ASSUME NEW b \in Blocks, CopyArgument(b) PROVE TypeOK'
  BY <1>7 DEF CopyArgument
<1>8. ASSUME NEW t \in Threads, CreateThread(t) PROVE TypeOK'
  <2>1. copy \in Blocks /\ mem[Line] \in Args
    BY <1>8 DEF CreateThread, JobsInv, CommandInv
  <2>2. thread' \in [Threads -> [state : ThreadState, entry : Commands,
                                 param : Addresses \cup {Nobody},
                                 priority : Priorities]]
    BY <1>8, <2>1 DEF CreateThread, ThreadState, Priorities, Default
  <2>3. typed' \in [Threads -> Args \cup {NoArg}]
    BY <1>8, <2>1 DEF CreateThread
  <2> QED
    BY <1>8, <2>2, <2>3 DEF CreateThread
<1>9. ASSUME NEW t \in Threads, Work(t) \/ ScriptEnds(t) PROVE TypeOK'
  <2>1. CASE CallPkgMgr(t) \/ RunScript(t)
    <3>1. thread' = [thread EXCEPT ![t].state = "working"]
      BY <2>1 DEF CallPkgMgr, RunScript
    <3>2. thread' \in [Threads -> [state : ThreadState, entry : Commands,
                                   param : Addresses \cup {Nobody},
                                   priority : Priorities]]
      BY <3>1 DEF ThreadState
    <3> QED
      BY <2>1, <3>2 DEF CallPkgMgr, RunScript
  <2>2. CASE ~(CallPkgMgr(t) \/ RunScript(t))
    <3>1. ExitFreeing(t) /\ UNCHANGED <<shellVars, typed>>
      BY <1>9, <2>2 DEF Work, ScriptEnds, PkgMgrReturns, ReadFails,
                        AlreadyRunning
    <3>2. engine' \in Threads \cup {Nobody} /\ stop' \in BOOLEAN
      BY <1>9, <2>2 DEF Work, ScriptEnds, PkgMgrReturns, ReadFails,
                        AlreadyRunning
    <3>3. thread' \in [Threads -> [state : ThreadState, entry : Commands,
                                   param : Addresses \cup {Nobody},
                                   priority : Priorities]]
      BY <3>1 DEF ExitFreeing, Absent, ThreadState, Commands,
                  Priorities, Default
    <3>4. mem' \in [Addresses -> Args \cup {NoArg, StopOption, Free}]
      BY <3>1 DEF ExitFreeing
    <3> QED
      BY <3>1, <3>2, <3>3, <3>4
  <2> QED
    BY <2>1, <2>2
<1>10. CASE UNCHANGED vars
  BY <1>10 DEF vars
<1> QED
  BY <1>1, <1>2, <1>3, <1>4, <1>5, <1>6, <1>7, <1>8, <1>9, <1>10
     DEF Next, Command

-----------------------------------------------------------------------------
\* A thread that ends frees its block and nobody else's: the entry functions
\* free the parameter they were created with, and only once.
LEMMA ExitStep ==
    ASSUME TypeOK, JobsInv, NEW t \in Threads,
           thread[t].state \in {"ready", "working"}, ExitFreeing(t),
           UNCHANGED <<shellVars, typed>>,
           \/ engine # t /\ UNCHANGED engineVars
           \/ engine = t /\ engine' = Nobody /\ stop' = FALSE
    PROVE  JobsInv'
<1> USE DEF TypeOK, Addresses, JobsInv
<1> DEFINE b == thread[t].param
<1>1. b \in Blocks /\ Live(t)
  BY DEF OneOwner, Live
<1>2. /\ thread' = [thread EXCEPT ![t] = Absent]
      /\ mem' = [mem EXCEPT ![b] = Free]
  BY DEF ExitFreeing
<1>3. /\ ~Live(t)'
      /\ \A u \in Threads \ {t} : thread'[u] = thread[u] /\ Live(u)' = Live(u)
  BY <1>2 DEF Live, Absent
<1>4. \A u \in Threads \ {t} : Live(u) => thread[u].param # b
  BY <1>1 DEF OneOwner
<1>5. shell = "copied" => copy # b
  BY <1>1 DEF OneOwner
<1>6. \A a \in Addresses : mem'[a] = IF a = b THEN Free ELSE mem[a]
  BY <1>2
<1>7. OneOwner'
  <2>1. (\A u \in Threads : Live(u) => /\ thread[u].param \in Blocks
                                       /\ mem[thread[u].param] # Free)'
    BY <1>3, <1>4, <1>6 DEF OneOwner
  <2>2. (\A u, v \in Threads :
            Live(u) /\ Live(v) /\ thread[u].param = thread[v].param => u = v)'
    BY <1>3 DEF OneOwner
  <2>3. (shell = "copied" =>
            /\ copy \in Blocks /\ mem[copy] # Free
            /\ \A u \in Threads : Live(u) => thread[u].param # copy)'
    BY <1>3, <1>5, <1>6 DEF OneOwner, shellVars
  <2>4. (\A c \in Blocks : mem[c] # Free =>
            \/ shell = "copied" /\ c = copy
            \/ \E u \in Threads : Live(u) /\ c = thread[u].param)'
    <3> SUFFICES ASSUME NEW c \in Blocks, mem'[c] # Free
                 PROVE  \/ shell' = "copied" /\ c = copy'
                        \/ \E u \in Threads : Live(u)' /\ c = thread'[u].param
      OBVIOUS
    <3>1. c # b /\ mem[c] # Free
      BY <1>6
    <3>2. CASE shell = "copied" /\ c = copy
      BY <3>2 DEF shellVars
    <3>3. CASE \E u \in Threads : Live(u) /\ c = thread[u].param
      BY <3>1, <3>3, <1>3
    <3> QED
      BY <3>1, <3>2, <3>3 DEF OneOwner
  <2> QED
    BY <2>1, <2>2, <2>3, <2>4 DEF OneOwner
<1>8. ActsOnTyped'
  BY <1>3, <1>4, <1>6 DEF ActsOnTyped, OneOwner
<1>9. EngineIsWorking'
  BY <1>2, <1>3 DEF EngineIsWorking, engineVars, Absent
<1>10. CommandInv'
  BY <1>1, <1>2, <1>3, <1>5, <1>6 DEF CommandInv, shellVars, OneOwner
<1> QED
  BY <1>7, <1>8, <1>9, <1>10

\* A step that changes no address and no parameter of a live thread, and
\* creates none, leaves the owners as they are.
LEMMA OwnersKept ==
    ASSUME TypeOK, JobsInv,
           \A b \in Blocks : mem'[b] = mem[b],
           \A t \in Threads : /\ Live(t)' = Live(t)
                              /\ thread'[t].param = thread[t].param,
           UNCHANGED typed,
           shell' = "copied" => shell = "copied" /\ copy' = copy,
           shell = "copied" => shell' = "copied"
    PROVE  OneOwner' /\ ActsOnTyped'
BY DEF TypeOK, JobsInv, OneOwner, ActsOnTyped

-----------------------------------------------------------------------------
\* The owners change hands as OneOwner says at every step.
LEMMA JobsStep == TypeOK /\ JobsInv /\ [Next]_vars => JobsInv'
<1> SUFFICES ASSUME TypeOK, JobsInv, [Next]_vars PROVE JobsInv'
  OBVIOUS
<1> USE DEF TypeOK, Addresses, shellVars, engineVars
<1>1. ASSUME NEW c \in Commands, NEW a \in Args \cup {NoArg, StopOption},
             Type(c, a)
      PROVE  JobsInv'
  <2> USE <1>1 DEF Type
  <2>1. OneOwner' /\ ActsOnTyped'
    BY OwnersKept DEF Live
  <2>2. EngineIsWorking' /\ CommandInv'
    BY DEF JobsInv, EngineIsWorking, CommandInv
  <2> QED
    BY <2>1, <2>2 DEF JobsInv
<1>2. CASE Usage \/ RequestStop \/ OutOfMemory
  <2> USE <1>2 DEF Usage, RequestStop, OutOfMemory
  <2>1. OneOwner' /\ ActsOnTyped'
    BY OwnersKept DEF Live
  <2>2. EngineIsWorking' /\ CommandInv'
    BY DEF JobsInv, EngineIsWorking, CommandInv
  <2> QED
    BY <2>1, <2>2 DEF JobsInv
<1>3. CASE CreateFails
  <2> USE <1>3 DEF CreateFails, JobsInv
  <2>1. \A a \in Addresses : mem'[a] = IF a = copy THEN Free ELSE mem[a]
    OBVIOUS
  <2>2. OneOwner'
    BY <2>1 DEF OneOwner, Live
  <2>3. ActsOnTyped'
    BY <2>1 DEF OneOwner, ActsOnTyped, Live
  <2>4. EngineIsWorking' /\ CommandInv'
    BY DEF EngineIsWorking, CommandInv
  <2> QED
    BY <2>2, <2>3, <2>4
<1>4. CASE Startup
  <2> USE <1>4 DEF Startup
  <2>1. thread[tid].state = "created"
    BY DEF JobsInv, CommandInv
  <2>2. \A t \in Threads : /\ Live(t)' = Live(t)
                           /\ thread'[t].param = thread[t].param
                           /\ thread'[t].entry = thread[t].entry
                           /\ thread[t].state = "working" <=>
                                 thread'[t].state = "working"
    BY <2>1 DEF Live
  <2>3. OneOwner' /\ ActsOnTyped'
    BY <2>2, OwnersKept
  <2>4. EngineIsWorking' /\ CommandInv'
    BY <2>2 DEF JobsInv, EngineIsWorking, CommandInv
  <2> QED
    BY <2>3, <2>4 DEF JobsInv
<1>5. ASSUME NEW b \in Blocks, CopyArgument(b) PROVE JobsInv'
  <2> USE <1>5 DEF CopyArgument, JobsInv
  <2>1. \A a \in Addresses : mem'[a] = IF a = b THEN mem[Line] ELSE mem[a]
    OBVIOUS
  <2>2. \A t \in Threads : Live(t) => thread[t].param # b
    BY DEF OneOwner
  <2>3. OneOwner'
    BY <2>1, <2>2 DEF OneOwner, Live
  <2>4. ActsOnTyped'
    BY <2>1, <2>2 DEF OneOwner, ActsOnTyped, Live
  <2>5. EngineIsWorking' /\ CommandInv'
    BY <2>1 DEF EngineIsWorking, CommandInv
  <2> QED
    BY <2>3, <2>4, <2>5
<1>6. ASSUME NEW t \in Threads, CreateThread(t) PROVE JobsInv'
  <2> USE <1>6 DEF CreateThread, JobsInv
  <2>1. /\ ~Live(t) /\ Live(t)'
        /\ thread'[t].param = copy
        /\ thread'[t].state = "created"
        /\ \A u \in Threads \ {t} : thread'[u] = thread[u] /\ Live(u)' = Live(u)
    BY DEF Live, Absent
  <2>2. OneOwner'
    BY <2>1 DEF OneOwner
  <2>3. ActsOnTyped'
    BY <2>1 DEF ActsOnTyped, CommandInv
  <2>4. EngineIsWorking' /\ CommandInv'
    BY <2>1 DEF EngineIsWorking, CommandInv, Live
  <2> QED
    BY <2>2, <2>3, <2>4
<1>7. ASSUME NEW t \in Threads, CallPkgMgr(t) \/ RunScript(t) PROVE JobsInv'
  <2> USE <1>7 DEF CallPkgMgr, RunScript
  <2>1. \A u \in Threads : /\ Live(u)' = Live(u)
                           /\ thread'[u].param = thread[u].param
                           /\ thread'[u].entry = thread[u].entry
                           /\ thread'[u].state = "working" <=>
                                 thread[u].state = "working" \/ u = t
                           /\ thread'[u].state = "created" <=>
                                 thread[u].state = "created"
    BY DEF Live
  <2>2. OneOwner' /\ ActsOnTyped'
    BY <2>1, OwnersKept
  <2>3. EngineIsWorking'
    BY <2>1 DEF JobsInv, EngineIsWorking, PkgCommands
  <2>4. CommandInv'
    BY <2>1 DEF JobsInv, CommandInv
  <2> QED
    BY <2>2, <2>3, <2>4 DEF JobsInv
<1>8. ASSUME NEW t \in Threads,
             \/ PkgMgrReturns(t) \/ ReadFails(t)
             \/ AlreadyRunning(t) \/ ScriptEnds(t)
      PROVE  JobsInv'
  <2>1. /\ thread[t].state \in {"ready", "working"}
        /\ ExitFreeing(t)
        /\ UNCHANGED <<shellVars, typed>>
        /\ \/ engine # t /\ UNCHANGED engineVars
           \/ engine = t /\ engine' = Nobody /\ stop' = FALSE
    BY <1>8 DEF PkgMgrReturns, ReadFails, AlreadyRunning, ScriptEnds,
                JobsInv, EngineIsWorking, PkgCommands
  <2> QED
    BY <2>1, ExitStep
<1>9. CASE UNCHANGED vars
  BY <1>9 DEF vars, JobsInv, OneOwner, ActsOnTyped, EngineIsWorking,
              CommandInv, Live
<1> QED
  BY <1>1, <1>2, <1>3, <1>4, <1>5, <1>6, <1>7, <1>8, <1>9
     DEF Next, Command, Work

-----------------------------------------------------------------------------
\* What the shell and the threads maintain together.
LEMMA Invariance == Spec => [](TypeOK /\ JobsInv)
<1>1. TypeOK /\ JobsInv /\ [Next]_vars => (TypeOK /\ JobsInv)'
  BY TypeStep, JobsStep
<1> QED
  BY InitHolds, <1>1, PTL DEF Spec

\* The variables stay in their types, and in particular the locals of a
\* command point to memory and to a thread wherever the command uses them.
THEOREM TypeCorrect == Spec => []TypeOK
BY Invariance, PTL

\* No copied argument is lost, shared or freed twice, whatever fails: see
\* OneOwner.
THEOREM Ownership == Spec => []OneOwner
<1>1. JobsInv => OneOwner
  BY DEF JobsInv
<1> QED
  BY Invariance, <1>1, PTL

\* Every install, uninstall or script thread reads the argument typed for it,
\* not a later line and not memory that was freed: see ActsOnTyped.
THEOREM ArgumentIsTyped == Spec => []ActsOnTyped
<1>1. JobsInv => ActsOnTyped
  BY DEF JobsInv
<1> QED
  BY Invariance, <1>1, PTL
=============================================================================
