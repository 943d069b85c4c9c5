----------------------- MODULE MultiThreadApplication -----------------------
(***************************************************************************)
(* goby::middleware::MultiThreadApplicationBase (application/multi_thread.h)*)
(* and the goby::middleware::Thread it launches (application/thread.h).    *)
(*                                                                         *)
(* The main thread launches threads, asks them to leave by publishing on   *)
(* shutdown_group_, and joins a thread when that thread has published its  *)
(* key on joinable_group_.  The two groups are interthread channels: a     *)
(* publication reaches the threads that are subscribed when it is made and *)
(* waits in their mailboxes until they poll (module InterThread).          *)
(*                                                                         *)
(* A key is the type and index of a thread, an incarnation is one          *)
(* std::thread started for a key, named by its uid.                        *)
(***************************************************************************)
EXTENDS Naturals, Sequences, FiniteSets

CONSTANTS
    Keys,          \* type and index of the threads the application has
    Looping,       \* keys of threads with a loop frequency: their poll times out
    None,          \* a ThreadManagement whose thread pointer is null
    All,           \* the ThreadIdentifier with all_threads
    Relaunch,      \* may the application launch a key that is not joined yet?
    MaxLaunches,   \* bound: launches in all
    MaxRequests,   \* bound: calls of join_thread()
    MaxFailures    \* bound: exceptions thrown in threads

ASSUME AppAssumption ==
    /\ IsFiniteSet(Keys)
    /\ Looping \subseteq Keys
    /\ All \notin Keys
    /\ Relaunch \in BOOLEAN
    /\ MaxLaunches \in Nat
    /\ None \notin Nat

Uids == 0..MaxLaunches - 1

VARIABLES
    app,                   \* where the main thread is
    threads_,              \* [Keys -> the key's ThreadManagement: alive and thread]
    running_thread_count_,
    thread_uid_,           \* the next uid
    thread_exception_,     \* has some thread stored an exception?
    joinable,              \* the main thread's mailbox of joinable_group_
    incarnation,           \* [Uids -> key, phase and mailbox of shutdown_group_]
    seen                   \* history: requests and failures so far, and the
                           \* threads that subscribed after the request to all

vars == <<app, threads_, running_thread_count_, thread_uid_, thread_exception_,
          joinable, incarnation, seen>>

Phases == {"unborn", "starting", "running", "leaving", "exiting", "gone"}

Unborn == [key |-> None, phase |-> "unborn", mail |-> {}]

Init ==
    /\ app = [at |-> "running", key |-> None]
    /\ threads_ = [k \in Keys |-> [alive |-> FALSE, thread |-> None]]
    /\ running_thread_count_ = 0
    /\ thread_uid_ = 0
    /\ thread_exception_ = FALSE
    /\ joinable = <<>>
    /\ incarnation = [u \in Uids |-> Unborn]
    /\ seen = [requests |-> 0, failures |-> 0, missed |-> {}]

-----------------------------------------------------------------------------
(* The main thread. *)

CountLaunched_Not == running_thread_count_

CountLaunched == running_thread_count_ + 1

CountJoined_Not == running_thread_count_

CountJoined == running_thread_count_ - 1

\* launch_thread() of a key whose thread is not alive.  The thread pointer is
\* overwritten; a std::thread that was not joined is then destroyed, which
\* ends the process.  The exception for a thread that is alive is left out.
_launch_thread(k) ==
    /\ app.at = "running"
    /\ thread_uid_ < MaxLaunches
    /\ ~ threads_[k].alive
    /\ Relaunch \/ threads_[k].thread = None
    /\ threads_' = [threads_ EXCEPT ![k] = [alive |-> TRUE, thread |-> thread_uid_]]
    /\ incarnation' = [incarnation EXCEPT ![thread_uid_] =
                          [key |-> k, phase |-> "starting", mail |-> {}]]
    /\ thread_uid_' = thread_uid_ + 1
    /\ running_thread_count_' = CountLaunched
    /\ app' = IF threads_[k].thread = None THEN app
              ELSE [at |-> "terminated", key |-> None]
    /\ UNCHANGED <<thread_exception_, joinable, seen>>

Subscribed(u) == incarnation[u].phase = "running"

Addressed_ByKeyOnly(u, ti) == ti = incarnation[u].key

Addressed(u, ti) == ti = All \/ ti = incarnation[u].key

\* publish<shutdown_group_>(ti): into the mailbox of every subscribed thread.
\* A thread that is still in its constructor or before do_subscribe() misses it.
PublishShutdown(ti) ==
    /\ incarnation' = [u \in Uids |->
          IF Subscribed(u) THEN [incarnation[u] EXCEPT !.mail = @ \cup {ti}]
          ELSE incarnation[u]]
    /\ seen' = [seen EXCEPT
          !.requests = @ + 1,
          !.missed = @ \cup {u \in Uids : ti = All /\ incarnation[u].phase = "starting"}]

\* join_thread(): the thread is asked to leave.
join_thread(k) ==
    /\ app.at = "running"
    /\ seen.requests < MaxRequests
    /\ PublishShutdown(k)
    /\ UNCHANGED <<app, threads_, running_thread_count_, thread_uid_,
                   thread_exception_, joinable>>

\* quit() and then join_all_threads() in post_finalize().
join_all_threads ==
    /\ app.at = "running"
    /\ IF running_thread_count_ > 0
       THEN /\ app' = [at |-> "joining all", key |-> None]
            /\ PublishShutdown(All)
       ELSE /\ app' = [at |-> "exited", key |-> None]
            /\ UNCHANGED <<incarnation, seen>>
    /\ UNCHANGED <<threads_, running_thread_count_, thread_uid_, thread_exception_, joinable>>

\* The main thread polls a joinable key and blocks in std::thread::join().
\* _join_thread() does nothing for a key that is joined already.
_join_thread ==
    /\ app.at \in {"running", "joining all"}
    /\ joinable # <<>>
    /\ joinable' = Tail(joinable)
    /\ LET k == Head(joinable)
       IN  IF threads_[k].thread # None
           THEN /\ threads_' = [threads_ EXCEPT ![k].alive = FALSE]
                /\ app' = [at |-> IF app.at = "running" THEN "join" ELSE "join all",
                           key |-> k]
           ELSE UNCHANGED <<threads_, app>>
    /\ UNCHANGED <<running_thread_count_, thread_uid_, thread_exception_, incarnation, seen>>

\* std::thread::join() returns when the thread has gone.  A stored exception
\* is thrown again: run() ends the process, and from post_finalize() it leaves
\* the application, whose destructor takes the remaining threads with it.
Joined ==
    /\ app.at \in {"join", "join all"}
    /\ LET k == app.key
       IN  /\ incarnation[threads_[k].thread].phase = "gone"
           /\ threads_' = IF thread_exception_ /\ app.at = "join all"
                          THEN [q \in Keys |->
                                  [alive |-> FALSE,
                                   thread |-> IF q = k THEN None ELSE threads_[q].thread]]
                          ELSE [threads_ EXCEPT ![k].thread = None]
    /\ running_thread_count_' = CountJoined
    /\ app' = [at |-> IF thread_exception_
                      THEN IF app.at = "join" THEN "terminated" ELSE "unwinding"
                      ELSE IF app.at = "join" THEN "running" ELSE "joining all",
               key |-> None]
    /\ UNCHANGED <<thread_uid_, thread_exception_, joinable, incarnation, seen>>

\* The loop of join_all_threads() ends.
AllJoined ==
    /\ app.at = "joining all"
    /\ running_thread_count_ = 0
    /\ app' = [app EXCEPT !.at = "exited"]
    /\ UNCHANGED <<threads_, running_thread_count_, thread_uid_, thread_exception_,
                   joinable, incarnation, seen>>

\* ~ThreadManagement() of every key: it has cleared alive and joins.
Unwound ==
    /\ app.at = "unwinding"
    /\ \A k \in Keys : threads_[k].thread # None =>
          incarnation[threads_[k].thread].phase = "gone"
    /\ app' = [app EXCEPT !.at = "terminated"]
    /\ UNCHANGED <<threads_, running_thread_count_, thread_uid_, thread_exception_,
                   joinable, incarnation, seen>>

-----------------------------------------------------------------------------
(* The launched threads. *)

Alive == app.at \notin {"exited", "terminated"}

Move(u, phase) == incarnation' = [incarnation EXCEPT ![u].phase = phase]

\* Thread::run(): the constructor, do_subscribe(), initialize() and the first
\* test of alive.
Start(u) ==
    /\ Alive
    /\ incarnation[u].phase = "starting"
    /\ Move(u, IF threads_[incarnation[u].key].alive THEN "running" ELSE "leaving")
    /\ UNCHANGED <<app, threads_, running_thread_count_, thread_uid_, thread_exception_,
                   joinable, seen>>

\* One poll and the test of alive.  A thread without a loop frequency only
\* returns from poll() when there is mail.  thread_quit() clears alive.
run_once(u) ==
    LET k == incarnation[u].key
        quit == \E ti \in incarnation[u].mail : Addressed(u, ti)
        alive == threads_[k].alive /\ ~ quit
    IN  /\ Alive
        /\ incarnation[u].phase = "running"
        /\ k \in Looping \/ incarnation[u].mail # {}
        /\ threads_' = [threads_ EXCEPT ![k].alive = alive]
        /\ incarnation' = [incarnation EXCEPT
              ![u].mail = {},
              ![u].phase = IF alive THEN "running" ELSE "leaving"]
        /\ UNCHANGED <<app, running_thread_count_, thread_uid_, thread_exception_,
                       joinable, seen>>

Fail_PublishesToo(u) ==
    /\ Alive
    /\ incarnation[u].phase \in {"starting", "running"}
    /\ seen.failures < MaxFailures
    /\ thread_exception_' = TRUE
    /\ Move(u, "leaving")
    /\ seen' = [seen EXCEPT !.failures = @ + 1]
    /\ joinable' = Append(joinable, incarnation[u].key)
    /\ UNCHANGED <<app, threads_, running_thread_count_, thread_uid_>>

\* An exception in the constructor, a callback or loop(): caught by the lambda.
Fail(u) ==
    /\ Alive
    /\ incarnation[u].phase \in {"starting", "running"}
    /\ seen.failures < MaxFailures
    /\ thread_exception_' = TRUE
    /\ Move(u, "leaving")
    /\ seen' = [seen EXCEPT !.failures = @ + 1]
    /\ UNCHANGED <<app, threads_, running_thread_count_, thread_uid_, joinable>>

\* The last statement of the lambda.
PublishJoinable(u) ==
    /\ Alive
    /\ incarnation[u].phase = "leaving"
    /\ Move(u, "exiting")
    /\ joinable' = Append(joinable, incarnation[u].key)
    /\ UNCHANGED <<app, threads_, running_thread_count_, thread_uid_, thread_exception_, seen>>

Exit(u) ==
    /\ Alive
    /\ incarnation[u].phase = "exiting"
    /\ Move(u, "gone")
    /\ UNCHANGED <<app, threads_, running_thread_count_, thread_uid_, thread_exception_,
                   joinable, seen>>

-----------------------------------------------------------------------------
ThreadStep(u) == Start(u) \/ run_once(u) \/ Fail(u) \/ PublishJoinable(u) \/ Exit(u)

MainStep ==
    \/ \E k \in Keys : _launch_thread(k) \/ join_thread(k)
    \/ join_all_threads
    \/ _join_thread
    \/ Joined
    \/ AllJoined
    \/ Unwound

Next == MainStep \/ \E u \in Uids : ThreadStep(u)

Spec == Init /\ [][Next]_vars

\* The operating system runs every thread, no callback blocks, and the main
\* thread keeps polling; nobody has to launch, to quit or to fail.
FairSpec ==
    /\ Spec
    /\ WF_vars(_join_thread) /\ WF_vars(Joined) /\ WF_vars(AllJoined) /\ WF_vars(Unwound)
    /\ \A u \in Uids : /\ WF_vars(Start(u)) /\ WF_vars(run_once(u))
                       /\ WF_vars(PublishJoinable(u)) /\ WF_vars(Exit(u))

-----------------------------------------------------------------------------
(* Properties. *)

TypeOK ==
    /\ app \in [at : {"running", "join", "joining all", "join all", "unwinding",
                      "exited", "terminated"},
                key : Keys \cup {None}]
    /\ threads_ \in [Keys -> [alive : BOOLEAN, thread : Uids \cup {None}]]
    /\ running_thread_count_ \in Nat
    /\ thread_uid_ \in 0..MaxLaunches
    /\ thread_exception_ \in BOOLEAN
    /\ joinable \in Seq(Keys)
    /\ incarnation \in [Uids -> [key : Keys \cup {None}, phase : Phases,
                                 mail : SUBSET (Keys \cup {All})]]
    /\ seen \in [requests : Nat, failures : Nat, missed : SUBSET Uids]

\* The main thread only blocks in join() on a thread that is past its run():
\* no joinable message outlives the thread it announces, so none makes
\* _join_thread() wait for a later thread of the same key that still runs.
JoinsOnlyTheLeaving ==
    app.at \in {"join", "join all"} =>
        /\ threads_[app.key].thread # None
        /\ incarnation[threads_[app.key].thread].phase \in {"exiting", "gone"}

\* A thread that nobody will join is never left: every thread that is not gone
\* is the one its ThreadManagement knows, unless the process has ended, and
\* join_all_threads() waits for as many threads as there are to join.
NoneOrphaned ==
    app.at # "terminated" =>
        /\ \A u \in Uids : incarnation[u].phase \notin {"unborn", "gone"} =>
              threads_[incarnation[u].key].thread = u
        /\ app.at \in {"running", "joining all", "exited"} =>
              running_thread_count_ = Cardinality({k \in Keys : threads_[k].thread # None})

\* A thread that was subscribed when it was asked to leave does leave and is
\* joined, so quit() ends the application; threads that subscribed after
\* that request, and the remaining threads of an application that a rethrown
\* exception unwinds, are excepted.
QuitCompletes ==
    app.at = "joining all" ~> \/ app.at \in {"exited", "terminated", "unwinding"}
                              \/ seen.missed # {}
=============================================================================
