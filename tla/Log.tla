---------------------------------- MODULE Log ----------------------------------
(***************************************************************************)
(* src/debug.c over src/log.c: the debug logs of a program, the one that   *)
(* the LOG_ macros print to, and the stream of each.  Any thread may call  *)
(* any operation; nothing is locked.  ck_dbg_print takes three steps, with *)
(* the stream of the default log set in the first, used in the second and  *)
(* reset in the third; the other operations are short and are one step.    *)
(***************************************************************************)
EXTENDS Integers, FiniteSets

CONSTANTS
  Threads,
  Dbgs,    \* the logs that the client has declared
  Files,   \* the streams that fopen can return
  Levels,  \* the levels, of 0..4, that the client prints and filters at
  NULL

LOG_LVL_DBG == 1
LOG_LVL_INF == 2
LOG_LVL_ERR == 4

VARIABLES
  log,      \* fp, level and flags of each struct ck_dbg
  dbg_log,  \* the log of the LOG_ macros
  open,     \* the streams that are open
  up,       \* FALSE once a null or closed stream, or a null log, was used
  pc, arg,  \* the step of each thread's ck_dbg_print, its log and level
  output    \* what was printed, where

vars == <<log, dbg_log, open, up, pc, arg, output>>

Logs == Dbgs \cup {"default_dbg"}
Streams == Files \cup {"stdout", "stderr"}

TypeOK ==
  /\ log \in [Logs -> [fp : Streams \cup {NULL}, level : 0..4, flags : SUBSET {"SYNC"}]]
  /\ dbg_log \in Logs \cup {NULL}
  /\ open \subseteq Streams
  /\ up \in BOOLEAN
  /\ pc \in [Threads -> {"idle", "enter", "write", "reset"}]
  /\ output \subseteq [dbg : Logs, level : 0..4, fp : Streams]

ck_log_init(fp) == [fp |-> fp, level |-> LOG_LVL_DBG, flags |-> {}]

Init ==
  /\ log = [d \in Logs |-> ck_log_init(NULL)]
  /\ dbg_log = "default_dbg"
  /\ open = {"stdout", "stderr"}
  /\ up = TRUE
  /\ pc = [t \in Threads |-> "idle"]
  /\ arg = [t \in Threads |-> [dbg |-> "default_dbg", level |-> LOG_LVL_DBG]]
  /\ output = {}

-------------------------------------------------------------------------------
Idle(t) == up /\ pc[t] = "idle"

\* True of a log that was closed, too.
ck_dbg_is_open(d) == log[d].fp # NULL \/ d = "default_dbg"

\* The client: it does not set up a log again while the log's file is open.
Unused(d) == log[d].fp \notin Files \cap open

ck_dbg_set_default_log(t) ==
  /\ Idle(t)
  /\ dbg_log' \in {d \in Logs : ck_dbg_is_open(d)}
  /\ UNCHANGED <<log, open, up, pc, arg, output>>

ck_dbg_init(t, d) ==
  /\ Idle(t) /\ Unused(d)
  /\ \E fp \in {"stdout", "stderr"} : log' = [log EXCEPT ![d] = ck_log_init(fp)]
  /\ UNCHANGED <<dbg_log, open, up, pc, arg, output>>

\* fopen returns a stream, or NULL.
ck_log_open(d, fp) ==
  /\ open' = open \cup ({fp} \ {NULL})
  /\ log' = [log EXCEPT ![d] = ck_log_init(fp)]

\* A log that could be opened starts with a line of its own.
ck_dbg_open(t, d) ==
  /\ Idle(t) /\ Unused(d)
  /\ \E fp \in (Files \ open) \cup {NULL} :
       /\ ck_log_open(d, fp)
       /\ \/ fp = NULL /\ UNCHANGED <<pc, arg>>
          \/ /\ fp # NULL
             /\ pc' = [pc EXCEPT ![t] = "enter"]
             /\ arg' = [arg EXCEPT ![t] = [dbg |-> d, level |-> LOG_LVL_INF]]
  /\ UNCHANGED <<dbg_log, up, output>>

\* fclose; the log keeps the pointer.
ck_log_close(d) ==
  /\ up' = (log[d].fp \in open)
  /\ open' = open \ {log[d].fp}

\* With an argument, the default log is spared; without one, the test in the
\* code compares the null argument, and the log of the macros is closed.
ck_dbg_close(t, d) ==
  /\ Idle(t)
  /\ d \in Dbgs => ck_dbg_is_open(d)
  /\ \/ /\ d # NULL
        /\ IF d # "default_dbg" THEN ck_log_close(d) ELSE UNCHANGED <<up, open>>
        /\ dbg_log' = IF d = dbg_log THEN NULL ELSE dbg_log
     \/ /\ d = NULL /\ dbg_log # NULL
        /\ ck_log_close(dbg_log)
        /\ dbg_log' = NULL
  /\ UNCHANGED <<log, pc, arg, output>>

ck_dbg_set_level(t, d) ==
  /\ Idle(t)
  /\ \E level \in Levels : log' = [log EXCEPT ![d].level = level]
  /\ UNCHANGED <<dbg_log, open, up, pc, arg, output>>

ck_dbg_set_sync_mode(t, d) ==
  /\ Idle(t)
  /\ log' = [log EXCEPT ![d].flags = @ \cup {"SYNC"}]
  /\ UNCHANGED <<dbg_log, open, up, pc, arg, output>>

\* A LOG_ macro, which prints to dbg_log, or a print to a log that is open.
Call(t) ==
  /\ Idle(t)
  /\ \E d \in {dbg_log} \cup {e \in Dbgs : ck_dbg_is_open(e)}, level \in Levels :
       \/ /\ d # NULL
          /\ arg' = [arg EXCEPT ![t] = [dbg |-> d, level |-> level]]
          /\ pc' = [pc EXCEPT ![t] = "enter"]
          /\ UNCHANGED up
       \/ d = NULL /\ up' = FALSE /\ UNCHANGED <<pc, arg>>
  /\ UNCHANGED <<log, dbg_log, open, output>>

\* ck_dbg_print up to ck_log_vprint.
PrintEnter(t) ==
  LET d == arg[t].dbg
      filtered == arg[t].level < log[d].level
      fp == IF arg[t].level = LOG_LVL_ERR THEN "stderr" ELSE "stdout"
  IN  /\ up /\ pc[t] = "enter"
      /\ pc' = [pc EXCEPT ![t] = IF filtered THEN "idle" ELSE "write"]
      /\ log' = IF d = "default_dbg" /\ ~filtered THEN [log EXCEPT ![d].fp = fp] ELSE log
      /\ UNCHANGED <<dbg_log, open, up, arg, output>>

\* vfprintf; unlike ck_log_print this does not look at the flag SYNC.
ck_log_vprint(t) ==
  LET d == arg[t].dbg
      fp == log[d].fp
  IN  /\ up /\ pc[t] = "write"
      /\ \/ /\ fp \in open
            /\ output' = output \cup {[dbg |-> d, level |-> arg[t].level, fp |-> fp]}
            /\ pc' = [pc EXCEPT ![t] = "reset"]
            /\ UNCHANGED up
         \/ fp \notin open /\ up' = FALSE /\ UNCHANGED <<output, pc>>
      /\ UNCHANGED <<log, dbg_log, open, arg>>

PrintReset(t) ==
  /\ up /\ pc[t] = "reset"
  /\ log' = IF arg[t].dbg = "default_dbg" THEN [log EXCEPT !["default_dbg"].fp = NULL] ELSE log
  /\ pc' = [pc EXCEPT ![t] = "idle"]
  /\ UNCHANGED <<dbg_log, open, up, arg, output>>

Next ==
  \E t \in Threads :
    \/ ck_dbg_set_default_log(t)
    \/ \E d \in Dbgs : ck_dbg_init(t, d) \/ ck_dbg_open(t, d)
    \/ \E d \in Logs \cup {NULL} : ck_dbg_close(t, d)
    \/ \E d \in Logs : ck_dbg_set_level(t, d) \/ ck_dbg_set_sync_mode(t, d)
    \/ Call(t) \/ PrintEnter(t) \/ ck_log_vprint(t) \/ PrintReset(t)

Spec == Init /\ [][Next]_vars

-------------------------------------------------------------------------------
\* What is printed at LOG_LVL_ERR to the default log goes to stderr and the rest
\* of what is printed there to stdout, as the comment in ck_dbg_print says.
ErrorsToStderr ==
  \A m \in output : m.dbg = "default_dbg" =>
    (m.level = LOG_LVL_ERR <=> m.fp = "stderr")
===============================================================================
