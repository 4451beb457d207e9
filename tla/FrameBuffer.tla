----------------------------- MODULE FrameBuffer -----------------------------
(***************************************************************************)
(* The part of mjpg_streamer's "globals" that one input plugin shares with *)
(* all output threads: in[i].db (mutex), in[i].db_update (condition        *)
(* variable), the picture in[i].buf with its size and timestamp, and the   *)
(* flag "stop".  Pictures are known by the number of the grab they came    *)
(* from; 0 is "none yet".                                                  *)
(***************************************************************************)
EXTENDS Integers, Sequences

CONSTANTS NoOne,   \* nobody holds the mutex
          Cam      \* the camera thread

VARIABLES alive,     \* the process runs
          stop,      \* globals.stop
          db,        \* holder of in[i].db
          waiting,   \* threads blocked in pthread_cond_wait on db_update
          pic,       \* in[i].buf, .size and .timestamp
          bufAlive   \* in[i].buf has not been freed

frameVars == <<db, waiting, pic, bufAlive>>

Picture == [pixels : Int, size : Int, stamp : Int]
NoPicture == [pixels |-> 0, size |-> 0, stamp |-> 0]

\* main: mutex and condition variable are initialised, size is 0, and
\* input_run has allocated buf before any output thread runs.
FrameInit ==
  /\ alive = TRUE /\ stop = FALSE
  /\ db = NoOne /\ waiting = {}
  /\ pic = NoPicture /\ bufAlive = TRUE

\* pthread_mutex_lock and pthread_mutex_unlock of a normal mutex, which does
\* not check who unlocks it.
Lock(t) == db = NoOne /\ db' = t
Unlock  == db' = NoOne

\* exit() anywhere, or a fault, ends all threads.
Exit == alive' = FALSE
=============================================================================
