----------------------------- MODULE Lifecycle -----------------------------
(***************************************************************************)
(* Nbbqdrv with a second client.  nbbqdrv_open refuses a device in use by  *)
(* looking at MOD_IN_USE, which on a 2.6 kernel is module_refcount; the    *)
(* macros that should move it are empty there, and nbbqdrv_fops names no   *)
(* owner for which the kernel would count.  The two clients take turns on  *)
(* the one set of variables of the driver: a call runs to its end before   *)
(* the other client calls.                                                 *)
(***************************************************************************)
EXTENDS Nbbqdrv

CONSTANT MaxUsers                   \* bound: descriptors open at a time

VARIABLES
  users,          \* open descriptors
  refcount        \* module_refcount(THIS_MODULE)

lifeVars == <<vars, users, refcount>>

\* the empty macros
MOD_INC_USE_COUNT == refcount' = refcount
MOD_DEC_USE_COUNT == refcount' = refcount

MOD_IN_USE == refcount > 0

OpenFirst ==
  /\ users = 0 /\ ~MOD_IN_USE
  /\ UOpen
  /\ MOD_INC_USE_COUNT /\ users' = 1

\* an open while the device is open: the same code
OpenAgain ==
  /\ users \in 1..(MaxUsers - 1) /\ ~MOD_IN_USE
  /\ ClientMayRun /\ pcU = "idle"
  /\ chkblk' = 0 /\ chkbuff' = 0 /\ stopflag' = 0 /\ drn' = 0
  /\ dn' = 0 /\ buf' = [h \in 0..1 |-> <<>>]
  /\ fifo' = <<>>
  /\ pcU' = "start"
  /\ MOD_INC_USE_COUNT /\ users' = users + 1
  /\ UNCHANGED <<startflag, mp, eventid, mpflag, hw, pcH, regH, regU, ready,
                 flag, woken, win>>

\* the last descriptor is closed
ReleaseLast ==
  /\ users = 1 /\ URelease
  /\ MOD_DEC_USE_COUNT /\ users' = 0

\* one of two: chkbuff = 0 and the interrupt is masked for the other client
ReleaseOne ==
  /\ users > 1
  /\ ClientMayRun /\ pcU = "idle"
  /\ chkbuff' = 0 /\ fifo' = <<>> /\ inten' = 0
  /\ MOD_DEC_USE_COUNT /\ users' = users - 1
  /\ UNCHANGED <<flags, chkblk, drn, block, busy, acq, evq, evid, pcH, regH,
                 client, woken, win>>

Others == \/ \E s \in EventSizes : Trigger(s)
          \/ HEntry \/ HInside \/ UInside
          \/ UPoll \/ UTimeout \/ URead \/ UStop

LifeInit == Init /\ users = 0 /\ refcount = 0

LifeNext == \/ OpenFirst \/ OpenAgain \/ ReleaseLast \/ ReleaseOne
            \/ Others /\ UNCHANGED <<users, refcount>>

LifeSpec == LifeInit /\ [][LifeNext]_lifeVars

----------------------------------------------------------------------------
\* nbbqdrv_open: if(MOD_IN_USE) return -EBUSY.  An open that finds the device
\* in use leaves the finished blocks of the run alone.
BusyRefused ==
  [][users > 0 /\ users' > users => UNCHANGED fifo]_lifeVars
===========================================================================
