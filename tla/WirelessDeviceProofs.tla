------------------------ MODULE WirelessDeviceProofs ------------------------
(***************************************************************************)
(* Proofs about WirelessDevice for any number of radios, configurations,   *)
(* network states, retries and events: first TypeOK, NoWedge and           *)
(* DoneMeansSettled, then what the flags of a device object promise.       *)
(*                                                                         *)
(* The methods of a device end in run_handler or Return, so the argument   *)
(* is made once for these two and carried up the call graph: Before(d, w,  *)
(* c) is what a method may assume of the object w it was given, After(d)   *)
(* what it leaves behind.                                                  *)
(***************************************************************************)
EXTENDS WirelessDevice, TLAPS

Ops == {"none", "setup", "teardown"}

\* The agreement of one device object w with its queue entry h and the run c.
DevOK(d, w, h, c) ==
  /\ w.state = "setup" =>
       h = "setup" \/ (h = "none" /\ c.dev = d /\ c.op = "setup")
  /\ w.state = "teardown" =>
       h = "teardown" \/ (h = "none" /\ c.dev = d /\ c.op = "teardown")
  /\ w.state = "up" => h = "none" /\ (c.dev = d => c.op = "setup" /\ c.up)
  /\ w.state = "down" => h = "none" /\ c.dev # d
  /\ c.dev = d => c.op \in {"setup", "teardown"}
  /\ c.dev = d /\ c.op = "teardown" => w.state = "teardown" /\ h = "none"
  /\ c.dev = d /\ c.op = "setup" /\ ~c.up => h # "setup"

\* Completion is announced only with nothing running and nothing queued.
AnnouncedOK(ann, q, c) ==
  ann => c.dev = None /\ \A e \in Devices : q[e] = "none"

SchedInv ==
  /\ \A e \in Devices : DevOK(e, wdev[e], wdev_handler[e], wdev_cur)
  /\ AnnouncedOK(announced, wdev_handler, wdev_cur)

AbsentInv == \A e \in Devices : e \notin devices => wdev[e].state = "down"

IInv == TypeOK /\ SchedInv /\ AbsentInv

SchedType ==
  /\ wdev \in [Devices -> WDev]
  /\ wdev_cur \in Runs
  /\ wdev_handler \in [Devices -> Ops]
  /\ ahead \subseteq Devices \X Devices
  /\ fresh \subseteq Devices
  /\ announced \in BOOLEAN

\* All devices but d agree with the queue and the run c.
OthersOK(d, c) ==
  /\ \A e \in Devices \ {d} : DevOK(e, wdev[e], wdev_handler[e], c)
  /\ AnnouncedOK(announced, wdev_handler, c)

Before(d, w, c) ==
  /\ SchedType
  /\ w \in WDev
  /\ c \in Runs
  /\ OthersOK(d, c)
  /\ DevOK(d, w, wdev_handler[d], c)

After(d) ==
  /\ SchedType'
  /\ SchedInv'
  /\ \A e \in Devices \ {d} : wdev'[e] = wdev[e]

-----------------------------------------------------------------------------
\* The empty run and the empty object have their types.
LEMMA NoRunType == NoRun \in Runs /\ NoWdev \in WDev /\ NoRun.dev = None
BY ConstantsAssumption DEF NoRun, NoWdev, Runs, WDev, Configs

\* Starting the oldest handler keeps every device in agreement.
LEMMA RunNextOK ==
  ASSUME NEW objs \in [Devices -> WDev], NEW q \in [Devices -> Ops],
         NEW a \in SUBSET (Devices \X Devices), NEW f \in SUBSET Devices,
         NEW c \in Runs, c.dev = None,
         \A e \in Devices : DevOK(e, objs[e], q[e], c),
         RunNext(objs, q, a, f)
  PROVE  /\ wdev_cur' \in Runs
         /\ wdev_handler' \in [Devices -> Ops]
         /\ ahead' \subseteq Devices \X Devices
         /\ fresh' \subseteq Devices
         /\ announced' = FALSE
         /\ \A e \in Devices : DevOK(e, objs[e], wdev_handler'[e], wdev_cur')
<1>1. PICK d \in Oldest(q, a) :
        /\ wdev_cur' = [dev |-> d, op |-> q[d], up |-> FALSE,
                        cfg |-> objs[d].handler_config]
        /\ wdev_handler' = [q EXCEPT ![d] = "none"]
        /\ ahead' = Without(a, d)
        /\ fresh' = f \ {d}
        /\ announced' = FALSE
  BY DEF RunNext
<1>2. d \in Devices /\ q[d] \in {"setup", "teardown"}
  BY <1>1 DEF Oldest, Pending, Ops
<1>3. wdev_cur' \in Runs
  BY <1>1, <1>2 DEF Runs, WDev
<1>4. /\ wdev_handler' \in [Devices -> Ops]
      /\ ahead' \subseteq Devices \X Devices
      /\ fresh' \subseteq Devices
  BY <1>1, <1>2 DEF Without, Ops
<1>5. ASSUME NEW e \in Devices
      PROVE  DevOK(e, objs[e], wdev_handler'[e], wdev_cur')
  <2>0. objs[e].state \in {"down", "setup", "up", "teardown"}
    BY DEF WDev
  <2>1. CASE e = d
    BY <1>1, <1>2, <2>0, <2>1, ConstantsAssumption DEF DevOK
  <2>2. CASE e # d
    BY <1>1, <1>2, <2>0, <2>2, ConstantsAssumption DEF DevOK
  <2> QED BY <2>1, <2>2
<1> QED BY <1>1, <1>3, <1>4, <1>5

\* Queueing a run for a device whose state was just set to the operation.
LEMMA RunHandlerOK ==
  ASSUME NEW d \in Devices, NEW w \in WDev, NEW c \in Runs,
         NEW op \in {"setup", "teardown"},
         SchedType, OthersOK(d, c),
         w.state = op,
         c.dev = d => c.op = "setup" /\ (op = "setup" => c.up),
         run_handler(d, w, c, op)
  PROVE  After(d)
<1> DEFINE objs == [wdev EXCEPT ![d] = w]
           q == [wdev_handler EXCEPT ![d] = op]
           a == Without(ahead, d) \cup
                  {<<e, d>> : e \in Pending(wdev_handler) \ (fresh \cup {d})}
<1>1. /\ objs \in [Devices -> WDev]
      /\ q \in [Devices -> Ops]
      /\ a \subseteq Devices \X Devices
      /\ fresh \cup {d} \subseteq Devices
  BY DEF SchedType, Ops, Without, Pending
<1>2. \A e \in Devices : DevOK(e, objs[e], q[e], c)
  <2> SUFFICES ASSUME NEW e \in Devices PROVE DevOK(e, objs[e], q[e], c)
    OBVIOUS
  <2>1. CASE e = d
    BY <2>1 DEF DevOK, SchedType, Ops
  <2>2. CASE e # d
    BY <2>2 DEF OthersOK, SchedType
  <2> QED BY <2>1, <2>2
<1>3. wdev' = objs
  BY DEF run_handler
<1>4. \A e \in Devices \ {d} : wdev'[e] = wdev[e]
  BY <1>3 DEF SchedType
<1>5. CASE c.dev = None
  <2>1. RunNext(objs, q, a, fresh \cup {d})
    BY <1>5 DEF run_handler
  <2> HIDE DEF objs, q, a
  <2>2. /\ wdev_cur' \in Runs
        /\ wdev_handler' \in [Devices -> Ops]
        /\ ahead' \subseteq Devices \X Devices
        /\ fresh' \subseteq Devices
        /\ announced' = FALSE
        /\ \A e \in Devices : DevOK(e, objs[e], wdev_handler'[e], wdev_cur')
    BY <2>1, <1>1, <1>2, <1>5, RunNextOK
  <2> QED
    BY <2>2, <1>1, <1>3, <1>4 DEF After, SchedType, SchedInv, AnnouncedOK
<1>6. CASE c.dev # None
  <2>1. /\ wdev_cur' = c
        /\ wdev_handler' = q
        /\ ahead' = a
        /\ fresh' = fresh \cup {d}
        /\ announced' = announced
    BY <1>6 DEF run_handler
  <2>2. announced = FALSE
    BY <1>6 DEF OthersOK, AnnouncedOK, SchedType
  <2> HIDE DEF objs, q, a
  <2> QED
    BY <2>1, <2>2, <1>1, <1>2, <1>3, <1>4
    DEF After, SchedType, SchedInv, AnnouncedOK
<1> QED BY <1>5, <1>6

\* Returning with an object that agrees with its queue entry and its run.
LEMMA ReturnOK ==
  ASSUME NEW d \in Devices, NEW w, NEW c, Before(d, w, c), Return(d, w, c)
  PROVE  After(d)
<1>1. /\ wdev' = [wdev EXCEPT ![d] = w]
      /\ wdev_cur' = c
      /\ UNCHANGED <<wdev_handler, ahead, fresh, announced>>
  BY DEF Return
<1>2. wdev'[d] = w /\ \A e \in Devices \ {d} : wdev'[e] = wdev[e]
  BY <1>1 DEF Before, SchedType
<1>3. SchedType'
  BY <1>1 DEF Before, SchedType
<1>4. SchedInv'
  BY <1>1, <1>2 DEF Before, OthersOK, SchedInv, AnnouncedOK
<1> QED BY <1>2, <1>3, <1>4 DEF After

-----------------------------------------------------------------------------
\* The helpers that only assign to an object keep its type and its state.
LEMMA HelpersOK ==
  ASSUME NEW d \in Devices, NEW w \in WDev, net \in [Devices -> Nets]
  PROVE  /\ wdev_config_init(w) \in WDev
         /\ wdev_config_init(w).state = w.state
         /\ wdev_update_disabled_vifs(d, w) \in WDev
         /\ wdev_update_disabled_vifs(d, w).state = w.state
         /\ wdev_reset(w) \in WDev
         /\ wdev_reset(w).state = w.state
<1>1. /\ wdev_config_init(w) \in WDev
      /\ wdev_config_init(w).state = w.state
  BY DEF wdev_config_init, WDev, Configs
<1>2. /\ wdev_update_disabled_vifs(d, w) \in WDev
      /\ wdev_update_disabled_vifs(d, w).state = w.state
  <2> DEFINE b == w.config_change \/ net[d] # w.seen
  <2>1. b \in BOOLEAN /\ net[d] \in Nets
    OBVIOUS
  <2>2. wdev_update_disabled_vifs(d, w) =
          [w EXCEPT !.config_change = b, !.seen = net[d]]
    BY DEF wdev_update_disabled_vifs
  <2> HIDE DEF b
  <2> QED BY <2>1, <2>2 DEF WDev
<1>3. /\ wdev_reset(w) \in WDev
      /\ wdev_reset(w).state = w.state
  <2>1. DEFAULT_RETRY \in 0..DEFAULT_RETRY
    BY ConstantsAssumption
  <2> QED BY <2>1 DEF wdev_reset, WDev
<1> QED BY <1>1, <1>2, <1>3

\* Only the state of an object matters for its agreement with the queue.
LEMMA SameStateOK ==
  ASSUME NEW d \in Devices, NEW v, NEW w, NEW c,
         Before(d, v, c), w \in WDev, w.state = v.state
  PROVE  Before(d, w, c)
BY DEF Before, DevOK

\* setup() refuses to act or queues a setup of a settled device.
LEMMA SetupOK ==
  ASSUME NEW d \in Devices, NEW w, NEW c, Before(d, w, c), setup(d, w, c)
  PROVE  After(d)
<1>1. CASE w.state \in {"up", "down"} /\ w.autostart /\ ~w.retry_setup_failed
  <2> DEFINE u == [w EXCEPT !.procs = FALSE, !.config_change = FALSE,
                            !.state = "setup"]
  <2>1. u \in WDev /\ u.state = "setup"
    BY DEF Before, WDev
  <2>2. run_handler(d, u, c, "setup")
    BY <1>1 DEF setup
  <2>3. c.dev = d => c.op = "setup" /\ c.up
    BY <1>1 DEF Before, DevOK
  <2> HIDE DEF u
  <2> QED BY <2>1, <2>2, <2>3, RunHandlerOK DEF Before
<1>2. CASE ~(w.state \in {"up", "down"} /\ w.autostart /\ ~w.retry_setup_failed)
  BY <1>2, ReturnOK DEF setup
<1> QED BY <1>1, <1>2

\* teardown of a device that is being set up or up, whether or not the run
\* that brought it there has just completed.
LEMMA TeardownRunOK ==
  ASSUME NEW d \in Devices, NEW w \in WDev, NEW c \in Runs,
         SchedType, OthersOK(d, c), w.state \in {"setup", "up"},
         c.dev = d => c.op = "setup",
         teardown(d, w, c)
  PROVE  After(d)
<1> DEFINE u == [w EXCEPT !.cancel_setup = FALSE, !.procs = FALSE,
                          !.state = "teardown"]
<1>1. u \in WDev /\ u.state = "teardown"
  BY DEF WDev
<1>2. run_handler(d, u, c, "teardown")
  BY DEF teardown
<1> HIDE DEF u
<1> QED BY <1>1, <1>2, RunHandlerOK

\* teardown() refuses to act or queues a teardown of an active device.
LEMMA TeardownOK ==
  ASSUME NEW d \in Devices, NEW w, NEW c, Before(d, w, c), teardown(d, w, c)
  PROVE  After(d)
<1>1. CASE w.state \in {"teardown", "down"}
  <2> DEFINE u == [w EXCEPT !.cancel_setup = FALSE]
  <2>1. u \in WDev /\ u.state = w.state
    BY DEF Before, WDev
  <2>2. Return(d, u, c)
    BY <1>1 DEF teardown
  <2> HIDE DEF u
  <2>3. Before(d, u, c)
    BY <2>1, SameStateOK
  <2> QED BY <2>2, <2>3, ReturnOK
<1>2. CASE w.state \notin {"teardown", "down"}
  <2>1. w.state \in {"setup", "up"}
    BY <1>2 DEF Before, WDev
  <2>2. c.dev = d => c.op = "setup"
    BY <2>1 DEF Before, DevOK
  <2> QED BY <2>1, <2>2, TeardownRunOK DEF Before
<1> QED BY <1>1, <1>2

\* check() defers, or hands a settled device to setup().
LEMMA CheckOK ==
  ASSUME NEW d \in Devices, NEW w, NEW c, net \in [Devices -> Nets],
         Before(d, w, c), check(d, w, c)
  PROVE  After(d)
<1> DEFINE u == wdev_update_disabled_vifs(d, w)
<1>1. u \in WDev /\ u.state = w.state
  BY HelpersOK DEF Before
<1>2. wdev_config_init(u) \in WDev /\ wdev_config_init(u).state = w.state
  BY <1>1, HelpersOK
<1>3. setup(d, wdev_config_init(u), c) \/ Return(d, u, c)
  BY DEF check
<1> HIDE DEF u
<1> QED BY <1>1, <1>2, <1>3, SameStateOK, SetupOK, ReturnOK

\* update() with other data ends in check().
LEMMA UpdateOK ==
  ASSUME NEW d \in Devices, NEW w, NEW c, NEW data \in Datas \cup {None},
         net \in [Devices -> Nets], Before(d, w, c), update(d, w, data, c)
  PROVE  After(d)
<1> DEFINE u == IF data = None THEN w
                ELSE [w EXCEPT !.data = data, !.delete = FALSE]
           v == [wdev_reset(u) EXCEPT !.config_change = TRUE]
<1>1. u \in WDev /\ u.state = w.state
  BY DEF Before, WDev
<1>2. wdev_reset(u) \in WDev /\ wdev_reset(u).state = w.state
  <2> HIDE DEF u
  <2> QED BY <1>1, HelpersOK
<1>3. v \in WDev /\ v.state = w.state
  <2> HIDE DEF u
  <2> QED BY <1>2 DEF WDev
<1>4. Return(d, w, c) \/ check(d, v, c)
  BY DEF update
<1> HIDE DEF u, v
<1> QED BY <1>3, <1>4, SameStateOK, ReturnOK, CheckOK

\* start() sets flags and, for a device that is down, ends in setup().
LEMMA StartOK ==
  ASSUME NEW d \in Devices, NEW w, NEW c, net \in [Devices -> Nets],
         Before(d, w, c), start(d, w, c)
  PROVE  After(d)
<1> DEFINE r == [w EXCEPT !.autostart = TRUE]
           s == wdev_reset(r)
           u == wdev_update_disabled_vifs(d, s)
           v == IF u.config_change THEN wdev_config_init(u) ELSE u
<1>1. r \in WDev /\ r.state = w.state
  BY DEF Before, WDev
<1>2. s \in WDev /\ s.state = w.state
  BY <1>1, HelpersOK
<1>3. u \in WDev /\ u.state = w.state
  <2> HIDE DEF s
  <2> QED BY <1>2, HelpersOK
<1>4. v \in WDev /\ v.state = w.state
  <2> HIDE DEF u
  <2> QED BY <1>3, HelpersOK
<1>5. Return(d, w, c) \/ Return(d, s, c) \/ setup(d, v, c)
  <2> HIDE DEF wdev_reset, wdev_update_disabled_vifs
  <2>1. w.delete \in BOOLEAN
    BY DEF Before, WDev
  <2> QED BY <2>1 DEF start
<1> HIDE DEF r, s, u, v
<1> QED BY <1>2, <1>4, <1>5, SameStateOK, ReturnOK, SetupOK

\* stop() leaves a flag during a setup and tears down a device that is up.
LEMMA StopOK ==
  ASSUME NEW d \in Devices, NEW w, NEW c, Before(d, w, c), stop(d, w, c)
  PROVE  After(d)
<1> DEFINE s == [w EXCEPT !.autostart = FALSE]
           t == [s EXCEPT !.cancel_setup = TRUE]
<1>1. s \in WDev /\ s.state = w.state /\ t \in WDev /\ t.state = w.state
  BY DEF Before, WDev
<1>2. w.state \in {"down", "setup", "up", "teardown"}
  BY DEF Before, WDev
<1>3. Return(d, t, c) \/ teardown(d, s, c) \/ Return(d, s, c)
  BY <1>2 DEF stop
<1> HIDE DEF s, t
<1> QED BY <1>1, <1>3, SameStateOK, ReturnOK, TeardownOK

\* retry_setup() is start() or nothing.
LEMMA RetryOK ==
  ASSUME NEW d \in Devices, NEW w, NEW c, net \in [Devices -> Nets],
         Before(d, w, c), retry_setup(d, w, c)
  PROVE  After(d)
BY ReturnOK, StartOK DEF retry_setup

\* A device is deleted only when neither a run nor the queue knows it.
LEMMA DeleteOK ==
  ASSUME NEW d \in Devices, NEW c \in Runs, SchedType, OthersOK(d, c),
         wdev_handler[d] = "none", c.dev # d, delete_wdev(d, c)
  PROVE  /\ After(d)
         /\ devices' = devices \ {d}
         /\ wdev'[d].state = "down"
<1>1. NoWdev \in WDev /\ NoWdev.state = "down"
  BY NoRunType DEF NoWdev
<1>2. Before(d, NoWdev, c)
  BY <1>1 DEF Before, DevOK
<1>3. Return(d, NoWdev, c) /\ devices' = devices \ {d}
  BY DEF delete_wdev
<1>4. wdev'[d] = NoWdev
  BY <1>3 DEF Return, SchedType
<1> QED BY <1>1, <1>2, <1>3, <1>4, ReturnOK

\* destroy() marks an active device and deletes one that is down.
LEMMA DestroyOK ==
  ASSUME NEW d \in Devices, NEW w, NEW c, Before(d, w, c), destroy(d, w, c)
  PROVE  /\ After(d)
         /\ \/ devices' = devices
            \/ devices' = devices \ {d} /\ wdev'[d].state = "down"
<1>1. CASE w.state = "down"
  <2>1. delete_wdev(d, c)
    BY <1>1 DEF destroy
  <2>2. wdev_handler[d] = "none" /\ c.dev # d
    BY <1>1 DEF Before, DevOK
  <2> QED BY <2>1, <2>2, DeleteOK DEF Before
<1>2. CASE w.state # "down"
  <2> DEFINE u == [w EXCEPT !.autostart = FALSE, !.delete = TRUE]
  <2>1. u \in WDev /\ u.state = w.state
    BY DEF Before, WDev
  <2>2. stop(d, u, c) /\ devices' = devices
    BY <1>2 DEF destroy
  <2> HIDE DEF u
  <2> QED BY <2>1, <2>2, SameStateOK, StopOK
<1> QED BY <1>1, <1>2

\* A new object is created for a device that is down because it is absent.
LEMMA NewOK ==
  ASSUME NEW d \in Devices, NEW c, NEW data \in Datas,
         net \in [Devices -> Nets],
         Before(d, wdev[d], c), wdev[d].state = "down", new(d, data, c)
  PROVE  After(d) /\ devices' = devices \cup {d}
<1> DEFINE u == [NoWdev EXCEPT !.autostart = TRUE, !.data = data]
           v == wdev_update_disabled_vifs(d, u)
           x == wdev_config_init(v)
<1>1. u \in WDev /\ u.state = "down"
  BY NoRunType DEF NoWdev, WDev
<1>2. v \in WDev /\ v.state = "down"
  <2> HIDE DEF u
  <2> QED BY <1>1, HelpersOK
<1>3. x \in WDev /\ x.state = "down"
  <2> HIDE DEF v
  <2> QED BY <1>2, HelpersOK
<1>4. Return(d, x, c) /\ devices' = devices \cup {d}
  BY DEF new
<1> HIDE DEF u, v, x
<1> QED BY <1>3, <1>4, SameStateOK, ReturnOK

\* When d's script ends the other devices agree with the free slot.
LEMMA FreedOK ==
  ASSUME NEW d \in Devices, TypeOK, SchedInv, wdev_cur.dev = d
  PROVE  /\ SchedType /\ wdev[d] \in WDev
         /\ NoRun \in Runs /\ NoRun.dev # d
         /\ OthersOK(d, NoRun)
<1>1. /\ SchedType /\ wdev[d] \in WDev
      /\ NoRun \in Runs /\ NoRun.dev # d
  BY NoRunType, ConstantsAssumption DEF TypeOK, SchedType, Ops
<1>2. announced = FALSE
  BY ConstantsAssumption DEF SchedInv, AnnouncedOK, TypeOK
<1>3. ASSUME NEW e \in Devices \ {d}
      PROVE  DevOK(e, wdev[e], wdev_handler[e], NoRun)
  <2>1. DevOK(e, wdev[e], wdev_handler[e], wdev_cur) /\ wdev_cur.dev # e
    BY DEF SchedInv
  <2>2. NoRun.dev # e
    BY NoRunType, ConstantsAssumption
  <2> QED BY <2>1, <2>2 DEF DevOK
<1> QED BY <1>1, <1>2, <1>3 DEF OthersOK, AnnouncedOK

\* The setup script has ended: its slot is free, NoRun is the current run.
LEMMA SetupCbOK ==
  ASSUME NEW d \in Devices, TypeOK, SchedInv,
         wdev_cur.dev = d, wdev_cur.op = "setup",
         wdev_setup_cb(d, wdev[d], NoRun)
  PROVE  After(d)
<1> DEFINE w == wdev[d]
<1>1. SchedType /\ w \in WDev /\ NoRun \in Runs /\ NoRun.dev # d
  BY FreedOK
<1>2. OthersOK(d, NoRun)
  BY FreedOK
<1>3. DevOK(d, w, wdev_handler[d], wdev_cur)
  BY DEF SchedInv
<1>4. CASE w.state = "setup"
  <2> DEFINE u == IF w.retry > 0 THEN [w EXCEPT !.retry = @ - 1]
                  ELSE [w EXCEPT !.retry_setup_failed = TRUE]
  <2>1. u \in WDev /\ u.state = "setup"
    <3>1. w.retry \in 0..DEFAULT_RETRY
      BY <1>1 DEF WDev
    <3>2. w.retry > 0 => w.retry - 1 \in 0..DEFAULT_RETRY
      BY <3>1, ConstantsAssumption
    <3> HIDE DEF w
    <3> QED BY <1>1, <1>4, <3>1, <3>2 DEF WDev
  <2>2. teardown(d, u, NoRun)
    BY <1>4 DEF wdev_setup_cb
  <2> HIDE DEF u
  <2> QED BY <1>1, <1>2, <2>1, <2>2, TeardownRunOK
<1>5. CASE w.state # "setup"
  <2>1. Before(d, w, NoRun)
    BY <1>1, <1>2, <1>3, <1>5 DEF Before, DevOK
  <2>2. setup(d, wdev_config_init(w), NoRun) \/ Return(d, w, NoRun)
    <3>1. w.config_change \in BOOLEAN
      BY <1>1 DEF WDev
    <3> QED BY <1>5, <3>1 DEF wdev_setup_cb
  <2>3. wdev_config_init(w) \in WDev /\ wdev_config_init(w).state = w.state
    BY <1>1, HelpersOK DEF TypeOK
  <2> HIDE DEF w
  <2> QED BY <2>1, <2>2, <2>3, SameStateOK, SetupOK, ReturnOK
<1> QED BY <1>4, <1>5

\* After a teardown the device is down, deleted or set up again.
LEMMA TeardownCbOK ==
  ASSUME NEW d \in Devices, TypeOK, SchedInv,
         wdev_cur.dev = d, wdev_cur.op = "teardown",
         wdev_teardown_cb(d, wdev[d], NoRun)
  PROVE  /\ After(d)
         /\ \/ devices' = devices
            \/ devices' = devices \ {d} /\ wdev'[d].state = "down"
<1> DEFINE w == wdev[d]
           u == [w EXCEPT !.ifname = FALSE, !.state = "down"]
           v == IF w.config_change THEN wdev_config_init(u) ELSE u
<1>1. SchedType /\ w \in WDev /\ NoRun \in Runs /\ NoRun.dev # d
  BY FreedOK
<1>2. OthersOK(d, NoRun)
  BY FreedOK
<1>3. wdev_handler[d] = "none"
  BY DEF SchedInv, DevOK
<1>4. u \in WDev /\ u.state = "down"
  BY <1>1 DEF WDev
<1>5. v \in WDev /\ v.state = "down"
  <2> HIDE DEF u
  <2> QED BY <1>4, HelpersOK DEF TypeOK
<1>6. Before(d, v, NoRun)
  <2> HIDE DEF v
  <2> QED BY <1>1, <1>2, <1>3, <1>5 DEF Before, DevOK
<1>7. \/ delete_wdev(d, NoRun)
      \/ setup(d, v, NoRun) /\ devices' = devices
  BY DEF wdev_teardown_cb
<1> HIDE DEF u, v
<1> QED BY <1>1, <1>2, <1>3, <1>6, <1>7, DeleteOK, SetupOK

\* NOTIFY_CMD_UP: the run is marked, then the device goes up or down again.
LEMMA MarkUpOK ==
  ASSUME NEW d \in Devices, TypeOK, SchedInv, wdev_mark_up(d)
  PROVE  After(d) /\ link' \in [Devices -> BOOLEAN]
                  /\ applied' \in [Devices -> Configs]
<1> DEFINE w == wdev[d]
           c == [wdev_cur EXCEPT !.up = TRUE]
           u == [wdev_reset(w) EXCEPT !.state = "up"]
<1>1. SchedType /\ w \in WDev /\ c \in Runs /\ wdev_cur.cfg \in Configs
  BY DEF TypeOK, SchedType, Ops, Runs
<1>2. wdev_cur.dev = d /\ wdev_cur.op = "setup" /\ ~wdev_cur.up
  BY DEF wdev_mark_up, Notifies
<1>3. c.dev = d /\ c.op = "setup" /\ c.up
  BY <1>2 DEF TypeOK, Runs
<1>4. OthersOK(d, c)
  BY <1>2, <1>3, ConstantsAssumption
  DEF SchedInv, OthersOK, DevOK, AnnouncedOK, TypeOK
<1>5. DevOK(d, w, wdev_handler[d], wdev_cur)
  BY DEF SchedInv
<1>6. CASE w.state # "setup"
  <2>1. Return(d, w, c) /\ link' = link /\ applied' = applied
    BY <1>6 DEF wdev_mark_up
  <2>2. Before(d, w, c)
    BY <1>1, <1>2, <1>3, <1>4, <1>5, <1>6 DEF Before, DevOK
  <2> HIDE DEF w, c
  <2> QED BY <2>1, <2>2, ReturnOK DEF TypeOK
<1>7. CASE w.state = "setup" /\ (w.cancel_setup \/ ~w.autostart \/ w.delete)
  <2>1. teardown(d, w, c) /\ link' = link /\ applied' = applied
    BY <1>7 DEF wdev_mark_up
  <2> HIDE DEF w, c
  <2> QED BY <1>1, <1>3, <1>4, <1>7, <2>1, TeardownRunOK DEF TypeOK
<1>8. CASE w.state = "setup" /\ ~(w.cancel_setup \/ ~w.autostart \/ w.delete)
  <2>1. /\ Return(d, u, c)
        /\ handle_link(d, w, TRUE)
        /\ applied' = [applied EXCEPT ![d] = wdev_cur.cfg]
    BY <1>8 DEF wdev_mark_up
  <2>2. u \in WDev /\ u.state = "up"
    <3>1. wdev_reset(w) \in WDev
      BY <1>1, HelpersOK DEF TypeOK
    <3> QED BY <3>1 DEF WDev
  <2>3. wdev_handler[d] = "none"
    BY <1>2, <1>5, <1>8 DEF DevOK
  <2>4. link' \in [Devices -> BOOLEAN]
    BY <2>1 DEF TypeOK, handle_link
  <2>5. applied' \in [Devices -> Configs]
    BY <2>1, <1>1 DEF TypeOK
  <2> HIDE DEF c, u
  <2>6. Before(d, u, c)
    BY <1>1, <1>3, <1>4, <2>2, <2>3 DEF Before, DevOK
  <2> QED BY <2>1, <2>4, <2>5, <2>6, ReturnOK
<1> QED BY <1>6, <1>7, <1>8

-----------------------------------------------------------------------------
\* What the actions owe besides the methods they call.
EnvType ==
  /\ armed \in BOOLEAN
  /\ link \in [Devices -> BOOLEAN]
  /\ applied \in [Devices -> Configs]
  /\ net \in [Devices -> Nets]
  /\ loop \in {"idle", "init", "start", "check"}
  /\ todo \subseteq Devices
  /\ events \in 0..MaxEvents

\* TypeOK in the two halves that the steps treat differently.
LEMMA TypeSplit == TypeOK <=> devices \subseteq Devices /\ SchedType /\ EnvType
BY DEF TypeOK, SchedType, EnvType, Ops

\* The invariant gives a method what it may assume.
LEMMA BeforeMethod ==
  ASSUME NEW d \in Devices, IInv
  PROVE  Before(d, wdev[d], wdev_cur)
BY TypeSplit DEF IInv, SchedInv, Before, OthersOK, SchedType

\* A method call on an object of netifd.wireless.devices.
LEMMA PresentStep ==
  ASSUME NEW d \in Devices, IInv, After(d), EnvType',
         d \in devices, devices' = devices
  PROVE  IInv'
<1>1. TypeOK'
  BY DEF IInv, After, TypeOK, SchedType, EnvType, Ops
<1>2. AbsentInv'
  BY DEF IInv, After, AbsentInv
<1> QED BY <1>1, <1>2 DEF IInv, After

\* An object is removed from, or added to, netifd.wireless.devices.
LEMMA RemoveStep ==
  ASSUME NEW d \in Devices, IInv, After(d), EnvType',
         devices' = devices \ {d}, wdev'[d].state = "down"
  PROVE  IInv'
<1>1. TypeOK'
  BY DEF IInv, After, TypeOK, SchedType, EnvType, Ops
<1>2. AbsentInv'
  BY DEF IInv, After, AbsentInv
<1> QED BY <1>1, <1>2 DEF IInv, After

\* A step that adds a device keeps the invariant.
LEMMA AddStep ==
  ASSUME NEW d \in Devices, IInv, After(d), EnvType',
         devices' = devices \cup {d}
  PROVE  IInv'
<1>1. TypeOK'
  BY DEF IInv, After, TypeOK, SchedType, EnvType, Ops
<1>2. AbsentInv'
  BY DEF IInv, After, AbsentInv
<1> QED BY <1>1, <1>2 DEF IInv, After

\* The device objects and the queue are left alone.
LEMMA QuietStep ==
  ASSUME IInv, EnvType', UNCHANGED <<devices, wdev, sched>>
  PROVE  IInv'
<1>1. TypeOK'
  BY DEF IInv, TypeOK, EnvType, sched
<1>2. SchedInv' /\ AbsentInv'
  BY DEF IInv, SchedInv, AbsentInv, sched, AnnouncedOK
<1> QED BY <1>1, <1>2 DEF IInv

\* The loops over the devices keep their types.
LEMMA IterateType ==
  ASSUME NEW l \in {"init", "start", "check"},
         NEW s \in SUBSET Devices, NEW devs \in SUBSET Devices,
         Iterate(l, s, devs)
  PROVE  loop' \in {"idle", "init", "start", "check"} /\ todo' \subseteq Devices
BY DEF Iterate

\* Running and queued devices are in netifd.wireless.devices.
LEMMA ActiveIsPresent ==
  ASSUME NEW d \in Devices, IInv, wdev_cur.dev = d
  PROVE  d \in devices
BY DEF IInv, SchedInv, AbsentInv, DevOK

\* netifd starts without devices.
LEMMA InitOK == Init => IInv
<1> SUFFICES ASSUME Init PROVE IInv
  OBVIOUS
<1>1. TypeOK
  <2>1. 0 \in 0..MaxEvents /\ <<None, NoNet>> \in Configs
    BY ConstantsAssumption DEF Configs
  <2>2. /\ wdev \in [Devices -> WDev]
        /\ wdev_cur \in Runs
        /\ wdev_handler \in [Devices -> Ops]
        /\ link \in [Devices -> BOOLEAN]
        /\ applied \in [Devices -> Configs]
    BY <2>1, NoRunType DEF Init, Ops
  <2> QED BY <2>1, <2>2 DEF Init, TypeOK, Ops
<1>2. SchedInv /\ AbsentInv
  BY ConstantsAssumption
  DEF Init, SchedInv, AbsentInv, DevOK, AnnouncedOK, NoRun, NoWdev
<1> QED BY <1>1, <1>2 DEF IInv

\* One iteration of config_init adds, updates or removes a device.
LEMMA UpdateConfigStep ==
  ASSUME NEW d \in Devices, NEW data \in Datas \cup {None}, IInv,
         update_config(d, data)
  PROVE  IInv'
<1>0. TypeOK /\ net \in [Devices -> Nets] /\ devices \subseteq Devices
  BY DEF IInv, TypeOK
<1>1. Before(d, wdev[d], wdev_cur)
  BY BeforeMethod
<1>2. ASSUME devices' \subseteq Devices, armed' \in BOOLEAN PROVE EnvType'
  <2>1. Iterate("init", todo \ {d}, devices') /\ todo \ {d} \subseteq Devices
    BY <1>0 DEF update_config, TypeOK
  <2>2. loop' \in {"idle", "init", "start", "check"} /\ todo' \subseteq Devices
    BY <1>2, <2>1, IterateType
  <2> QED BY <1>0, <1>2, <2>2 DEF update_config, EnvType, TypeOK
<1>3. CASE d \in devices /\ data = None
  <2>1. destroy(d, wdev[d], wdev_cur) /\ armed' = armed
    BY <1>3 DEF update_config
  <2>2. /\ After(d)
        /\ \/ devices' = devices
           \/ devices' = devices \ {d} /\ wdev'[d].state = "down"
    BY <1>1, <2>1, DestroyOK
  <2>3. EnvType'
    BY <1>0, <1>2, <2>1, <2>2 DEF TypeOK
  <2> QED BY <1>3, <2>2, <2>3, PresentStep, RemoveStep
<1>4. CASE d \in devices /\ data # None
  <2>1. update(d, wdev[d], data, wdev_cur) /\ devices' = devices /\ armed' = armed
    BY <1>4 DEF update_config
  <2>2. After(d)
    BY <1>0, <1>1, <2>1, UpdateOK
  <2>3. EnvType'
    BY <1>0, <1>2, <2>1 DEF TypeOK
  <2> QED BY <1>4, <2>1, <2>2, <2>3, PresentStep
<1>5. CASE d \notin devices /\ data # None
  <2>1. new(d, data, wdev_cur) /\ armed' = TRUE
    BY <1>5 DEF update_config
  <2>2. wdev[d].state = "down" /\ data \in Datas
    BY <1>5 DEF IInv, AbsentInv
  <2>3. After(d) /\ devices' = devices \cup {d}
    BY <1>0, <1>1, <2>1, <2>2, NewOK
  <2>4. EnvType'
    BY <1>0, <1>2, <2>1, <2>3
  <2> QED BY <2>3, <2>4, AddStep
<1>6. CASE d \notin devices /\ data = None
  <2>1. UNCHANGED <<devices, wdev, sched, armed>>
    BY <1>6 DEF update_config
  <2>2. EnvType'
    BY <1>0, <1>2, <2>1 DEF TypeOK
  <2> QED BY <2>1, <2>2, QuietStep
<1> QED BY <1>3, <1>4, <1>5, <1>6

\* The iterations of config_start and check_interfaces.
LEMMA LoopMethodStep ==
  ASSUME NEW d \in Devices, IInv, config_start(d) \/ check_interfaces(d)
  PROVE  IInv'
<1>0. TypeOK /\ net \in [Devices -> Nets] /\ todo \ {d} \subseteq Devices
  BY DEF IInv, TypeOK
<1>1. Before(d, wdev[d], wdev_cur)
  BY BeforeMethod
<1>2. EnvType' /\ devices' = devices
  <2>1. \/ Iterate("start", todo \ {d}, devices)
        \/ Iterate("check", todo \ {d}, devices)
    BY DEF config_start, check_interfaces
  <2>2. loop' \in {"idle", "init", "start", "check"} /\ todo' \subseteq Devices
    BY <1>0, <2>1, IterateType DEF TypeOK
  <2> QED BY <1>0, <2>2 DEF config_start, check_interfaces, EnvType, TypeOK
<1>3. \/ d \in devices /\ start(d, wdev[d], wdev_cur)
      \/ d \in devices /\ check(d, wdev[d], wdev_cur)
      \/ UNCHANGED <<wdev, sched>>
  BY DEF config_start, check_interfaces
<1>4. CASE d \in devices /\ start(d, wdev[d], wdev_cur)
  BY <1>0, <1>1, <1>2, <1>4, StartOK, PresentStep
<1>5. CASE d \in devices /\ check(d, wdev[d], wdev_cur)
  BY <1>0, <1>1, <1>2, <1>5, CheckOK, PresentStep
<1>6. CASE UNCHANGED <<wdev, sched>>
  BY <1>2, <1>6, QuietStep
<1> QED BY <1>3, <1>4, <1>5, <1>6

\* The ubus methods that start, stop, retry and reconfigure a device.
LEMMA UbusStep ==
  ASSUME NEW d \in Devices, IInv, ubus_call(d)
  PROVE  IInv'
<1>0. TypeOK /\ net \in [Devices -> Nets] /\ events \in Nat /\ MaxEvents \in Nat
  BY ConstantsAssumption DEF IInv, TypeOK
<1>1. Before(d, wdev[d], wdev_cur)
  BY BeforeMethod
<1>2. EnvType' /\ devices' = devices /\ d \in devices
  BY <1>0 DEF ubus_call, Event, EnvType, TypeOK
<1>3. After(d)
  BY <1>0, <1>1, StartOK, StopOK, RetryOK, UpdateOK DEF ubus_call
<1> QED BY <1>2, <1>3, PresentStep

\* The notifications other than UP only assign to fields of the object.
LEMMA NotifyStep ==
  ASSUME NEW d \in Devices, IInv,
         \/ wdev_set_data(d) \/ wdev_proc_add(d)
         \/ \E r \in RetryValues : set_retry(d, r)
  PROVE  IInv'
<1>0. TypeOK /\ wdev[d] \in WDev
  BY DEF IInv, TypeOK
<1>1. Before(d, wdev[d], wdev_cur)
  BY BeforeMethod
<1>2. /\ wdev_cur.dev = d
      /\ UNCHANGED <<devices, armed, net, loop, todo, events, link, applied>>
  BY DEF wdev_set_data, wdev_proc_add, set_retry, Notifies
<1>3. d \in devices
  BY <1>2, ActiveIsPresent
<1>4. EnvType'
  BY <1>0, <1>2 DEF TypeOK, EnvType
<1>5. PICK w : w \in WDev /\ w.state = wdev[d].state /\ Return(d, w, wdev_cur)
  <2>1. CASE wdev_set_data(d)
    <3>1. [wdev[d] EXCEPT !.ifname = TRUE] \in WDev
      BY <1>0 DEF WDev
    <3> QED BY <1>0, <2>1, <3>1 DEF wdev_set_data, WDev
  <2>2. CASE wdev_proc_add(d)
    <3>1. [wdev[d] EXCEPT !.procs = TRUE] \in WDev
      BY <1>0 DEF WDev
    <3> QED BY <1>0, <2>2, <3>1 DEF wdev_proc_add, WDev
  <2>3. CASE \E r \in RetryValues : set_retry(d, r)
    <3>1. PICK r \in RetryValues : set_retry(d, r)
      BY <2>3
    <3>2. [wdev[d] EXCEPT !.retry = r] \in WDev
      BY <1>0, ConstantsAssumption DEF WDev
    <3> QED BY <1>0, <3>1, <3>2 DEF set_retry, WDev
  <2> QED BY <2>1, <2>2, <2>3
<1>6. After(d)
  BY <1>1, <1>5, SameStateOK, ReturnOK
<1> QED BY <1>2, <1>3, <1>4, <1>6, PresentStep

\* NOTIFY_CMD_UP of the running setup script.
LEMMA MarkUpStep ==
  ASSUME NEW d \in Devices, IInv, wdev_mark_up(d)
  PROVE  IInv'
<1>1. /\ wdev_cur.dev = d
      /\ UNCHANGED <<devices, armed, net, loop, todo, events>>
  BY DEF wdev_mark_up, Notifies
<1>2. After(d) /\ link' \in [Devices -> BOOLEAN] /\ applied' \in [Devices -> Configs]
  BY MarkUpOK DEF IInv
<1>3. EnvType'
  BY <1>1, <1>2 DEF IInv, TypeOK, EnvType
<1> QED BY <1>1, <1>2, <1>3, ActiveIsPresent, PresentStep

\* The monitor finds that a daemon has died.
LEMMA ProcCheckStep ==
  ASSUME NEW d \in Devices, IInv, wdev_proc_check(d)
  PROVE  IInv'
<1>1. /\ teardown(d, wdev[d], wdev_cur)
      /\ UNCHANGED <<devices, armed, link, applied, net, loop, todo, events>>
  BY DEF wdev_proc_check
<1>2. After(d)
  BY <1>1, BeforeMethod, TeardownOK
<1>3. EnvType'
  BY <1>1 DEF IInv, TypeOK, EnvType
<1>4. CASE d \in devices
  BY <1>1, <1>2, <1>3, <1>4, PresentStep
<1>5. CASE d \notin devices
  <2>1. wdev[d].state = "down" /\ wdev[d] \in WDev
    BY <1>5 DEF IInv, AbsentInv, TypeOK
  <2>2. wdev'[d].state = "down"
    BY <1>1, <2>1 DEF teardown, Return, IInv, TypeOK, WDev
  <2>3. devices' = devices \ {d}
    BY <1>1, <1>5
  <2> QED BY <1>2, <1>3, <2>2, <2>3, RemoveStep
<1> QED BY <1>4, <1>5

\* The script ends or is killed: its callback finds a free slot.
LEMMA ScriptEndStep ==
  ASSUME NEW d \in Devices, IInv, run_handler_cb(d)
  PROVE  IInv'
<1>0. TypeOK /\ SchedInv
  BY DEF IInv
<1>1. wdev_cur.dev = d /\ d \in devices
  BY ActiveIsPresent DEF run_handler_cb
<1>2. ASSUME link' \in [Devices -> BOOLEAN] PROVE EnvType'
  BY <1>0, <1>2 DEF run_handler_cb, TypeOK, EnvType
<1>3. CASE wdev_cur.op = "setup"
  <2>1. wdev_setup_cb(d, wdev[d], NoRun) /\ devices' = devices /\ link' = link
    BY <1>3 DEF run_handler_cb
  <2>2. After(d)
    BY <1>0, <1>1, <1>3, <2>1, SetupCbOK
  <2>3. EnvType'
    BY <1>0, <1>2, <2>1 DEF TypeOK
  <2> QED BY <1>1, <2>1, <2>2, <2>3, PresentStep
<1>4. CASE wdev_cur.op # "setup"
  <2>1. wdev_cur.op = "teardown"
    BY <1>0, <1>1, <1>4 DEF SchedInv, DevOK
  <2>2. /\ wdev_teardown_cb(d, wdev[d], NoRun)
        /\ handle_link(d, wdev[d], FALSE)
    BY <1>4 DEF run_handler_cb
  <2>3. link' \in [Devices -> BOOLEAN]
    BY <1>0, <2>2 DEF TypeOK, handle_link
  <2>4. EnvType'
    BY <1>2, <2>3
  <2>5. /\ After(d)
        /\ \/ devices' = devices
           \/ devices' = devices \ {d} /\ wdev'[d].state = "down"
    BY <1>0, <1>1, <2>1, <2>2, TeardownCbOK
  <2> QED BY <1>1, <2>4, <2>5, PresentStep, RemoveStep
<1> QED BY <1>3, <1>4

\* handler_timer starts the next run or announces completion.
LEMMA TimerStep ==
  ASSUME IInv, run_next_handler
  PROVE  IInv'
<1>0. TypeOK /\ SchedInv /\ SchedType
  BY TypeSplit DEF IInv
<1>1. EnvType' /\ devices' = devices /\ wdev' = wdev
  BY <1>0 DEF run_next_handler, EnvType, TypeOK
<1>2. CASE wdev_cur.dev # None
  <2>1. UNCHANGED sched
    BY <1>2 DEF run_next_handler
  <2> QED BY <1>1, <2>1, QuietStep
<1>3. CASE wdev_cur.dev = None /\ Pending(wdev_handler) # {}
  <2>1. RunNext(wdev, wdev_handler, ahead, fresh)
    BY <1>3 DEF run_next_handler
  <2>2. \A e \in Devices : DevOK(e, wdev[e], wdev_handler[e], wdev_cur)
    BY <1>0 DEF SchedInv
  <2>3. /\ wdev_cur' \in Runs
        /\ wdev_handler' \in [Devices -> Ops]
        /\ ahead' \subseteq Devices \X Devices
        /\ fresh' \subseteq Devices
        /\ announced' = FALSE
        /\ \A e \in Devices : DevOK(e, wdev[e], wdev_handler'[e], wdev_cur')
    BY <1>0, <1>3, <2>1, <2>2, RunNextOK DEF SchedType
  <2>4. TypeOK'
    BY <1>0, <1>1, <2>3 DEF TypeOK, EnvType, Ops
  <2>5. SchedInv' /\ AbsentInv'
    BY <1>1, <2>3 DEF SchedInv, AnnouncedOK, AbsentInv, IInv
  <2> QED BY <2>4, <2>5 DEF IInv
<1>4. CASE wdev_cur.dev = None /\ Pending(wdev_handler) = {}
  <2>1. announced' = TRUE /\ UNCHANGED <<wdev_cur, wdev_handler, ahead, fresh>>
    BY <1>4 DEF run_next_handler
  <2>2. \A e \in Devices : wdev_handler[e] = "none"
    BY <1>4 DEF Pending
  <2>3. TypeOK'
    BY <1>0, <1>1, <2>1 DEF TypeOK, EnvType
  <2>4. SchedInv' /\ AbsentInv'
    BY <1>0, <1>1, <1>4, <2>1, <2>2 DEF SchedInv, AnnouncedOK, AbsentInv, IInv
  <2> QED BY <2>3, <2>4 DEF IInv
<1> QED BY <1>2, <1>3, <1>4

\* The actions that touch neither an object nor the order of the queue.
LEMMA EnvironmentStep ==
  ASSUME IInv,
         \/ config_reload
         \/ \E d \in Devices, n \in Nets : net_change(d, n)
         \/ \E d \in Devices, add \in BOOLEAN : hotplug(d, add)
         \/ Tick
         \/ UNCHANGED vars
  PROVE  IInv'
<1>0. TypeOK /\ events \in Nat /\ MaxEvents \in Nat
  BY ConstantsAssumption DEF IInv, TypeOK
<1>1. CASE config_reload
  <2>1. loop' \in {"idle", "init", "start", "check"} /\ todo' \subseteq Devices
    BY <1>0, <1>1, IterateType DEF config_reload, TypeOK
  <2>2. EnvType'
    BY <1>0, <1>1, <2>1 DEF config_reload, Event, EnvType, TypeOK
  <2> QED BY <1>1, <2>2, QuietStep DEF config_reload
<1>2. ASSUME NEW d \in Devices, NEW n \in Nets, net_change(d, n) PROVE IInv'
  <2>1. loop' \in {"idle", "init", "start", "check"} /\ todo' \subseteq Devices
    BY <1>0, <1>2, IterateType DEF net_change, TypeOK
  <2>2. EnvType'
    BY <1>0, <1>2, <2>1 DEF net_change, Event, EnvType, TypeOK
  <2> QED BY <1>2, <2>2, QuietStep DEF net_change
<1>3. ASSUME NEW d \in Devices, NEW add \in BOOLEAN, hotplug(d, add) PROVE IInv'
  <2>1. EnvType'
    BY <1>0, <1>3 DEF hotplug, handle_link, Event, EnvType, TypeOK
  <2> QED BY <1>3, <2>1, QuietStep DEF hotplug
<1>4. CASE Tick
  BY <1>4 DEF Tick, IInv, TypeOK, SchedInv, AbsentInv, AnnouncedOK
<1>5. CASE UNCHANGED vars
  <2>1. EnvType' /\ UNCHANGED <<devices, wdev, sched>>
    BY <1>0, <1>5 DEF vars, EnvType, TypeOK
  <2> QED BY <2>1, QuietStep
<1> QED BY <1>1, <1>2, <1>3, <1>4, <1>5

\* IInv is inductive.
LEMMA NextOK == IInv /\ [Next]_vars => IInv'
<1> SUFFICES ASSUME IInv, [Next]_vars PROVE IInv'
  OBVIOUS
<1>1. CASE UNCHANGED vars
  BY <1>1, EnvironmentStep
<1>2. CASE Next
  BY <1>2, EnvironmentStep, UpdateConfigStep, LoopMethodStep, UbusStep,
     NotifyStep, MarkUpStep, ProcCheckStep, ScriptEndStep, TimerStep
  DEF Next, LoopStep
<1> QED BY <1>1, <1>2

\* Every state the wireless device manager can reach satisfies IInv.
THEOREM Invariance == Spec => []IInv
BY InitOK, NextOK, PTL DEF Spec

\* Type correctness, for any number of devices and retries.
THEOREM TypeCorrect == Spec => []TypeOK
<1>1. IInv => TypeOK
  BY DEF IInv
<1> QED BY <1>1, Invariance, PTL

\* No device is ever wedged in "setup" or "teardown" without a handler run
\* that will lead out of it, and none that is settled or deleted is still
\* known to the queue or to a running script.
THEOREM NeverWedged == Spec => []NoWedge
<1>1. IInv => NoWedge
  BY DEF IInv, SchedInv, AbsentInv, DevOK, NoWedge, Queued, Running
<1> QED BY <1>1, Invariance, PTL

\* wireless_config_done is only ever announced with all devices settled.
THEOREM DoneOnlyWhenSettled == Spec => []DoneMeansSettled
<1>1. IInv => DoneMeansSettled
  BY ConstantsAssumption
  DEF IInv, TypeOK, WDev, SchedInv, DevOK, AnnouncedOK, DoneMeansSettled
<1> QED BY <1>1, Invariance, PTL

-----------------------------------------------------------------------------
(***************************************************************************)
(* What the flags of a device object promise: a stop and a removal are     *)
(* honoured, a device that is up runs the configuration it was given last, *)
(* monitors belong to the current run, a device that should run is not     *)
(* left down, and neither a wakeup nor the link of a vif is lost.  For any *)
(* number of radios, configurations, network states, retries and events.   *)
(*                                                                         *)
(* A method of a device assigns to fields of the object and ends in one    *)
(* run_handler or Return with the object it has built (Ends), so it is     *)
(* enough to show that this object keeps its promises (ObjOK).             *)
(***************************************************************************)

\* The promises of one object w of device d while the run is c and the
\* configuration that last came up is a.
FlagsOK(w) ==
  /\ w.state = "up" => w.autostart /\ ~w.delete /\ ~w.retry_setup_failed
  /\ w.cancel_setup => w.state = "setup"
  /\ w.delete => w.state \in {"setup", "teardown"} /\ ~w.autostart
  /\ w.procs => w.state \in {"setup", "up"}
  /\ w.state = "down" => ~w.ifname
  /\ ~w.config_change => w.handler_config = <<w.data, w.seen>>

RunOK(d, w, c, a) ==
  /\ w.procs /\ w.state = "setup" => c.dev = d /\ c.op = "setup"
  /\ c.dev = d /\ c.op = "setup" /\ ~c.up /\ ~w.config_change =>
       c.cfg = <<w.data, w.seen>>
  /\ w.state = "up" /\ ~w.config_change => a = <<w.data, w.seen>>
  /\ w.state = "up" /\ w.config_change => c.dev = d

ObjOK(d, w, c, a) == FlagsOK(w) /\ RunOK(d, w, c, a)

FlagInv == \A e \in Devices : ObjOK(e, wdev[e], wdev_cur, applied[e])

\* A device that is down is stopped or has used up its retries.
Deliberate(w) == w.state = "down" => ~w.autostart \/ w.retry_setup_failed

\* A method ends with the object v and the run c.
Ends(d, v, c) ==
  \/ Return(d, v, c)
  \/ \E op \in {"setup", "teardown"} : run_handler(d, v, c, op)

\* Of the object w it was given, a method keeps this in v: it does not leave
\* a device down that should run, and drops the vif's ifname only to set up a
\* device that is up.
Kept(w, v) ==
  /\ Deliberate(w) => Deliberate(v)
  /\ w.ifname /\ ~v.ifname => w.state = "up" /\ v.state = "setup"

Finishes(d, w, c) ==
  \E v \in WDev : Ends(d, v, c) /\ ObjOK(d, v, c, applied[d]) /\ Kept(w, v)

\* The run and the object that a method is given fit together (NoWedge).
Fits(d, w, c) ==
  /\ c.dev = d => w.state # "down" /\ (w.state = "up" => c.up)

-----------------------------------------------------------------------------
\* A run of another device, or of none, is all the same to an object.
LEMMA OtherRun ==
  ASSUME NEW e, NEW w, NEW a, NEW c, NEW r,
         ObjOK(e, w, c, a), c.dev # e, r.dev # e
  PROVE  ObjOK(e, w, r, a)
BY DEF ObjOK, RunOK

\* Starting a device's script with its handler_config keeps its promises.
LEMMA OwnRun ==
  ASSUME NEW e, NEW w, NEW a, NEW c, NEW op,
         ObjOK(e, w, c, a), c.dev # e
  PROVE  ObjOK(e, w, [dev |-> e, op |-> op, up |-> FALSE,
                      cfg |-> w.handler_config], a)
BY DEF ObjOK, RunOK, FlagsOK

\* The next script is started, whoever's it is.
LEMMA RunNextFlags ==
  ASSUME NEW objs, NEW q, NEW a, NEW f, NEW c, c.dev = None,
         \A e \in Devices : ObjOK(e, objs[e], c, applied[e]),
         RunNext(objs, q, a, f)
  PROVE  /\ \A e \in Devices : ObjOK(e, objs[e], wdev_cur', applied[e])
         /\ wdev_cur'.dev # None
<1>1. PICK x \in Oldest(q, a) :
        wdev_cur' = [dev |-> x, op |-> q[x], up |-> FALSE,
                     cfg |-> objs[x].handler_config]
  BY DEF RunNext
<1>2. x \in Devices /\ x # None
  BY ConstantsAssumption DEF Oldest, Pending
<1>3. ASSUME NEW e \in Devices
      PROVE  ObjOK(e, objs[e], wdev_cur', applied[e])
  <2>1. c.dev # e
    BY ConstantsAssumption
  <2>2. CASE e = x
    BY <1>1, <2>1, <2>2, OwnRun
  <2>3. CASE e # x
    <3>1. wdev_cur'.dev # e /\ ObjOK(e, objs[e], c, applied[e])
      BY <1>1, <2>3
    <3> QED
      BY <2>1, <3>1, OtherRun
  <2> QED
    BY <2>2, <2>3
<1> QED
  BY <1>1, <1>2, <1>3

\* What a method leaves behind.
LEMMA EndsOK ==
  ASSUME NEW d \in Devices, NEW v \in WDev, NEW c \in Runs, SchedType,
         \A e \in Devices \ {d} : ObjOK(e, wdev[e], c, applied[e]),
         ObjOK(d, v, c, applied[d]), Ends(d, v, c)
  PROVE  /\ wdev' = [wdev EXCEPT ![d] = v]
         /\ \A e \in Devices : ObjOK(e, wdev'[e], wdev_cur', applied[e])
         /\ wdev_cur'.dev = None =>
              c.dev = None /\ UNCHANGED <<wdev_handler, announced>>
<1> DEFINE objs == [wdev EXCEPT ![d] = v]
<1>1. wdev' = objs
  BY DEF Ends, Return, run_handler
<1>2. \A e \in Devices : ObjOK(e, objs[e], c, applied[e])
  BY DEF SchedType
<1>3. CASE wdev_cur' = c /\ (Return(d, v, c) \/ c.dev # None)
  BY <1>1, <1>2, <1>3 DEF Return
<1>4. CASE ~(wdev_cur' = c /\ (Return(d, v, c) \/ c.dev # None))
  <2>1. PICK op \in {"setup", "teardown"} : run_handler(d, v, c, op)
    BY <1>4 DEF Ends, Return
  <2>2. c.dev = None
    BY <1>4, <2>1 DEF run_handler
  <2> DEFINE q == [wdev_handler EXCEPT ![d] = op]
             a == Without(ahead, d) \cup
                    {<<e, d>> : e \in Pending(wdev_handler) \ (fresh \cup {d})}
  <2>3. RunNext(objs, q, a, fresh \cup {d})
    BY <2>1, <2>2 DEF run_handler
  <2> HIDE DEF objs, q, a
  <2>4. /\ \A e \in Devices : ObjOK(e, objs[e], wdev_cur', applied[e])
        /\ wdev_cur'.dev # None
    BY <1>2, <2>2, <2>3, RunNextFlags
  <2> QED
    BY <1>1, <2>4 DEF objs
<1> QED
  BY <1>3, <1>4

-----------------------------------------------------------------------------
\* setup() of a device that is up or down, with a handler_config that is the
\* latest configuration.
LEMMA SetupEnds ==
  ASSUME NEW d \in Devices, NEW w \in WDev, NEW c, setup(d, w, c),
         FlagsOK(w), Fits(d, w, c), w.state \in {"up", "down"},
         w.handler_config = <<w.data, w.seen>>
  PROVE  \E v \in WDev : /\ Ends(d, v, c)
                         /\ ObjOK(d, v, c, applied[d])
                         /\ Deliberate(v)
                         /\ v.ifname = w.ifname
                         /\ w.state = "up" => v.state = "setup"
<1>1. CASE w.autostart /\ ~w.retry_setup_failed
  <2> DEFINE v == [w EXCEPT !.procs = FALSE, !.config_change = FALSE,
                            !.state = "setup"]
  <2>1. v \in WDev /\ v.state = "setup" /\ v.ifname = w.ifname
    BY DEF WDev
  <2>2. FlagsOK(v)
    BY <1>1 DEF WDev, FlagsOK
  <2>3. RunOK(d, v, c, applied[d])
    BY DEF WDev, RunOK, Fits
  <2>4. Ends(d, v, c)
    BY <1>1 DEF setup, Ends
  <2> HIDE DEF v
  <2> QED
    BY <2>1, <2>2, <2>3, <2>4 DEF ObjOK, Deliberate
<1>2. CASE ~(w.autostart /\ ~w.retry_setup_failed)
  <2>1. w.state = "down" /\ Deliberate(w)
    BY <1>2 DEF FlagsOK, Deliberate
  <2>2. Ends(d, w, c)
    BY <1>2 DEF setup, Ends
  <2>3. RunOK(d, w, c, applied[d])
    BY <2>1 DEF RunOK, Fits, FlagsOK
  <2> QED
    BY <2>1, <2>2, <2>3 DEF ObjOK
<1> QED
  BY <1>1, <1>2

\* teardown() of a device that is being set up or up.
LEMMA TeardownEnds ==
  ASSUME NEW d \in Devices, NEW w \in WDev, NEW c, teardown(d, w, c),
         w.state \in {"setup", "up"}, w.delete => ~w.autostart,
         ~w.config_change => w.handler_config = <<w.data, w.seen>>,
         c.dev = d /\ c.op = "setup" /\ ~c.up /\ ~w.config_change =>
           c.cfg = <<w.data, w.seen>>
  PROVE  \E v \in WDev : /\ Ends(d, v, c)
                         /\ ObjOK(d, v, c, applied[d])
                         /\ v.state = "teardown"
                         /\ v.ifname = w.ifname
<1> DEFINE v == [w EXCEPT !.cancel_setup = FALSE, !.procs = FALSE,
                          !.state = "teardown"]
<1>1. v \in WDev /\ v.state = "teardown" /\ v.ifname = w.ifname
  BY DEF WDev
<1>2. FlagsOK(v)
  BY DEF WDev, FlagsOK
<1>3. RunOK(d, v, c, applied[d])
  BY DEF WDev, RunOK
<1>4. Ends(d, v, c)
  BY DEF teardown, Ends
<1> HIDE DEF v
<1> QED
  BY <1>1, <1>2, <1>3, <1>4 DEF ObjOK

\* The object after the helpers that assign to it.
LEMMA InitFields ==
  ASSUME NEW w \in WDev
  PROVE  LET i == wdev_config_init(w) IN
         /\ i \in WDev /\ i.state = w.state /\ i.autostart = w.autostart
         /\ i.retry_setup_failed = w.retry_setup_failed
         /\ i.handler_config = <<i.data, i.seen>>
         /\ ~i.ifname
         /\ FlagsOK(w) => FlagsOK(i)
<1> DEFINE i == wdev_config_init(w)
<1>1. /\ i \in WDev
  BY DEF wdev_config_init, WDev, Configs
<1>2. /\ i.state = w.state /\ i.autostart = w.autostart
      /\ i.retry_setup_failed = w.retry_setup_failed
      /\ i.data = w.data /\ i.seen = w.seen
      /\ i.handler_config = <<w.data, w.seen>>
      /\ i.delete = w.delete /\ i.cancel_setup = w.cancel_setup
      /\ i.procs = w.procs /\ ~i.ifname
  BY DEF wdev_config_init, WDev
<1> HIDE DEF i
<1>3. FlagsOK(w) => FlagsOK(i)
  BY <1>2 DEF FlagsOK
<1> QED
  BY <1>1, <1>2, <1>3 DEF i

\* The view of the networks only marks a change.
LEMMA SeenFields ==
  ASSUME NEW d \in Devices, NEW w \in WDev, net \in [Devices -> Nets]
  PROVE  LET u == wdev_update_disabled_vifs(d, w) IN
         /\ u \in WDev /\ u.state = w.state /\ u.autostart = w.autostart
         /\ u.retry_setup_failed = w.retry_setup_failed /\ u.ifname = w.ifname
         /\ w.config_change => u.config_change
         /\ ~u.config_change => u = w
         /\ FlagsOK(w) => FlagsOK(u)
         /\ u.procs = w.procs
<1> DEFINE u == wdev_update_disabled_vifs(d, w)
           b == w.config_change \/ net[d] # w.seen
<1>1. u = [w EXCEPT !.config_change = b, !.seen = net[d]]
  BY DEF wdev_update_disabled_vifs
<1>2. u \in WDev
  BY HelpersOK
<1>3. /\ u.state = w.state /\ u.autostart = w.autostart
      /\ u.retry_setup_failed = w.retry_setup_failed /\ u.ifname = w.ifname
      /\ u.delete = w.delete /\ u.cancel_setup = w.cancel_setup
      /\ u.procs = w.procs /\ u.data = w.data
      /\ u.handler_config = w.handler_config
  BY <1>1 DEF WDev
<1>4. u.config_change = b /\ u.seen = net[d]
  BY <1>1 DEF WDev
<1>5. w.config_change => u.config_change
  BY <1>4
<1>6. ~u.config_change => u = w
  <2> SUFFICES ASSUME ~u.config_change PROVE u = w
    OBVIOUS
  <2>1. w.config_change = FALSE /\ net[d] = w.seen
    BY <1>4 DEF WDev
  <2>2. b = FALSE
    BY <2>1
  <2> HIDE DEF b, u
  <2> QED
    BY <1>1, <2>1, <2>2 DEF WDev
<1> HIDE DEF u, b
<1>7. FlagsOK(w) => FlagsOK(u)
  BY <1>3, <1>6 DEF FlagsOK
<1> QED
  BY <1>2, <1>3, <1>5, <1>6, <1>7 DEF u

\* A reset of the retries.
LEMMA ResetFields ==
  ASSUME NEW w \in WDev
  PROVE  LET r == wdev_reset(w) IN
         /\ r \in WDev /\ r.state = w.state /\ r.autostart = w.autostart
         /\ ~r.retry_setup_failed /\ r.ifname = w.ifname
         /\ r.delete = w.delete /\ r.cancel_setup = w.cancel_setup
         /\ r.procs = w.procs /\ r.data = w.data /\ r.seen = w.seen
         /\ r.config_change = w.config_change
         /\ r.handler_config = w.handler_config
<1>1. DEFAULT_RETRY \in 0..DEFAULT_RETRY
  BY ConstantsAssumption
<1> QED BY <1>1 DEF wdev_reset, WDev

\* check(), for an object that keeps its flags' promises, whether or not a
\* change was noted on it just before.
LEMMA CheckEnds ==
  ASSUME NEW d \in Devices, NEW w \in WDev, NEW c, net \in [Devices -> Nets],
         check(d, w, c), FlagsOK(w), Fits(d, w, c),
         w.config_change \/ RunOK(d, w, c, applied[d]),
         w.procs /\ w.state = "setup" => c.dev = d /\ c.op = "setup"
  PROVE  /\ Finishes(d, w, c)
         /\ w.config_change =>
              \E v \in WDev : /\ Ends(d, v, c) /\ ObjOK(d, v, c, applied[d])
                              /\ Kept(w, v) /\ Deliberate(v)
<1> DEFINE u == wdev_update_disabled_vifs(d, w)
           i == wdev_config_init(u)
<1>1. /\ u \in WDev /\ u.state = w.state /\ u.autostart = w.autostart
      /\ u.retry_setup_failed = w.retry_setup_failed /\ u.ifname = w.ifname
      /\ w.config_change => u.config_change
      /\ ~u.config_change => u = w
      /\ FlagsOK(u)
      /\ u.procs = w.procs
  BY SeenFields
<1>2. /\ i \in WDev /\ i.state = u.state /\ i.autostart = u.autostart
      /\ i.retry_setup_failed = u.retry_setup_failed
      /\ i.handler_config = <<i.data, i.seen>>
      /\ ~i.ifname
      /\ FlagsOK(i)
  <2> HIDE DEF u
  <2> QED
    BY <1>1, InitFields
<1>3. \/ u.config_change /\ u.state \in {"up", "down"} /\ setup(d, i, c)
      \/ ~(u.config_change /\ u.state \in {"up", "down"}) /\ Return(d, u, c)
  BY DEF check
<1> HIDE DEF u, i
<1>4. CASE u.config_change /\ u.state \in {"up", "down"} /\ setup(d, i, c)
  <2>1. PICK v \in WDev : /\ Ends(d, v, c) /\ ObjOK(d, v, c, applied[d])
                          /\ Deliberate(v) /\ v.ifname = i.ifname
                          /\ i.state = "up" => v.state = "setup"
    <3>1. Fits(d, i, c)
      BY <1>1, <1>2 DEF Fits
    <3> QED
      BY <1>2, <1>4, <3>1, SetupEnds
  <2>2. Kept(w, v)
    BY <1>1, <1>2, <1>4, <2>1 DEF Kept, FlagsOK
  <2> QED
    BY <2>1, <2>2 DEF Finishes
<1>5. CASE ~(u.config_change /\ u.state \in {"up", "down"}) /\ Return(d, u, c)
  <2>1. ObjOK(d, u, c, applied[d])
    <3>1. CASE u.config_change
      BY <1>1, <1>5, <3>1 DEF ObjOK, RunOK
    <3>2. CASE ~u.config_change
      BY <1>1, <3>2 DEF ObjOK
    <3> QED
      BY <3>1, <3>2
  <2>2. Ends(d, u, c)
    BY <1>5 DEF Ends
  <2>3. Kept(w, u)
    BY <1>1 DEF Kept, Deliberate
  <2>4. w.config_change => Deliberate(u)
    BY <1>1, <1>5 DEF Deliberate
  <2> QED
    BY <1>1, <2>1, <2>2, <2>3, <2>4 DEF Finishes
<1> QED
  BY <1>3, <1>4, <1>5

\* Returning with the object as it was.
LEMMA ReturnFinishes ==
  ASSUME NEW d \in Devices, NEW w \in WDev, NEW c, Return(d, w, c),
         ObjOK(d, w, c, applied[d])
  PROVE  Finishes(d, w, c)
BY DEF Finishes, Ends, Kept

\* update().
LEMMA UpdateEnds ==
  ASSUME NEW d \in Devices, NEW w \in WDev, NEW c, NEW data \in Datas \cup {None},
         net \in [Devices -> Nets], update(d, w, data, c),
         ObjOK(d, w, c, applied[d]), Fits(d, w, c)
  PROVE  Finishes(d, w, c)
<1> DEFINE u == IF data = None THEN w
                ELSE [w EXCEPT !.data = data, !.delete = FALSE]
           r == wdev_reset(u)
           v == [r EXCEPT !.config_change = TRUE]
<1>1. /\ u \in WDev /\ u.state = w.state /\ u.autostart = w.autostart
      /\ u.ifname = w.ifname /\ u.cancel_setup = w.cancel_setup
      /\ u.procs = w.procs /\ (u.delete => w.delete)
  BY DEF WDev
<1>2. /\ r \in WDev /\ r.state = u.state /\ r.autostart = u.autostart
      /\ ~r.retry_setup_failed /\ r.ifname = u.ifname
      /\ r.delete = u.delete /\ r.cancel_setup = u.cancel_setup
      /\ r.procs = u.procs
  <2> HIDE DEF u
  <2> QED
    BY <1>1, ResetFields
<1>3. /\ v \in WDev /\ v.state = r.state /\ v.autostart = r.autostart
      /\ v.retry_setup_failed = r.retry_setup_failed /\ v.ifname = r.ifname
      /\ v.delete = r.delete /\ v.cancel_setup = r.cancel_setup
      /\ v.procs = r.procs /\ v.config_change
  <2> HIDE DEF r
  <2> QED
    BY <1>2 DEF WDev
<1>4. Return(d, w, c) \/ check(d, v, c)
  BY DEF update
<1> HIDE DEF u, r, v
<1>5. CASE Return(d, w, c)
  BY <1>5, ReturnFinishes
<1>6. CASE check(d, v, c)
  <2>1. /\ FlagsOK(v) /\ Fits(d, v, c)
        /\ v.procs /\ v.state = "setup" => c.dev = d /\ c.op = "setup"
    BY <1>1, <1>2, <1>3 DEF ObjOK, FlagsOK, RunOK, Fits
  <2>2. PICK x \in WDev : /\ Ends(d, x, c) /\ ObjOK(d, x, c, applied[d])
                          /\ Kept(v, x) /\ Deliberate(x)
    BY <1>3, <1>6, <2>1, CheckEnds
  <2>3. Kept(w, x)
    BY <1>1, <1>2, <1>3, <2>2 DEF Kept
  <2> QED
    BY <2>2, <2>3 DEF Finishes
<1> QED
  BY <1>4, <1>5, <1>6

\* start().
LEMMA StartEnds ==
  ASSUME NEW d \in Devices, NEW w \in WDev, NEW c,
         net \in [Devices -> Nets], start(d, w, c),
         ObjOK(d, w, c, applied[d]), Fits(d, w, c)
  PROVE  \E v \in WDev : /\ Ends(d, v, c) /\ ObjOK(d, v, c, applied[d])
                         /\ Kept(w, v) /\ Deliberate(v)
<1> DEFINE r == [w EXCEPT !.autostart = TRUE]
           s == wdev_reset(r)
           u == wdev_update_disabled_vifs(d, s)
           i == wdev_config_init(u)
           x == IF u.config_change THEN i ELSE u
<1>1. /\ r \in WDev /\ r.state = w.state /\ r.autostart
      /\ r.ifname = w.ifname /\ r.delete = w.delete
      /\ r.cancel_setup = w.cancel_setup /\ r.procs = w.procs
      /\ r.data = w.data /\ r.seen = w.seen
      /\ r.config_change = w.config_change
      /\ r.handler_config = w.handler_config
  BY DEF WDev
<1>2. /\ s \in WDev /\ s.state = r.state /\ s.autostart = r.autostart
      /\ ~s.retry_setup_failed /\ s.ifname = r.ifname
      /\ s.delete = r.delete /\ s.cancel_setup = r.cancel_setup
      /\ s.procs = r.procs /\ s.data = r.data /\ s.seen = r.seen
      /\ s.config_change = r.config_change
      /\ s.handler_config = r.handler_config
  <2> HIDE DEF r
  <2> QED
    BY <1>1, ResetFields
<1>3. \/ w.delete /\ Return(d, w, c)
      \/ ~w.delete /\ w.state # "down" /\ Return(d, s, c)
      \/ ~w.delete /\ w.state = "down" /\ setup(d, x, c)
  <2> HIDE DEF wdev_reset, wdev_update_disabled_vifs
  <2>1. w.delete \in BOOLEAN
    BY DEF WDev
  <2> QED
    BY <2>1 DEF start
<1>4. ~w.delete => FlagsOK(s)
  <2> HIDE DEF r, s
  <2> QED
    BY <1>1, <1>2 DEF ObjOK, FlagsOK
<1>5. CASE w.delete /\ Return(d, w, c)
  BY <1>5 DEF ObjOK, FlagsOK, Ends, Kept, Deliberate
<1>6. CASE ~w.delete /\ w.state # "down" /\ Return(d, s, c)
  <2> HIDE DEF r, s
  <2>1. RunOK(d, s, c, applied[d])
    BY <1>1, <1>2 DEF ObjOK, RunOK
  <2> QED
    BY <1>1, <1>2, <1>4, <1>6, <2>1 DEF ObjOK, Ends, Kept, Deliberate
<1>7. CASE ~w.delete /\ w.state = "down" /\ setup(d, x, c)
  <2> HIDE DEF s
  <2>1. /\ u \in WDev /\ u.state = s.state
        /\ FlagsOK(u) /\ u.ifname = s.ifname
    BY <1>2, <1>4, <1>7, SeenFields
  <2> HIDE DEF u
  <2>2. /\ i \in WDev /\ i.state = u.state /\ FlagsOK(i)
        /\ i.handler_config = <<i.data, i.seen>>
    BY <2>1, InitFields
  <2> HIDE DEF i
  <2>3. /\ x \in WDev /\ x.state = "down" /\ FlagsOK(x)
        /\ x.handler_config = <<x.data, x.seen>>
    BY <1>1, <1>2, <1>7, <2>1, <2>2 DEF FlagsOK
  <2> HIDE DEF x
  <2>4. Fits(d, x, c)
    BY <1>7, <2>3 DEF Fits
  <2>5. PICK v \in WDev : /\ Ends(d, v, c) /\ ObjOK(d, v, c, applied[d])
                          /\ Deliberate(v)
    BY <1>7, <2>3, <2>4, SetupEnds
  <2>6. Kept(w, v)
    BY <1>7, <2>5 DEF Kept, ObjOK, FlagsOK
  <2> QED
    BY <2>5, <2>6
<1> QED
  BY <1>3, <1>5, <1>6, <1>7

\* stop(), of a device that may have been marked for its deletion just before.
LEMMA StopEnds ==
  ASSUME NEW d \in Devices, NEW w \in WDev, NEW c, stop(d, w, c),
         w.delete => w.state # "down",
         w.cancel_setup => w.state = "setup",
         w.procs => w.state \in {"setup", "up"},
         w.state = "down" => ~w.ifname,
         ~w.config_change => w.handler_config = <<w.data, w.seen>>,
         RunOK(d, w, c, applied[d])
  PROVE  Finishes(d, w, c)
<1> DEFINE s == [w EXCEPT !.autostart = FALSE]
           t == [s EXCEPT !.cancel_setup = TRUE]
<1>1. /\ s \in WDev /\ s.state = w.state /\ ~s.autostart /\ s.ifname = w.ifname
      /\ s.delete = w.delete /\ s.cancel_setup = w.cancel_setup
      /\ s.procs = w.procs /\ s.data = w.data /\ s.seen = w.seen
      /\ s.config_change = w.config_change
      /\ s.handler_config = w.handler_config
      /\ s.retry_setup_failed = w.retry_setup_failed
  BY DEF WDev
<1>2. /\ t \in WDev /\ t.state = w.state /\ ~t.autostart /\ t.ifname = w.ifname
      /\ t.delete = w.delete
      /\ t.procs = w.procs /\ t.data = w.data /\ t.seen = w.seen
      /\ t.config_change = w.config_change
      /\ t.handler_config = w.handler_config
  BY DEF WDev
<1>3. w.state \in {"down", "setup", "up", "teardown"}
  BY DEF WDev
<1>4. \/ w.state = "setup" /\ Return(d, t, c)
      \/ w.state = "up" /\ teardown(d, s, c)
      \/ w.state \in {"down", "teardown"} /\ Return(d, s, c)
  BY <1>3 DEF stop
<1> HIDE DEF s, t
<1>5. CASE w.state = "setup" /\ Return(d, t, c)
  <2>1. ObjOK(d, t, c, applied[d])
    BY <1>2, <1>5 DEF ObjOK, FlagsOK, RunOK
  <2> QED
    BY <1>2, <1>5, <2>1 DEF Finishes, Ends, Kept, Deliberate
<1>6. CASE w.state = "up" /\ teardown(d, s, c)
  <2>1. PICK v \in WDev : /\ Ends(d, v, c) /\ ObjOK(d, v, c, applied[d])
                          /\ v.state = "teardown" /\ v.ifname = s.ifname
    <3>1. c.dev = d /\ c.op = "setup" /\ ~c.up /\ ~s.config_change =>
            c.cfg = <<s.data, s.seen>>
      BY <1>1 DEF RunOK
    <3> QED
      BY <1>1, <1>6, <3>1, TeardownEnds
  <2> QED
    BY <1>1, <2>1 DEF Finishes, Kept, Deliberate
<1>7. CASE w.state \in {"down", "teardown"} /\ Return(d, s, c)
  <2>1. ObjOK(d, s, c, applied[d])
    BY <1>1, <1>7 DEF ObjOK, FlagsOK, RunOK
  <2> QED
    BY <1>1, <1>7, <2>1 DEF Finishes, Ends, Kept, Deliberate
<1> QED
  BY <1>4, <1>5, <1>6, <1>7

\* destroy() of a device that is not down.
LEMMA DestroyEnds ==
  ASSUME NEW d \in Devices, NEW w \in WDev, NEW c, w.state # "down",
         destroy(d, w, c), ObjOK(d, w, c, applied[d])
  PROVE  Finishes(d, w, c)
<1> DEFINE u == [w EXCEPT !.autostart = FALSE, !.delete = TRUE]
<1>1. /\ u \in WDev /\ u.state = w.state /\ u.ifname = w.ifname
      /\ u.cancel_setup = w.cancel_setup
      /\ u.procs = w.procs /\ u.data = w.data /\ u.seen = w.seen
      /\ u.config_change = w.config_change
      /\ u.handler_config = w.handler_config
      /\ u.retry_setup_failed = w.retry_setup_failed
  BY DEF WDev
<1>2. stop(d, u, c)
  BY DEF destroy
<1> HIDE DEF u
<1>3. Finishes(d, u, c)
  <2>1. RunOK(d, u, c, applied[d])
    BY <1>1 DEF ObjOK, RunOK
  <2>2. /\ u.cancel_setup => u.state = "setup"
        /\ u.procs => u.state \in {"setup", "up"}
        /\ u.state = "down" => ~u.ifname
        /\ ~u.config_change => u.handler_config = <<u.data, u.seen>>
    BY <1>1 DEF ObjOK, FlagsOK
  <2> QED
    BY <1>1, <1>2, <2>1, <2>2, StopEnds
<1>4. PICK v \in WDev : Ends(d, v, c) /\ ObjOK(d, v, c, applied[d]) /\ Kept(u, v)
  BY <1>3 DEF Finishes
<1>5. Kept(w, v)
  BY <1>1, <1>4 DEF Kept, Deliberate
<1> QED
  BY <1>4, <1>5 DEF Finishes

\* The empty object keeps its promises.
LEMMA NoWdevOK ==
  ASSUME NEW d \in Devices, NEW c, NEW a, c.dev # d
  PROVE  ObjOK(d, NoWdev, c, a) /\ NoWdev \in WDev
BY NoRunType DEF ObjOK, FlagsOK, RunOK, NoWdev

\* The setup script of d has ended.
LEMMA SetupCbEnds ==
  ASSUME NEW d \in Devices, NEW w \in WDev, wdev_setup_cb(d, w, NoRun),
         NEW c, ObjOK(d, w, c, applied[d]), c.dev = d, w.state # "down"
  PROVE  Finishes(d, w, NoRun)
<1>1. NoRun.dev # d
  BY NoRunType, ConstantsAssumption
<1>2. CASE w.state = "setup"
  <2> DEFINE u == IF w.retry > 0 THEN [w EXCEPT !.retry = @ - 1]
                  ELSE [w EXCEPT !.retry_setup_failed = TRUE]
  <2>1. w.retry \in 0..DEFAULT_RETRY
    BY DEF WDev
  <2>2. w.retry > 0 => w.retry - 1 \in 0..DEFAULT_RETRY
    BY <2>1, ConstantsAssumption
  <2>3. u \in WDev
    BY <2>1, <2>2 DEF WDev
  <2>4. /\ u.state = w.state /\ u.ifname = w.ifname /\ u.delete = w.delete
        /\ u.autostart = w.autostart /\ u.config_change = w.config_change
        /\ u.handler_config = w.handler_config
        /\ u.data = w.data /\ u.seen = w.seen
    BY DEF WDev
  <2>5. teardown(d, u, NoRun)
    BY <1>2 DEF wdev_setup_cb
  <2> HIDE DEF u
  <2>6. PICK v \in WDev : /\ Ends(d, v, NoRun)
                          /\ ObjOK(d, v, NoRun, applied[d])
                          /\ v.state = "teardown" /\ v.ifname = u.ifname
    <3>1. /\ u.state \in {"setup", "up"} /\ (u.delete => ~u.autostart)
          /\ ~u.config_change => u.handler_config = <<u.data, u.seen>>
      BY <1>2, <2>4 DEF ObjOK, FlagsOK
    <3> QED
      BY <1>1, <2>3, <2>5, <3>1, TeardownEnds
  <2> QED
    BY <2>4, <2>6 DEF Finishes, Kept, Deliberate
<1>3. CASE w.state = "up" /\ w.config_change
  <2> DEFINE i == wdev_config_init(w)
  <2>1. setup(d, i, NoRun)
    BY <1>3 DEF wdev_setup_cb
  <2>2. /\ i \in WDev /\ i.state = w.state
        /\ i.handler_config = <<i.data, i.seen>>
        /\ FlagsOK(i)
    BY InitFields DEF ObjOK
  <2> HIDE DEF i
  <2>3. Fits(d, i, NoRun)
    BY <1>1 DEF Fits
  <2>4. PICK v \in WDev : /\ Ends(d, v, NoRun)
                          /\ ObjOK(d, v, NoRun, applied[d])
                          /\ Deliberate(v)
                          /\ i.state = "up" => v.state = "setup"
    BY <1>3, <2>1, <2>2, <2>3, SetupEnds
  <2> QED
    BY <1>3, <2>2, <2>4 DEF Finishes, Kept
<1>4. CASE w.state # "setup" /\ ~(w.state = "up" /\ w.config_change)
  <2>1. Return(d, w, NoRun)
    BY <1>4 DEF wdev_setup_cb
  <2>2. ObjOK(d, w, NoRun, applied[d])
    BY <1>1, <1>4 DEF ObjOK, RunOK
  <2> QED
    BY <2>1, <2>2, ReturnFinishes
<1> QED
  BY <1>2, <1>3, <1>4

\* The teardown script of d has ended, and d is not to be deleted.
LEMMA TeardownCbEnds ==
  ASSUME NEW d \in Devices, NEW w \in WDev, wdev_teardown_cb(d, w, NoRun),
         FlagsOK(w), w.state = "teardown", ~w.delete
  PROVE  \E v \in WDev : /\ Ends(d, v, NoRun)
                         /\ ObjOK(d, v, NoRun, applied[d])
                         /\ Deliberate(v)
<1> DEFINE u == [w EXCEPT !.ifname = FALSE, !.state = "down"]
           i == wdev_config_init(u)
           x == IF w.config_change THEN i ELSE u
<1>1. /\ u \in WDev /\ u.state = "down" /\ ~u.ifname
      /\ u.delete = w.delete /\ u.cancel_setup = w.cancel_setup
      /\ u.procs = w.procs /\ u.data = w.data /\ u.seen = w.seen
      /\ u.config_change = w.config_change
      /\ u.handler_config = w.handler_config
  BY DEF WDev
<1>2. setup(d, x, NoRun)
  BY DEF wdev_teardown_cb
<1> HIDE DEF u
<1>3. FlagsOK(u)
  BY <1>1 DEF FlagsOK
<1>4. /\ i \in WDev /\ i.state = u.state /\ FlagsOK(i)
      /\ i.handler_config = <<i.data, i.seen>>
  BY <1>1, <1>3, InitFields
<1> HIDE DEF i
<1>5. /\ x \in WDev /\ x.state = "down" /\ FlagsOK(x)
      /\ x.handler_config = <<x.data, x.seen>>
  BY <1>1, <1>3, <1>4 DEF FlagsOK
<1> HIDE DEF x
<1>6. Fits(d, x, NoRun)
  BY NoRunType, ConstantsAssumption DEF Fits
<1> QED
  BY <1>2, <1>5, <1>6, SetupEnds

\* A notification other than UP assigns a field of an object whose setup runs.
LEMMA NotifyEnds ==
  ASSUME NEW d \in Devices, TypeOK, ObjOK(d, wdev[d], wdev_cur, applied[d]),
         Fits(d, wdev[d], wdev_cur),
         \/ wdev_set_data(d) \/ wdev_proc_add(d)
         \/ \E r \in RetryValues : set_retry(d, r)
  PROVE  Finishes(d, wdev[d], wdev_cur)
<1> DEFINE w == wdev[d]
<1>1. w \in WDev /\ wdev_cur.dev = d /\ wdev_cur.op = "setup"
  BY DEF TypeOK, wdev_set_data, wdev_proc_add, set_retry, Notifies
<1>2. w.state # "down"
  BY <1>1 DEF Fits
<1>3. CASE wdev_set_data(d)
  <2> DEFINE v == [w EXCEPT !.ifname = TRUE]
  <2>1. Return(d, v, wdev_cur)
    BY <1>3 DEF wdev_set_data
  <2> HIDE DEF w
  <2>2. v \in WDev /\ ObjOK(d, v, wdev_cur, applied[d]) /\ Kept(w, v)
    <3>1. /\ v \in WDev /\ v.state = w.state /\ v.autostart = w.autostart
          /\ v.delete = w.delete /\ v.cancel_setup = w.cancel_setup
          /\ v.procs = w.procs /\ v.data = w.data /\ v.seen = w.seen
          /\ v.config_change = w.config_change
          /\ v.handler_config = w.handler_config
          /\ v.retry_setup_failed = w.retry_setup_failed /\ v.ifname
      BY <1>1 DEF WDev
    <3> HIDE DEF v
    <3> QED
      BY <1>2, <3>1 DEF ObjOK, FlagsOK, RunOK, Kept, Deliberate, w
  <2> QED
    BY <2>1, <2>2 DEF Finishes, Ends, w
<1>4. CASE wdev_proc_add(d)
  <2> DEFINE v == IF w.state \in {"setup", "up"}
                  THEN [w EXCEPT !.procs = TRUE] ELSE w
  <2>1. Return(d, v, wdev_cur)
    BY <1>4 DEF wdev_proc_add
  <2> HIDE DEF w
  <2>2. v \in WDev /\ ObjOK(d, v, wdev_cur, applied[d]) /\ Kept(w, v)
    <3>1. /\ v \in WDev /\ v.state = w.state /\ v.autostart = w.autostart
          /\ v.delete = w.delete /\ v.cancel_setup = w.cancel_setup
          /\ v.data = w.data /\ v.seen = w.seen
          /\ v.config_change = w.config_change
          /\ v.handler_config = w.handler_config
          /\ v.retry_setup_failed = w.retry_setup_failed
          /\ v.ifname = w.ifname
          /\ w.state \in {"setup", "up"} \/ v.procs = w.procs
      BY <1>1 DEF WDev
    <3> HIDE DEF v
    <3> QED
      BY <1>1, <3>1 DEF ObjOK, FlagsOK, RunOK, Kept, Deliberate, w
  <2> QED
    BY <2>1, <2>2 DEF Finishes, Ends, w
<1>5. CASE \E r \in RetryValues : set_retry(d, r)
  <2>1. PICK r \in RetryValues : set_retry(d, r)
    BY <1>5
  <2> DEFINE v == [w EXCEPT !.retry = r]
  <2>2. Return(d, v, wdev_cur)
    BY <2>1 DEF set_retry
  <2> HIDE DEF w
  <2>3. v \in WDev /\ ObjOK(d, v, wdev_cur, applied[d]) /\ Kept(w, v)
    <3>1. /\ v \in WDev /\ v.state = w.state /\ v.autostart = w.autostart
          /\ v.delete = w.delete /\ v.cancel_setup = w.cancel_setup
          /\ v.procs = w.procs /\ v.data = w.data /\ v.seen = w.seen
          /\ v.config_change = w.config_change
          /\ v.handler_config = w.handler_config
          /\ v.retry_setup_failed = w.retry_setup_failed
          /\ v.ifname = w.ifname
      BY <1>1, ConstantsAssumption DEF WDev
    <3> HIDE DEF v
    <3> QED
      BY <3>1 DEF ObjOK, FlagsOK, RunOK, Kept, Deliberate, w
  <2> QED
    BY <2>2, <2>3 DEF Finishes, Ends, w
<1> QED
  BY <1>3, <1>4, <1>5

-----------------------------------------------------------------------------
(***************************************************************************)
(* The actions.  Every step keeps the promises of all objects, loses no    *)
(* wakeup, drops no link silently and leaves no device down that was not.  *)
(***************************************************************************)
DownInv ==
  \A e \in devices :
    Deliberate(wdev[e]) \/ loop = "init" \/ (loop = "start" /\ e \in todo)

PromiseInv == IInv /\ FlagInv /\ DownInv /\ NoLostWakeup

LinkStep ==
  \A e \in Devices :
    link[e] /\ wdev[e].ifname /\ ~wdev[e].ifname' =>
      \/ ~link[e]'
      \/ wdev[e].state = "up" /\ wdev[e].state' = "setup"

\* What an action does, but for the loop it may be an iteration of.
Keeps ==
  /\ FlagInv'
  /\ NoLostWakeup'
  /\ LinkStep
  /\ \A e \in devices \cap devices' : Deliberate(wdev[e]) => Deliberate(wdev'[e])

\* The invariant gives a method what it may assume.
LEMMA Given ==
  ASSUME NEW d \in Devices, PromiseInv
  PROVE  /\ TypeOK /\ SchedType /\ wdev[d] \in WDev /\ wdev_cur \in Runs
         /\ net \in [Devices -> Nets]
         /\ ObjOK(d, wdev[d], wdev_cur, applied[d])
         /\ Fits(d, wdev[d], wdev_cur)
<1>1. TypeOK /\ SchedType /\ wdev[d] \in WDev /\ wdev_cur \in Runs
      /\ net \in [Devices -> Nets]
  BY TypeSplit DEF PromiseInv, IInv, TypeOK
<1>2. ObjOK(d, wdev[d], wdev_cur, applied[d])
  BY DEF PromiseInv, FlagInv
<1>3. Fits(d, wdev[d], wdev_cur)
  BY DEF PromiseInv, IInv, SchedInv, DevOK, Fits
<1> QED
  BY <1>1, <1>2, <1>3

\* The slot is free for the other devices when d's script ends.
LEMMA FreeSlot ==
  ASSUME NEW d \in Devices, PromiseInv, wdev_cur.dev = d
  PROVE  \A e \in Devices \ {d} : ObjOK(e, wdev[e], NoRun, applied[e])
<1> SUFFICES ASSUME NEW e \in Devices \ {d}
             PROVE  ObjOK(e, wdev[e], NoRun, applied[e])
  OBVIOUS
<1>1. NoRun.dev # e /\ wdev_cur.dev # e
  BY NoRunType, ConstantsAssumption
<1> QED
  BY <1>1, OtherRun DEF PromiseInv, FlagInv

\* A method call that finishes, on an object that stays where it is.
LEMMA CallStep ==
  ASSUME NEW d \in Devices, PromiseInv, Finishes(d, wdev[d], wdev_cur),
         UNCHANGED <<devices, armed, link, applied>>
  PROVE  Keeps
<1>1. SchedType /\ wdev_cur \in Runs /\ wdev \in [Devices -> WDev]
  BY Given DEF TypeOK
<1>2. PICK v \in WDev : /\ Ends(d, v, wdev_cur)
                        /\ ObjOK(d, v, wdev_cur, applied[d])
                        /\ Kept(wdev[d], v)
  BY DEF Finishes
<1>3. \A e \in Devices \ {d} : ObjOK(e, wdev[e], wdev_cur, applied[e])
  BY DEF PromiseInv, FlagInv
<1>4. /\ wdev' = [wdev EXCEPT ![d] = v]
      /\ \A e \in Devices : ObjOK(e, wdev'[e], wdev_cur', applied[e])
      /\ wdev_cur'.dev = None =>
           wdev_cur.dev = None /\ UNCHANGED <<wdev_handler, announced>>
  BY <1>1, <1>2, <1>3, EndsOK
<1>5. wdev'[d] = v /\ \A e \in Devices \ {d} : wdev'[e] = wdev[e]
  BY <1>1, <1>4
<1>6. FlagInv'
  BY <1>4 DEF FlagInv
<1>7. NoLostWakeup'
  BY <1>4 DEF PromiseInv, NoLostWakeup, Pending
<1>8. LinkStep
  BY <1>2, <1>5 DEF LinkStep, Kept
<1>9. \A e \in devices \cap devices' : Deliberate(wdev[e]) => Deliberate(wdev'[e])
  <2>1. devices \subseteq Devices
    BY Given DEF TypeOK
  <2> QED
    BY <1>2, <1>5, <2>1 DEF Kept
<1> QED
  BY <1>6, <1>7, <1>8, <1>9 DEF Keeps

\* The objects, the run and the queue are left alone.
LEMMA QuietKeeps ==
  ASSUME PromiseInv,
         UNCHANGED <<devices, wdev, wdev_cur, wdev_handler, announced, armed,
                     applied>>
  PROVE  Keeps
<1>1. FlagInv'
  BY DEF PromiseInv, FlagInv
<1>2. NoLostWakeup'
  BY DEF PromiseInv, NoLostWakeup, Pending
<1>3. LinkStep
  BY DEF LinkStep
<1> QED
  BY <1>1, <1>2, <1>3 DEF Keeps

\* A device that is absent, or down, is deleted.
LEMMA DeleteKeeps ==
  ASSUME NEW d \in Devices, PromiseInv, delete_wdev(d, wdev_cur),
         wdev[d].state = "down", UNCHANGED <<armed, link, applied>>
  PROVE  Keeps
<1>1. /\ wdev' = [wdev EXCEPT ![d] = NoWdev] /\ wdev_cur' = wdev_cur
      /\ UNCHANGED <<wdev_handler, announced>> /\ devices' = devices \ {d}
  BY DEF delete_wdev, Return
<1>2. wdev \in [Devices -> WDev] /\ devices \subseteq Devices
  BY Given DEF TypeOK
<1>3. wdev'[d] = NoWdev /\ \A e \in Devices \ {d} : wdev'[e] = wdev[e]
  BY <1>1, <1>2
<1>4. wdev_cur.dev # d /\ ~wdev[d].ifname
  BY Given DEF Fits, ObjOK, FlagsOK
<1>5. FlagInv'
  BY <1>1, <1>3, <1>4, NoWdevOK DEF PromiseInv, FlagInv
<1>6. NoLostWakeup'
  BY <1>1 DEF PromiseInv, NoLostWakeup, Pending
<1>7. LinkStep
  BY <1>3, <1>4 DEF LinkStep
<1> QED
  BY <1>1, <1>2, <1>3, <1>5, <1>6, <1>7 DEF Keeps

\* A new object: its configuration is in handler_config, and the timer runs.
LEMMA NewKeeps ==
  ASSUME NEW d \in Devices, NEW data \in Datas, PromiseInv,
         new(d, data, wdev_cur), d \notin devices, armed' = TRUE,
         UNCHANGED <<link, applied>>
  PROVE  Keeps
<1> DEFINE n == [NoWdev EXCEPT !.autostart = TRUE, !.data = data]
           u == wdev_update_disabled_vifs(d, n)
           i == wdev_config_init(u)
<1>1. wdev[d].state = "down" /\ wdev_cur.dev # d
  BY Given DEF PromiseInv, IInv, AbsentInv, Fits
<1>2. n \in WDev /\ n.state = "down"
  BY NoRunType DEF NoWdev, WDev
<1>3. /\ n.delete = FALSE /\ n.cancel_setup = FALSE /\ n.procs = FALSE
      /\ n.ifname = FALSE
  BY DEF NoWdev
<1> HIDE DEF n
<1>4. u \in WDev /\ u.state = "down" /\ u.delete = FALSE
      /\ u.cancel_setup = FALSE /\ u.procs = FALSE
  BY <1>2, <1>3, Given, HelpersOK DEF wdev_update_disabled_vifs, WDev
<1> HIDE DEF u
<1>5. /\ i \in WDev /\ i.state = "down" /\ ~i.ifname
      /\ i.handler_config = <<i.data, i.seen>>
      /\ i.delete = FALSE /\ i.cancel_setup = FALSE /\ i.procs = FALSE
  BY <1>4, InitFields DEF wdev_config_init, WDev
<1>6. Return(d, i, wdev_cur) /\ devices' = devices \cup {d}
  BY DEF new, i, u, n
<1> HIDE DEF i
<1>7. ObjOK(d, i, wdev_cur, applied[d])
  BY <1>1, <1>5 DEF ObjOK, FlagsOK, RunOK
<1>8. wdev \in [Devices -> WDev] /\ devices \subseteq Devices
  BY Given DEF TypeOK
<1>9. /\ wdev' = [wdev EXCEPT ![d] = i] /\ wdev_cur' = wdev_cur
      /\ wdev'[d] = i /\ \A e \in Devices \ {d} : wdev'[e] = wdev[e]
  BY <1>6, <1>8 DEF Return
<1>10. FlagInv'
  BY <1>7, <1>9 DEF PromiseInv, FlagInv
<1>11. LinkStep
  <2>1. ~wdev[d].ifname
    BY <1>1, Given DEF ObjOK, FlagsOK
  <2> QED
    BY <1>9, <2>1 DEF LinkStep
<1>12. NoLostWakeup'
  BY DEF NoLostWakeup
<1> QED
  BY <1>8, <1>9, <1>10, <1>11, <1>12 DEF Keeps

\* A step that is not an iteration of a loop.
LEMMA SameLoop ==
  ASSUME PromiseInv, Keeps, UNCHANGED <<loop, todo>>, devices' \subseteq devices
  PROVE  DownInv'
BY DEF PromiseInv, DownInv, Keeps

\* A step outside of all loops, which may enter one.
LEMMA LeaveIdle ==
  ASSUME PromiseInv, Keeps, Idle, devices' \subseteq devices
  PROVE  DownInv'
BY DEF PromiseInv, DownInv, Keeps, Idle

\* One iteration of config_init.
LEMMA UpdateConfigKeeps ==
  ASSUME NEW d \in Devices, NEW data \in Datas \cup {None}, PromiseInv,
         update_config(d, data)
  PROVE  Keeps /\ DownInv'
<1>1. /\ loop = "init" /\ UNCHANGED <<link, applied>>
      /\ Iterate("init", todo \ {d}, devices')
  BY DEF update_config
<1>2. Keeps
  <2>1. CASE d \in devices /\ data = None
    <3>1. destroy(d, wdev[d], wdev_cur) /\ armed' = armed
      BY <2>1 DEF update_config
    <3>2. CASE wdev[d].state = "down"
      BY <1>1, <3>1, <3>2, DeleteKeeps DEF destroy
    <3>3. CASE wdev[d].state # "down"
      <4>1. Finishes(d, wdev[d], wdev_cur)
        BY <3>1, <3>3, Given, DestroyEnds
      <4>2. devices' = devices
        BY <3>1, <3>3 DEF destroy
      <4> QED
        BY <1>1, <3>1, <4>1, <4>2, CallStep
    <3> QED
      BY <3>2, <3>3
  <2>2. CASE d \in devices /\ data # None
    <3>1. /\ update(d, wdev[d], data, wdev_cur)
          /\ UNCHANGED <<devices, armed>>
      BY <2>2 DEF update_config
    <3>2. Finishes(d, wdev[d], wdev_cur)
      BY <3>1, Given, UpdateEnds
    <3> QED
      BY <1>1, <3>1, <3>2, CallStep
  <2>3. CASE d \notin devices /\ data # None
    <3>1. new(d, data, wdev_cur) /\ armed' = TRUE /\ data \in Datas
      BY <2>3 DEF update_config
    <3> QED
      BY <1>1, <2>3, <3>1, NewKeeps
  <2>4. CASE d \notin devices /\ data = None
    BY <1>1, <2>4, QuietKeeps DEF update_config, sched
  <2> QED
    BY <2>1, <2>2, <2>3, <2>4
<1>3. DownInv'
  BY <1>1 DEF Iterate, DownInv
<1> QED
  BY <1>2, <1>3

\* One iteration of config_start.
LEMMA ConfigStartKeeps ==
  ASSUME NEW d \in Devices, PromiseInv, config_start(d)
  PROVE  Keeps /\ DownInv'
<1>1. /\ loop = "start" /\ d \in todo
      /\ Iterate("start", todo \ {d}, devices)
      /\ UNCHANGED <<devices, armed, link, applied>>
  BY DEF config_start
<1>2. Keeps /\ (d \in devices => Deliberate(wdev'[d]))
  <2>1. CASE d \in devices /\ wdev[d].autostart
    <3>1. start(d, wdev[d], wdev_cur)
      BY <2>1 DEF config_start
    <3>2. PICK v \in WDev : /\ Ends(d, v, wdev_cur)
                            /\ ObjOK(d, v, wdev_cur, applied[d])
                            /\ Kept(wdev[d], v) /\ Deliberate(v)
      BY <3>1, Given, StartEnds
    <3>3. wdev' = [wdev EXCEPT ![d] = v]
      BY <3>2 DEF Ends, Return, run_handler
    <3>4. wdev'[d] = v
      BY <3>3, Given DEF TypeOK
    <3>5. Keeps
      BY <1>1, <3>2, CallStep DEF Finishes
    <3> QED
      BY <3>2, <3>4, <3>5
  <2>2. CASE ~(d \in devices /\ wdev[d].autostart)
    <3>1. UNCHANGED <<wdev, sched>>
      BY <2>2 DEF config_start
    <3> QED
      BY <1>1, <2>2, <3>1, QuietKeeps DEF sched, Deliberate
  <2> QED
    BY <2>1, <2>2
<1>3. /\ todo \ {d} # {} => loop' = "start" /\ todo' = todo \ {d}
      /\ todo \ {d} = {} => loop' = "idle"
  BY <1>1 DEF Iterate
<1>4. \A e \in devices : Deliberate(wdev'[e]) \/ e \in todo \ {d}
  BY <1>1, <1>2 DEF PromiseInv, DownInv, Keeps
<1>5. DownInv'
  BY <1>1, <1>3, <1>4 DEF DownInv
<1> QED
  BY <1>2, <1>5

\* One iteration of check_interfaces.
LEMMA CheckInterfacesKeeps ==
  ASSUME NEW d \in Devices, PromiseInv, check_interfaces(d)
  PROVE  Keeps /\ DownInv'
<1>1. loop = "check" /\ UNCHANGED <<devices, armed, link, applied>>
  BY DEF check_interfaces
<1>2. Keeps
  <2>1. CASE d \in devices /\ wdev[d].autostart
    <3>1. check(d, wdev[d], wdev_cur)
      BY <2>1 DEF check_interfaces
    <3>2. Finishes(d, wdev[d], wdev_cur)
      BY <3>1, Given, CheckEnds DEF ObjOK, RunOK
    <3> QED
      BY <1>1, <3>2, CallStep
  <2>2. CASE ~(d \in devices /\ wdev[d].autostart)
    BY <1>1, <2>2, QuietKeeps DEF check_interfaces, sched
  <2> QED
    BY <2>1, <2>2
<1>3. DownInv'
  BY <1>1, <1>2 DEF PromiseInv, DownInv, Keeps
<1> QED
  BY <1>2, <1>3

\* The ubus methods.
LEMMA UbusKeeps ==
  ASSUME NEW d \in Devices, PromiseInv, ubus_call(d)
  PROVE  Keeps /\ DownInv'
<1>1. UNCHANGED <<devices, armed, link, applied, loop, todo>>
  BY DEF ubus_call
<1>2. None \in Datas \cup {None}
  OBVIOUS
<1>3. \/ start(d, wdev[d], wdev_cur)
      \/ stop(d, wdev[d], wdev_cur)
      \/ Return(d, wdev[d], wdev_cur)
      \/ update(d, wdev[d], None, wdev_cur)
  BY DEF ubus_call, retry_setup
<1>4. Finishes(d, wdev[d], wdev_cur)
  <2>1. CASE start(d, wdev[d], wdev_cur)
    BY <2>1, Given, StartEnds DEF Finishes
  <2>2. CASE stop(d, wdev[d], wdev_cur)
    BY <2>2, Given, StopEnds DEF ObjOK, FlagsOK
  <2>3. CASE Return(d, wdev[d], wdev_cur)
    BY <2>3, Given, ReturnFinishes
  <2>4. CASE update(d, wdev[d], None, wdev_cur)
    BY <1>2, <2>4, Given, UpdateEnds
  <2> QED
    BY <1>3, <2>1, <2>2, <2>3, <2>4
<1>5. Keeps
  BY <1>1, <1>4, CallStep
<1> QED
  BY <1>1, <1>5, SameLoop

\* The notifications other than UP, and the monitor of processes.
LEMMA NotifyKeeps ==
  ASSUME NEW d \in Devices, PromiseInv,
         \/ wdev_set_data(d) \/ wdev_proc_add(d)
         \/ \E r \in RetryValues : set_retry(d, r)
         \/ wdev_proc_check(d)
  PROVE  Keeps /\ DownInv'
<1>1. UNCHANGED <<devices, armed, link, applied, loop, todo>>
  BY DEF wdev_set_data, wdev_proc_add, set_retry, Notifies, wdev_proc_check
<1>2. Finishes(d, wdev[d], wdev_cur)
  <2>1. CASE wdev_proc_check(d)
    <3>1. teardown(d, wdev[d], wdev_cur) /\ wdev[d].procs
      BY <2>1 DEF wdev_proc_check
    <3>2. PICK v \in WDev : /\ Ends(d, v, wdev_cur)
                            /\ ObjOK(d, v, wdev_cur, applied[d])
                            /\ v.state = "teardown"
                            /\ v.ifname = wdev[d].ifname
      BY <3>1, Given, TeardownEnds DEF ObjOK, FlagsOK, RunOK
    <3> QED
      BY <3>2 DEF Finishes, Kept, Deliberate
  <2>2. CASE ~wdev_proc_check(d)
    BY <2>2, Given, NotifyEnds
  <2> QED
    BY <2>1, <2>2
<1>3. Keeps
  BY <1>1, <1>2, CallStep
<1> QED
  BY <1>1, <1>3, SameLoop

\* NOTIFY_CMD_UP: what comes up is the configuration of the script's argv,
\* which is the latest unless a change is noted.
LEMMA MarkUpKeeps ==
  ASSUME NEW d \in Devices, PromiseInv, wdev_mark_up(d)
  PROVE  Keeps /\ DownInv'
<1> DEFINE w == wdev[d]
           c == [wdev_cur EXCEPT !.up = TRUE]
<1>1. /\ wdev_cur.dev = d /\ wdev_cur.op = "setup" /\ ~wdev_cur.up
      /\ UNCHANGED <<devices, armed, loop, todo>>
  BY DEF wdev_mark_up, Notifies
<1>2. /\ w \in WDev /\ ObjOK(d, w, wdev_cur, applied[d]) /\ w.state # "down"
      /\ wdev \in [Devices -> WDev] /\ SchedType /\ wdev_cur \in Runs
      /\ devices \subseteq Devices /\ link \in [Devices -> BOOLEAN]
      /\ applied \in [Devices -> Configs]
  BY <1>1, Given DEF Fits, TypeOK
<1>3. c \in Runs /\ c.dev = d /\ c.op = "setup" /\ c.up /\ c.cfg = wdev_cur.cfg
  BY <1>1, <1>2 DEF Runs
<1>4. d # None
  BY ConstantsAssumption
<1> HIDE DEF c
<1>5. \A e \in Devices \ {d} : ObjOK(e, wdev[e], c, applied[e])
  <2> SUFFICES ASSUME NEW e \in Devices \ {d} PROVE ObjOK(e, wdev[e], c, applied[e])
    OBVIOUS
  <2>1. c.dev # e /\ wdev_cur.dev # e /\ ObjOK(e, wdev[e], wdev_cur, applied[e])
    BY <1>1, <1>3 DEF PromiseInv, FlagInv
  <2> QED
    BY <2>1, OtherRun
<1>6. CASE w.state # "setup"
  <2>1. Return(d, w, c) /\ UNCHANGED <<link, applied>>
    BY <1>6 DEF wdev_mark_up, c
  <2>2. ObjOK(d, w, c, applied[d])
    BY <1>2, <1>3, <1>6 DEF ObjOK, RunOK
  <2>3. wdev' = wdev /\ wdev_cur' = c
    <3>1. wdev' = [wdev EXCEPT ![d] = wdev[d]] /\ wdev_cur' = c
      BY <2>1 DEF Return
    <3> QED
      BY <1>2, <3>1
  <2>4. FlagInv'
    BY <1>5, <2>1, <2>2, <2>3 DEF FlagInv
  <2>5. NoLostWakeup'
    BY <1>3, <1>4, <2>3 DEF NoLostWakeup
  <2>6. Keeps
    BY <2>3, <2>4, <2>5 DEF Keeps, LinkStep
  <2> QED
    BY <1>1, <2>6, SameLoop
<1>7. CASE w.state = "setup" /\ (w.cancel_setup \/ ~w.autostart \/ w.delete)
  <2>1. teardown(d, w, c) /\ UNCHANGED <<link, applied>>
    BY <1>7 DEF wdev_mark_up, c
  <2>2. PICK v \in WDev : /\ Ends(d, v, c) /\ ObjOK(d, v, c, applied[d])
                          /\ v.state = "teardown" /\ v.ifname = w.ifname
    <3>1. w.state \in {"setup", "up"}
      BY <1>7
    <3>2. /\ w.delete => ~w.autostart
          /\ ~w.config_change => w.handler_config = <<w.data, w.seen>>
      BY <1>2 DEF ObjOK, FlagsOK
    <3>3. ~(c.dev = d /\ c.op = "setup" /\ ~c.up /\ ~w.config_change)
      BY <1>3
    <3>4. w \in WDev /\ teardown(d, w, c)
      BY <1>2, <2>1
    <3> HIDE DEF w
    <3> QED
      BY <3>1, <3>2, <3>3, <3>4, TeardownEnds
  <2>3. /\ wdev' = [wdev EXCEPT ![d] = v]
        /\ \A e \in Devices : ObjOK(e, wdev'[e], wdev_cur', applied[e])
        /\ wdev_cur'.dev = None => c.dev = None
    BY <1>2, <1>3, <1>5, <2>2, EndsOK
  <2>4. wdev'[d] = v /\ \A e \in Devices \ {d} : wdev'[e] = wdev[e]
    BY <1>2, <2>3
  <2>5. FlagInv'
    BY <2>1, <2>3 DEF FlagInv
  <2>6. NoLostWakeup'
    BY <1>3, <1>4, <2>3 DEF NoLostWakeup
  <2>7. LinkStep
    BY <2>2, <2>4 DEF LinkStep
  <2>8. Keeps
    BY <1>2, <2>2, <2>4, <2>5, <2>6, <2>7 DEF Keeps, Deliberate
  <2> QED
    BY <1>1, <2>8, SameLoop
<1>8. CASE w.state = "setup" /\ ~(w.cancel_setup \/ ~w.autostart \/ w.delete)
  <2> DEFINE r == wdev_reset(w)
             u == [r EXCEPT !.state = "up"]
  <2>1. /\ Return(d, u, c)
        /\ applied' = [applied EXCEPT ![d] = wdev_cur.cfg]
    BY <1>8 DEF wdev_mark_up, c
  <2>2. /\ r \in WDev /\ r.autostart = w.autostart
        /\ ~r.retry_setup_failed /\ r.ifname = w.ifname
        /\ r.delete = w.delete /\ r.cancel_setup = w.cancel_setup
        /\ r.procs = w.procs /\ r.data = w.data /\ r.seen = w.seen
        /\ r.config_change = w.config_change
        /\ r.handler_config = w.handler_config
    BY <1>2, ResetFields
  <2> HIDE DEF r
  <2>3. /\ u \in WDev /\ u.state = "up" /\ u.autostart = r.autostart
        /\ u.retry_setup_failed = r.retry_setup_failed /\ u.ifname = r.ifname
        /\ u.delete = r.delete /\ u.cancel_setup = r.cancel_setup
        /\ u.procs = r.procs /\ u.data = r.data /\ u.seen = r.seen
        /\ u.config_change = r.config_change
        /\ u.handler_config = r.handler_config
    BY <2>2 DEF WDev
  <2> HIDE DEF u
  <2>4. ObjOK(d, u, c, wdev_cur.cfg)
    <3>1. FlagsOK(u)
      BY <1>2, <1>8, <2>2, <2>3 DEF ObjOK, FlagsOK
    <3>2. RunOK(d, u, c, wdev_cur.cfg)
      BY <1>1, <1>2, <1>3, <1>8, <2>2, <2>3 DEF ObjOK, RunOK
    <3> QED
      BY <3>1, <3>2 DEF ObjOK
  <2>5. /\ wdev'[d] = u /\ \A e \in Devices \ {d} : wdev'[e] = wdev[e]
        /\ applied'[d] = wdev_cur.cfg
        /\ \A e \in Devices \ {d} : applied'[e] = applied[e]
        /\ wdev_cur' = c
    BY <1>2, <2>1 DEF Return
  <2>6. FlagInv'
    <3> SUFFICES ASSUME NEW e \in Devices
                 PROVE  ObjOK(e, wdev'[e], wdev_cur', applied'[e])
      BY DEF FlagInv
    <3>1. CASE e = d
      BY <2>4, <2>5, <3>1
    <3>2. CASE e # d
      BY <1>5, <2>5, <3>2
    <3> QED
      BY <3>1, <3>2
  <2>7. NoLostWakeup'
    BY <1>3, <1>4, <2>5 DEF NoLostWakeup
  <2>8. LinkStep
    BY <2>2, <2>3, <2>5 DEF LinkStep
  <2>9. Keeps
    BY <1>2, <2>3, <2>5, <2>6, <2>7, <2>8 DEF Keeps, Deliberate
  <2> QED
    BY <1>1, <2>9, SameLoop
<1> QED
  BY <1>6, <1>7, <1>8

\* The script ends: d's callback finds the slot free.
LEMMA ScriptEndKeeps ==
  ASSUME NEW d \in Devices, PromiseInv, run_handler_cb(d)
  PROVE  Keeps /\ DownInv'
<1> DEFINE w == wdev[d]
<1>1. wdev_cur.dev = d /\ armed' = TRUE /\ UNCHANGED <<applied, loop, todo>>
  BY DEF run_handler_cb
<1>2. /\ w \in WDev /\ ObjOK(d, w, wdev_cur, applied[d]) /\ w.state # "down"
      /\ wdev \in [Devices -> WDev] /\ SchedType
      /\ devices \subseteq Devices /\ link \in [Devices -> BOOLEAN]
  BY <1>1, Given DEF Fits, TypeOK
<1>3. NoRun \in Runs /\ NoRun.dev # d
  BY NoRunType, ConstantsAssumption
<1>4. \A e \in Devices \ {d} : ObjOK(e, wdev[e], NoRun, applied[e])
  BY <1>1, FreeSlot
<1>5. NoLostWakeup'
  BY <1>1 DEF NoLostWakeup
<1>6. \A v \in WDev : Ends(d, v, NoRun) /\ ObjOK(d, v, NoRun, applied[d]) =>
        /\ FlagInv'
        /\ wdev'[d] = v /\ \A e \in Devices \ {d} : wdev'[e] = wdev[e]
  <2> SUFFICES ASSUME NEW v \in WDev, Ends(d, v, NoRun),
                      ObjOK(d, v, NoRun, applied[d])
               PROVE  /\ FlagInv'
                      /\ wdev'[d] = v
                      /\ \A e \in Devices \ {d} : wdev'[e] = wdev[e]
    OBVIOUS
  <2>1. /\ wdev' = [wdev EXCEPT ![d] = v]
        /\ \A e \in Devices : ObjOK(e, wdev'[e], wdev_cur', applied[e])
    BY <1>2, <1>3, <1>4, EndsOK
  <2>2. FlagInv'
    BY <1>1, <2>1 DEF FlagInv
  <2> QED
    BY <1>2, <2>1, <2>2
<1>7. CASE wdev_cur.op = "setup"
  <2>1. wdev_setup_cb(d, w, NoRun) /\ UNCHANGED <<devices, link>>
    BY <1>7 DEF run_handler_cb
  <2>2. PICK v \in WDev : /\ Ends(d, v, NoRun)
                          /\ ObjOK(d, v, NoRun, applied[d]) /\ Kept(w, v)
    BY <1>1, <1>2, <2>1, SetupCbEnds DEF Finishes
  <2>3. /\ FlagInv'
        /\ wdev'[d] = v /\ \A e \in Devices \ {d} : wdev'[e] = wdev[e]
    BY <1>6, <2>2
  <2>4. LinkStep
    BY <2>2, <2>3 DEF LinkStep, Kept
  <2>5. Keeps
    BY <1>2, <1>5, <2>2, <2>3, <2>4 DEF Keeps, Kept
  <2> QED
    BY <1>1, <2>1, <2>5, SameLoop
<1>8. CASE wdev_cur.op # "setup"
  <2>1. w.state = "teardown"
    BY <1>1, <1>8 DEF PromiseInv, IInv, SchedInv, DevOK
  <2>2. wdev_teardown_cb(d, w, NoRun) /\ handle_link(d, w, FALSE)
    BY <1>8 DEF run_handler_cb
  <2>3. PICK v \in WDev : /\ Ends(d, v, NoRun)
                          /\ ObjOK(d, v, NoRun, applied[d])
                          /\ d \in devices' => Deliberate(v)
    <3>1. CASE w.delete
      <4>1. Return(d, NoWdev, NoRun) /\ devices' = devices \ {d}
        BY <2>2, <3>1 DEF wdev_teardown_cb, delete_wdev
      <4> QED
        BY <1>3, <4>1, NoWdevOK DEF Ends
    <3>2. CASE ~w.delete
      BY <1>2, <2>1, <2>2, <3>2, TeardownCbEnds DEF ObjOK
    <3> QED
      BY <3>1, <3>2
  <2>4. /\ FlagInv'
        /\ wdev'[d] = v /\ \A e \in Devices \ {d} : wdev'[e] = wdev[e]
    BY <1>6, <2>3
  <2>5. LinkStep
    <3>1. w.ifname => ~link'[d]
      BY <1>2, <2>2 DEF handle_link
    <3> QED
      BY <2>4, <3>1 DEF LinkStep
  <2>6. devices' \subseteq devices
    BY <2>2 DEF wdev_teardown_cb, delete_wdev
  <2>7. Keeps
    BY <1>2, <1>5, <2>3, <2>4, <2>5 DEF Keeps
  <2> QED
    BY <1>1, <2>6, <2>7, SameLoop
<1> QED
  BY <1>7, <1>8

\* handler_timer expires.
LEMMA TimerKeeps ==
  ASSUME PromiseInv, run_next_handler
  PROVE  Keeps /\ DownInv'
<1>1. UNCHANGED <<devices, wdev, link, applied, loop, todo>>
  BY DEF run_next_handler
<1>2. LinkStep
  BY <1>1 DEF LinkStep
<1>3. FlagInv' /\ NoLostWakeup'
  <2>1. CASE wdev_cur.dev # None
    <3>1. UNCHANGED sched
      BY <2>1 DEF run_next_handler
    <3> QED
      BY <1>1, <2>1, <3>1 DEF PromiseInv, FlagInv, NoLostWakeup, sched
  <2>2. CASE wdev_cur.dev = None /\ Pending(wdev_handler) # {}
    <3>1. RunNext(wdev, wdev_handler, ahead, fresh)
      BY <2>2 DEF run_next_handler
    <3>2. \A e \in Devices : ObjOK(e, wdev[e], wdev_cur, applied[e])
      BY DEF PromiseInv, FlagInv
    <3>3. /\ \A e \in Devices : ObjOK(e, wdev[e], wdev_cur', applied[e])
          /\ wdev_cur'.dev # None
      BY <2>2, <3>1, <3>2, RunNextFlags
    <3> QED
      BY <1>1, <3>3 DEF FlagInv, NoLostWakeup
  <2>3. CASE wdev_cur.dev = None /\ Pending(wdev_handler) = {}
    <3>1. announced' = TRUE /\ UNCHANGED <<wdev_cur, wdev_handler>>
      BY <2>3 DEF run_next_handler
    <3> QED
      BY <1>1, <2>3, <3>1 DEF PromiseInv, FlagInv, NoLostWakeup, Pending
  <2> QED
    BY <2>1, <2>2, <2>3
<1>4. Keeps
  BY <1>1, <1>2, <1>3 DEF Keeps
<1> QED
  BY <1>1, <1>4, SameLoop

\* The rest: netifd and the kernel, time, and nothing at all.
LEMMA OutsideKeeps ==
  ASSUME PromiseInv,
         \/ config_reload
         \/ \E d \in Devices, n \in Nets : net_change(d, n)
         \/ \E d \in Devices, add \in BOOLEAN : hotplug(d, add)
         \/ Tick
         \/ UNCHANGED vars
  PROVE  Keeps /\ DownInv'
<1>1. UNCHANGED <<devices, wdev, wdev_cur, wdev_handler, announced, armed,
                  applied>>
  BY DEF config_reload, net_change, hotplug, Tick, vars, sched
<1>2. Keeps
  BY <1>1, QuietKeeps
<1>3. CASE config_reload \/ \E d \in Devices, n \in Nets : net_change(d, n)
  <2>1. Idle
    BY <1>3 DEF config_reload, net_change, Event
  <2> QED
    BY <1>1, <1>2, <2>1, LeaveIdle
<1>4. CASE \/ \E d \in Devices, add \in BOOLEAN : hotplug(d, add)
           \/ Tick
           \/ UNCHANGED vars
  <2>1. UNCHANGED <<loop, todo>>
    BY <1>4 DEF hotplug, Tick, vars
  <2> QED
    BY <1>1, <1>2, <2>1, SameLoop
<1> QED
  BY <1>3, <1>4

-----------------------------------------------------------------------------
\* netifd starts without devices.
LEMMA PromiseInit == Init => PromiseInv
<1> SUFFICES ASSUME Init PROVE PromiseInv
  OBVIOUS
<1>1. FlagInv
  <2>1. NoRun.dev = None
    BY NoRunType
  <2> SUFFICES ASSUME NEW e \in Devices
               PROVE  ObjOK(e, wdev[e], wdev_cur, applied[e])
    BY DEF FlagInv
  <2>2. wdev[e] = NoWdev /\ wdev_cur = NoRun
    BY DEF Init
  <2> QED
    BY <2>1, <2>2, NoWdevOK, ConstantsAssumption
<1>2. DownInv /\ NoLostWakeup
  BY DEF Init, DownInv, NoLostWakeup, Pending
<1> QED
  BY <1>1, <1>2, InitOK DEF PromiseInv

\* Every step keeps what Keeps and DownInv say.
LEMMA PromiseStep ==
  ASSUME PromiseInv, [Next]_vars
  PROVE  Keeps /\ DownInv'
<1>1. CASE UNCHANGED vars
  BY <1>1, OutsideKeeps
<1>2. CASE Next
  BY <1>2, OutsideKeeps, UpdateConfigKeeps, ConfigStartKeeps,
     CheckInterfacesKeeps, UbusKeeps, NotifyKeeps, MarkUpKeeps, ScriptEndKeeps,
     TimerKeeps
  DEF Next, LoopStep
<1> QED
  BY <1>1, <1>2

\* The promises of all device objects hold in every state.
THEOREM PromisesKept == Spec => []PromiseInv
<1>1. PromiseInv /\ [Next]_vars => PromiseInv'
  <2> SUFFICES ASSUME PromiseInv, [Next]_vars PROVE PromiseInv'
    OBVIOUS
  <2>1. IInv'
    BY NextOK DEF PromiseInv
  <2> QED
    BY <2>1, PromiseStep DEF PromiseInv, Keeps
<1> QED
  BY PromiseInit, <1>1, PTL DEF Spec

\* A device that was stopped or removed is never left up, for any number of
\* devices and however requests and callbacks interleave.
THEOREM StopAlwaysHonoured == Spec => []StopIsHonoured
<1>1. PromiseInv => StopIsHonoured
  BY DEF PromiseInv, FlagInv, ObjOK, FlagsOK, StopIsHonoured
<1> QED
  BY <1>1, PromisesKept, PTL

\* Once its setup script has ended, a device that is up runs the latest
\* configuration it was given.
THEOREM LatestConfigRuns == Spec => []UpRunsLatestConfig
<1>1. PromiseInv => UpRunsLatestConfig
  BY DEF PromiseInv, FlagInv, ObjOK, RunOK, UpRunsLatestConfig
<1> QED
  BY <1>1, PromisesKept, PTL

\* Only the processes of the current run are monitored.
THEOREM MonitorsBelong == Spec => []MonitorBelongsToRun
<1>1. PromiseInv => MonitorBelongsToRun
  BY DEF PromiseInv, FlagInv, ObjOK, FlagsOK, RunOK, MonitorBelongsToRun, Running
<1> QED
  BY <1>1, PromisesKept, PTL

\* A device that should run is down only when its retries are used up.
THEOREM DownOnlyDeliberately == Spec => []DownIsDeliberate
<1>1. PromiseInv => DownIsDeliberate
  BY DEF PromiseInv, DownInv, Deliberate, DownIsDeliberate
<1> QED
  BY <1>1, PromisesKept, PTL

\* Queued handlers and the completion event always have a timer to wait for.
THEOREM WakeupsNeverLost == Spec => []NoLostWakeup
<1>1. PromiseInv => NoLostWakeup
  BY DEF PromiseInv
<1> QED
  BY <1>1, PromisesKept, PTL

\* A vif whose link is up is forgotten only by a reconfiguration.
THEOREM LinksReportedDown == Spec => LinkForgottenOnlyByReconf
<1>1. PromiseInv /\ [Next]_vars =>
        [\A d \in Devices :
           link[d] /\ wdev[d].ifname /\ ~wdev[d].ifname' =>
             \/ ~link[d]'
             \/ wdev[d].state = "up" /\ wdev[d].state' = "setup"]_vars
  BY PromiseStep DEF Keeps, LinkStep
<1> QED
  BY <1>1, PromisesKept, PTL DEF Spec, LinkForgottenOnlyByReconf

=============================================================================
