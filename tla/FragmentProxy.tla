----------------------------- MODULE FragmentProxy -----------------------------
(***************************************************************************)
(* The fragment proxy: the core of a host without WinDivert.  One thread    *)
(* per client reads its ClientHello, takes one of a few dial slots, and     *)
(* tries the hosts of the carrier's route in turn; where the carrier is     *)
(* unknown, or no host is preferred yet, one client at a time races routes  *)
(* or hosts in helper threads.  A loser of a race is told to stop and left  *)
(* to end by itself, and still records what it finds.                       *)
(*                                                                         *)
(* A dialler is <<c, 0>>, the thread of client c, or <<c, 1>>, <<c, 2>>, the *)
(* helpers of its race.  Trying a host stands for all its strategies: the   *)
(* host answers, or each strategy fails, or, when the first three are raced, *)
(* an OSError of one of them comes out of the race.                         *)
(***************************************************************************)
EXTENDS Integers, FiniteSets, Sequences

CONSTANTS Clients,     \* accepted connections
          CarrierModes, \* the values of tuning.carrier_mode in use
          Races,       \* the values of tuning.initial_race_enabled in use
          Slots,       \* of _dial_slots
          Host,        \* the hosts in use, 1..4 in the code
          NoOne        \* no holder of a lock

\* Hosts are numbered in the order of the long route of irancell; the last two
\* are those of mci.
ASSUME HostAssumption ==
  /\ Host \subseteq 1..4 /\ Host \cap 1..2 # {} /\ Host \cap 3..4 # {}
ASSUME TuningAssumption ==
  CarrierModes \subseteq {"auto", "mci", "irancell"} /\ Races \subseteq BOOLEAN
ASSUME NoOneAssumption == NoOne \notin Clients

Carrier == {"mci", "irancell"}
Dialler == Clients \X (0..2)

VARIABLES
  down,        \* _stop
  mode,        \* tuning.carrier_mode, read by the threads of former lives too
  race,        \* tuning.initial_race_enabled
  prefHost,    \* _preferred_host, 0 is none
  prefCarrier, \* _preferred_carrier, "" is none
  failures,    \* hosts _failed_until keeps out, with the carriers they failed for
  routeLock,   \* holder of _route_discovery_lock
  carrierLock, \* holder of _carrier_discovery_lock
  at,          \* where the thread of a client is
  plan,        \* the routes it has still to try
  learn,       \* its success makes its carrier the preferred one
  dial         \* the diallers: [st, carrier, hosts, first], first is tried first

settings == <<mode, race>>
routes == <<prefHost, prefCarrier, failures>>
fvars == <<down, settings, routes, routeLock, carrierLock, at, plan, learn,
           dial>>

Route(k, from, to) == [carrier |-> k, hosts |-> Host \cap from..to]

\* The mutated form: the automatic mode names a carrier that does not exist.
RoutesMisnamed ==
  CASE mode = "auto" -> <<Route("mci", 3, 4), Route("other", 1, 2)>>
    [] mode = "mci" -> <<Route("mci", 3, 4)>>
    [] mode = "irancell" -> <<Route("irancell", 1, 4)>>

\* _routes
Routes ==
  CASE mode = "auto" -> <<Route("mci", 3, 4), Route("irancell", 1, 2)>>
    [] mode = "mci" -> <<Route("mci", 3, 4)>>
    [] mode = "irancell" -> <<Route("irancell", 1, 4)>>

\* _ordered_hosts: all hosts of the route when every one is cooling down, the
\* healthy ones otherwise; the preferred host, then the others in their order.
Cooling == {h \in Host : \E k \in Carrier : <<h, k>> \in failures}
OrderedHosts(r) ==
  LET k == r.carrier
      healthy == IF r.hosts \subseteq Cooling THEN r.hosts ELSE r.hosts \ Cooling
  IN [st |-> "host", carrier |-> k, hosts |-> healthy,
      first |-> IF prefHost[k] \in healthy THEN prefHost[k] ELSE 0]
Turn(hosts, first) ==
  IF first \in hosts THEN first ELSE CHOOSE h \in hosts : \A g \in hosts : h <= g

Idle == [st |-> "off", carrier |-> "mci", hosts |-> {}, first |-> 0]
Single(k, h) == [st |-> "host", carrier |-> k, hosts |-> {h}, first |-> 0]
InDial == {"auto", "carrier", "route", "host", "racing", "dialling"}

FInit ==
  /\ down = TRUE /\ mode \in CarrierModes /\ race \in Races
  /\ prefHost = [k \in Carrier |-> 0] /\ prefCarrier = "" /\ failures = {}
  /\ routeLock = NoOne /\ carrierLock = NoOne
  /\ at = [c \in Clients |-> "idle"] /\ plan = [c \in Clients |-> <<>>]
  /\ learn = [c \in Clients |-> FALSE]
  /\ dial = [d \in Dialler |-> Idle]

-----------------------------------------------------------------------------
(* start, stop and the life of a client                                      *)

Restart ==      \* start() is stop(), then the new tuning, then the flag is cleared
  /\ down /\ down' = FALSE
  /\ mode' \in CarrierModes /\ race' \in Races
  /\ UNCHANGED <<routes, routeLock, carrierLock, at, plan, learn, dial>>

Halt ==
  /\ ~down /\ down' = TRUE
  /\ UNCHANGED <<settings, routes, routeLock, carrierLock, at, plan, learn, dial>>

Move(c, from, to) == at[c] = from /\ at' = [at EXCEPT ![c] = to]

AcceptClient(c) ==
  /\ ~down /\ Move(c, "idle", "reading")
  /\ UNCHANGED <<down, settings, routes, routeLock, carrierLock, plan, learn, dial>>

ReadHello(c) ==     \* the client may send nothing, or leave
  /\ \/ Move(c, "reading", "queued") /\ plan' = [plan EXCEPT ![c] = Routes]
     \/ Move(c, "reading", "closed") /\ UNCHANGED plan
  /\ UNCHANGED <<down, settings, routes, routeLock, carrierLock, learn, dial>>

TakeSlot(c) ==
  /\ Cardinality({d \in Clients : at[d] \in InDial}) < Slots
  /\ Move(c, "queued", IF Len(plan[c]) = 1 THEN "route" ELSE "auto")
  /\ UNCHANGED <<down, settings, routes, routeLock, carrierLock, plan, learn, dial>>

QueueSaturated(c) ==
  /\ Move(c, "queued", "closed") /\ plan' = [plan EXCEPT ![c] = <<>>]
  /\ UNCHANGED <<down, settings, routes, routeLock, carrierLock, learn, dial>>

\* The slot is given back; the first answer may find the client gone.
StartRelay(c) ==
  /\ \E to \in {"relay", "closed"} : Move(c, "won", to)
  /\ UNCHANGED <<down, settings, routes, routeLock, carrierLock, plan, learn, dial>>

EndRelay(c) ==
  /\ Move(c, "relay", "closed")
  /\ UNCHANGED <<down, settings, routes, routeLock, carrierLock, plan, learn, dial>>

-----------------------------------------------------------------------------
(* _connect_auto: which carriers, in which order                             *)

\* The routes of the client, that of the preferred carrier first, or only that one.
Sorted(c) == IF plan[c][1].carrier = prefCarrier THEN plan[c] ELSE <<plan[c][2], plan[c][1]>>
Preferred(c) == <<Sorted(c)[1]>>

PreferredCarrierFirst(c) ==
  /\ prefCarrier # "" /\ Move(c, "auto", "route")
  /\ plan' = [plan EXCEPT ![c] = Sorted(c)] /\ learn' = [learn EXCEPT ![c] = TRUE]
  /\ UNCHANGED <<down, settings, routes, routeLock, carrierLock, dial>>

AskCarrierLock(c) ==
  /\ prefCarrier = "" /\ Move(c, "auto", "carrier")
  /\ UNCHANGED <<down, settings, routes, routeLock, carrierLock, plan, learn, dial>>

StartRace(c, diallings) ==
  /\ Move(c, at[c], "racing")
  /\ dial' = [d \in Dialler |-> IF d \in {<<c, 1>>, <<c, 2>>} THEN diallings[d[2]] ELSE dial[d]]

\* The mutated form: the lock is not asked for.
TakeCarrierLockShared(c) ==
  /\ at[c] = "carrier"
  /\ carrierLock' = c
  /\ \/ /\ prefCarrier # "" /\ Move(c, "carrier", "route")
        /\ plan' = [plan EXCEPT ![c] = Preferred(c)]
        /\ UNCHANGED dial
     \/ /\ prefCarrier = ""
        /\ StartRace(c, [i \in 1..2 |-> OrderedHosts(plan[c][i])])
        /\ UNCHANGED plan
  /\ UNCHANGED <<down, settings, routes, routeLock, learn>>

\* With the lock, a client that finds a preferred carrier keeps it while it dials.
TakeCarrierLock(c) ==
  /\ at[c] = "carrier" /\ carrierLock = NoOne
  /\ carrierLock' = c
  /\ \/ /\ prefCarrier # "" /\ Move(c, "carrier", "route")
        /\ plan' = [plan EXCEPT ![c] = Preferred(c)]
        /\ UNCHANGED dial
     \/ /\ prefCarrier = ""
        /\ StartRace(c, [i \in 1..2 |-> OrderedHosts(plan[c][i])])
        /\ UNCHANGED plan
  /\ UNCHANGED <<down, settings, routes, routeLock, learn>>

CarrierLockTimeout(c) ==
  /\ carrierLock # NoOne
  /\ Move(c, "carrier", IF prefCarrier # "" THEN "route" ELSE "closed")
  /\ plan' = [plan EXCEPT ![c] = IF prefCarrier # "" THEN Preferred(c) ELSE <<>>]
  /\ UNCHANGED <<down, settings, routes, routeLock, carrierLock, learn, dial>>

-----------------------------------------------------------------------------
(* _connect_route: the hosts of one carrier                                  *)

Main(c) == <<c, 0>>

ConnectRoute(c) ==
  LET r == Head(plan[c])
  IN /\ Move(c, "route", IF /\ r.carrier = "irancell" /\ mode = "irancell"
                            /\ race /\ prefHost[r.carrier] = 0
                         THEN "host" ELSE "dialling")
     /\ dial' = [dial EXCEPT ![Main(c)] = OrderedHosts(r)]
     /\ UNCHANGED <<down, settings, routes, routeLock, carrierLock, plan, learn>>

\* The first two hosts are raced, or with one host only that one.
TakeRouteLock(c) ==
  LET r == Head(plan[c])
      d == dial[Main(c)]
      h == Turn(d.hosts, d.first)
      others == d.hosts \ {h}
  IN /\ at[c] = "host" /\ routeLock = NoOne
     /\ \/ /\ prefHost[r.carrier] = 0 /\ routeLock' = c
           /\ StartRace(c, <<Single(d.carrier, h),
                IF others = {} THEN Idle ELSE Single(d.carrier, Turn(others, d.first))>>)
        \/ /\ prefHost[r.carrier] # 0 /\ UNCHANGED routeLock
           /\ Move(c, "host", "dialling")
           /\ dial' = [dial EXCEPT ![Main(c)] = OrderedHosts(r)]
     /\ UNCHANGED <<down, settings, routes, carrierLock, plan, learn>>

RouteLockTimeout(c) ==
  /\ routeLock # NoOne /\ Move(c, "host", "dialling")
  /\ UNCHANGED <<down, settings, routes, routeLock, carrierLock, plan, learn, dial>>

GiveBack(lock, c) == IF lock = c THEN NoOne ELSE lock
Release(c) == routeLock' = GiveBack(routeLock, c) /\ carrierLock' = GiveBack(carrierLock, c)

\* The thread's own dialler has come to an end.
DialDone(c) ==
  LET d == dial[Main(c)]
      more == d.st = "none" /\ Len(plan[c]) > 1
  IN /\ d.st \in {"won", "none", "raised"}
     /\ Move(c, "dialling",
             CASE d.st = "won" -> "won" [] more -> "route" [] OTHER -> "closed")
     /\ prefCarrier' = IF d.st = "won" /\ learn[c] THEN d.carrier ELSE prefCarrier
     /\ plan' = [plan EXCEPT ![c] = IF more THEN Tail(@) ELSE <<>>]
     /\ learn' = [learn EXCEPT ![c] = @ /\ more]
     /\ dial' = [dial EXCEPT ![Main(c)] = Idle]
     /\ IF more THEN UNCHANGED <<routeLock, carrierLock>> ELSE Release(c)
     /\ UNCHANGED <<down, settings, prefHost, failures>>

-----------------------------------------------------------------------------
(* A race, by hosts under _route_discovery_lock or by carriers under the     *)
(* other: the results of the helpers are taken as they complete.             *)

Helpers(c) == {<<c, 1>>, <<c, 2>>}
Done(d) == dial[d].st \in {"won", "none", "raised"}
Forget(c) == [d \in Dialler |-> IF d \in Helpers(c) /\ Done(d) THEN Idle ELSE dial[d]]

Given(c) ==        \* the thread is done with its route
  /\ dial' = [Forget(c) EXCEPT ![Main(c)] = Idle]
  /\ plan' = [plan EXCEPT ![c] = <<>>]

\* After a race of hosts the route goes on host by host; that of the carriers
\* gives up.  A change of the mode can set the holder of the carrier lock to
\* race its hosts too: who holds the route lock races hosts.
NoWinner(c) ==
  /\ \/ /\ routeLock = c /\ routeLock' = NoOne
        /\ Move(c, "racing", "dialling")
        /\ dial' = [Forget(c) EXCEPT ![Main(c)] = OrderedHosts(Head(plan[c]))]
        /\ UNCHANGED <<carrierLock, plan>>
     \/ /\ routeLock # c /\ Release(c)
        /\ Move(c, "racing", "closed") /\ Given(c)
  /\ UNCHANGED <<down, settings, routes, learn>>

RaceWon(c) ==
  /\ \E d \in Helpers(c) :
       /\ dial[d].st = "won"
       /\ prefCarrier' = IF routeLock # c \/ learn[c] THEN dial[d].carrier ELSE prefCarrier
  /\ Move(c, "racing", "won") /\ Release(c)
  /\ Given(c) /\ learn' = [learn EXCEPT ![c] = FALSE]
  /\ UNCHANGED <<down, settings, prefHost, failures>>

RaceRaised(c) ==   \* future.result() raises what the helper raised
  /\ \E d \in Helpers(c) : dial[d].st = "raised"
  /\ Move(c, "racing", "closed") /\ Release(c)
  /\ Given(c) /\ learn' = [learn EXCEPT ![c] = FALSE]
  /\ UNCHANGED <<down, settings, routes>>

RaceLost(c) ==     \* every helper came back with nothing
  /\ at[c] = "racing" /\ \A d \in Helpers(c) : dial[d].st \in {"none", "off"}
  /\ NoWinner(c)

RaceTimeout(c) == at[c] = "racing" /\ NoWinner(c)

-----------------------------------------------------------------------------
(* _connect_host, for the head of the dialler's hosts                        *)

Told(d) == d[2] > 0 /\ at[d[1]] # "racing"   \* race_stop is set
Finish(d, st) ==                        \* nobody asks a late helper any more
  dial' = [dial EXCEPT ![d] =
             IF Told(d) THEN Idle ELSE [Idle EXCEPT !.st = st, !.carrier = dial[d].carrier]]
Tried(d) == Turn(dial[d].hosts, dial[d].first)
NextHost(d) ==
  IF dial[d].hosts = {Tried(d)} THEN Finish(d, "none")
  ELSE dial' = [dial EXCEPT ![d].hosts = @ \ {Tried(d)}, ![d].first = 0]
Trying(d) == dial[d].st = "host" /\ (d[2] = 0 => at[d[1]] = "dialling")
Except(h) == failures \ ({h} \X Carrier)

\* A strategy race takes no race_stop: a late helper may still win it.
HostWins(d) ==
  /\ Trying(d) /\ (Told(d) => race)
  /\ prefHost' = [prefHost EXCEPT ![dial[d].carrier] = Tried(d)]
  /\ failures' = Except(Tried(d))
  /\ Finish(d, "won")
  /\ UNCHANGED <<down, settings, prefCarrier, routeLock, carrierLock, at, plan, learn>>

\* The mutated form: the preferred host stays preferred.
HostFailsKept(d) ==
  /\ Trying(d)
  /\ failures' = failures \cup {<<Tried(d), dial[d].carrier>>}
  /\ NextHost(d)
  /\ UNCHANGED <<down, settings, prefHost, prefCarrier, routeLock, carrierLock,
                 at, plan, learn>>

HostFails(d) ==
  LET k == dial[d].carrier
  IN /\ Trying(d)
     /\ failures' = failures \cup {<<Tried(d), k>>}
     /\ prefHost' = [prefHost EXCEPT ![k] = IF @ = Tried(d) THEN 0 ELSE @]
     /\ NextHost(d)
     /\ UNCHANGED <<down, settings, prefCarrier, routeLock, carrierLock, at, plan,
                    learn>>

HostAborts(d) ==
  /\ Trying(d) /\ (down \/ Told(d))
  /\ NextHost(d)
  /\ UNCHANGED <<down, settings, routes, routeLock, carrierLock, at, plan, learn>>

HostRaises(d) ==
  /\ Trying(d) /\ race
  /\ Finish(d, "raised")
  /\ UNCHANGED <<down, settings, routes, routeLock, carrierLock, at, plan, learn>>

CoolDown(h) ==
  /\ h \in Cooling /\ failures' = Except(h)
  /\ UNCHANGED <<down, settings, prefHost, prefCarrier, routeLock, carrierLock, at,
                 plan, learn, dial>>

-----------------------------------------------------------------------------
Thread(c) ==
  \/ ReadHello(c) \/ TakeSlot(c) \/ QueueSaturated(c) \/ StartRelay(c)
  \/ PreferredCarrierFirst(c) \/ AskCarrierLock(c) \/ TakeCarrierLock(c)
  \/ CarrierLockTimeout(c) \/ ConnectRoute(c) \/ TakeRouteLock(c)
  \/ RouteLockTimeout(c) \/ DialDone(c)
  \/ RaceWon(c) \/ RaceRaised(c) \/ RaceLost(c) \/ RaceTimeout(c)
Trial(d) == HostWins(d) \/ HostFails(d) \/ HostAborts(d) \/ HostRaises(d)

FNext ==
  \/ Restart \/ Halt
  \/ \E c \in Clients : AcceptClient(c) \/ Thread(c) \/ EndRelay(c)
  \/ \E d \in Dialler : Trial(d)
  \/ \E h \in Host : CoolDown(h)

FSpec == FInit /\ [][FNext]_fvars

-----------------------------------------------------------------------------
FTypeOK ==
  /\ down \in BOOLEAN /\ mode \in CarrierModes /\ race \in Races
  /\ prefHost \in [Carrier -> Host \cup {0}] /\ prefCarrier \in Carrier \cup {""}
  /\ failures \subseteq Host \X Carrier /\ routeLock \in Clients \cup {NoOne}
  /\ carrierLock \in Clients \cup {NoOne}
  /\ at \in [Clients -> {"idle", "reading", "queued", "won", "relay", "closed"} \cup InDial]
  /\ plan \in [Clients -> Seq([carrier : Carrier, hosts : SUBSET Host])]
  /\ learn \in [Clients -> BOOLEAN]
  /\ dial \in [Dialler -> [st : {"off", "host", "won", "none", "raised"},
                           carrier : Carrier, hosts : SUBSET Host,
                           first : Host \cup {0}]]

\* The host that new clients try first has not failed for its carrier since it
\* answered, although the late helpers of finished races go on recording
\* successes and failures (_host_succeeded, _host_failed).  Only a host that the
\* two carriers share may be preferred and cooling down: it has failed for the
\* other carrier, after a restart in another mode.
PreferredHostHealthy ==
  \A k \in Carrier :
    /\ <<prefHost[k], k>> \notin failures
    /\ prefHost[k] \in Cooling => prefHost[k] \in 3..4

\* Discovery is single flight: one client at a time races carriers and one races
\* hosts, also when a restart changes the mode between them, and a client that
\* has got its route, or has given up, no longer keeps the others waiting.
DiscoveryAlone ==
  /\ {c \in Clients : at[c] = "racing"} \subseteq {routeLock, carrierLock}
  /\ routeLock # NoOne => at[routeLock] = "racing"
  /\ carrierLock # NoOne => at[carrierLock] \in {"racing", "route", "host", "dialling"}
=============================================================================
