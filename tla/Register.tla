------------------------------ MODULE Register ------------------------------
(***************************************************************************)
(* Registration as a whole: the accounts of the account file, their        *)
(* clients, serial registration and network roaming, against registrars    *)
(* that answer or do not, and addresses that come and go.                  *)
(*                                                                         *)
(* vars: x, the state of the program (see Serreg); up, the user agents     *)
(* whose registrar answers with 200; addrs, the addresses of the host;     *)
(* later, the accounts that the user may still create.                     *)
(***************************************************************************)
EXTENDS Netroam, Functions

CONSTANTS Accounts,   \* set of account files: sequences of accounts
          Later,      \* set of sequences of accounts created by command
          Families,   \* addresses the host can have
          Changes,    \* how often a registrar, an address or an account changes
          Interval,   \* netroam polls periodically
          Netlink,    \* netroam hears of changes
          MaxUa,      \* the most user agents there can be
          Fuel        \* bound on the nested calls of one event

VARIABLES x, up, addrs, later, changes

vars == <<x, up, addrs, later, changes>>

\* ua_alloc(): one client per outbound proxy if the account registers.
ua_alloc(a) ==
  [prio |-> a.prio, fb |-> a.fb, afs |-> a.afs, regint |-> TRUE,
   regs |-> [i \in DOMAIN a.afs |-> NoReg]]

\* line_handler() and create_ua(): the account is registered or, when it is a
\* fallback account, checked.
line_handler(y, a) ==
  LET z == [y EXCEPT !.ua = Append(@, ua_alloc(a))]
      u == Len(z.ua)
  IN  IF a.prio = 0 THEN ua_register(z, u) ELSE {ua_fallback(z, u)}

Refuel(y) == IF y.fuel = 0 THEN y ELSE [y EXCEPT !.fuel = Fuel]

\* The accounts are read before serreg is loaded: only their first requests.
Started(accs, as) ==
  LET regs(a) == LET s == {i \in DOMAIN a.afs : a.afs[i] \in as}
                     n == ua_alloc(a).regs
                 IN  CASE a.prio = 0 -> start_register(n, FALSE, s)
                       [] a.prio # 0 /\ a.fb -> start_register(n, TRUE, s)
                       [] a.prio # 0 /\ ~a.fb -> n
  IN  [ua |-> [u \in DOMAIN accs |-> [ua_alloc(accs[u]) EXCEPT !.regs = regs(accs[u])]],
       sr |-> SerregInit, transp |-> as, net |-> NetroamInit(as, Interval),
       refused |-> \E u \in DOMAIN accs : /\ accs[u].prio = 0 \/ accs[u].fb
                                          /\ ~(Range(accs[u].afs) \subseteq as),
       fuel |-> Fuel]

Init ==
  /\ \E accs \in Accounts, as \in SUBSET Families :
       /\ x = Started(accs, as)
       /\ addrs = as
       /\ up \in SUBSET DOMAIN accs
  /\ later \in Later
  /\ changes = 0

\* One of the states that the code can end in.
Becomes(S) == x' \in {Refuel(y) : y \in S}

\* register_handler(): libre reports the answer to a request of client i of u.
Response(u, i, o) ==
  LET a == sipreg_response(x.ua[u].regs[i], o)
      y == [x EXCEPT !.ua[u].regs[i] = register_handler(a, o)]
  IN  /\ x.fuel > 0
      /\ x.ua[u].regs[i].sip \in {"busy", "leaving"}
      /\ (o = "ok") <=> (u \in up /\ x.ua[u].afs[i] \in x.transp)
      /\ Becomes(event_handler(y, RegisterEvent(a, o), u))
      /\ UNCHANGED <<up, addrs, later, changes>>

Restart ==
  /\ x.fuel > 0
  /\ x.sr.tmr
  /\ Becomes(restart(x))
  /\ UNCHANGED <<up, addrs, later, changes>>

\* One poll finds at most one new address and one that is gone; transports can
\* be added for bound.
Poll(y) ==
  LET new  == addrs \ x.net.laddrs
      gone == x.net.laddrs \ addrs
      one(S) == {{a} : a \in S} \cup {T \in {{}} : S = {}}
  IN  /\ x.fuel > 0
      /\ \E add \in one(new), del \in one(gone), bound \in SUBSET x.net.laddrs :
           Becomes(poll_changes(y, add, del, bound, Interval))
      /\ UNCHANGED <<up, addrs, later, changes>>

PollTimer == x.net.tmr /\ Poll([x EXCEPT !.net.tmr = FALSE])

cmd_netchange == Poll(x)

\* What the user and the environment do, Changes times in all.
Change == x.fuel > 0 /\ changes < Changes /\ changes' = changes + 1

\* cmd_uareg with an interval, and with 0.
UaRegOn(u) ==
  /\ Change
  /\ Becomes(ua_register([x EXCEPT !.ua[u].regint = TRUE], u))
  /\ UNCHANGED <<up, addrs, later>>

UaRegOff(u) ==
  /\ Change
  /\ Becomes({[x EXCEPT !.ua[u].regint = FALSE, !.ua[u].regs = ua_unregister(@)]})
  /\ UNCHANGED <<up, addrs, later>>

create_ua ==
  /\ Change
  /\ later # <<>>
  /\ Becomes(line_handler(x, Head(later)))
  /\ later' = Tail(later)
  /\ UNCHANGED <<up, addrs>>

Flip(u) ==
  /\ Change
  /\ up' = IF u \in up THEN up \ {u} ELSE up \cup {u}
  /\ UNCHANGED <<x, addrs, later>>

\* The host gets or loses an address, which netlink_handler() hears of if it
\* is built in.
Move(a) ==
  /\ Change
  /\ addrs' = IF a \in addrs THEN addrs \ {a} ELSE addrs \cup {a}
  /\ x' = [x EXCEPT !.net.tmr = @ \/ Netlink]
  /\ UNCHANGED <<up, later>>

Next ==
  \/ \E u \in DOMAIN x.ua : \E i \in DOMAIN x.ua[u].regs, o \in {"ok", "reject", "err"} :
       Response(u, i, o)
  \/ Restart
  \/ PollTimer
  \/ cmd_netchange
  \/ \E u \in DOMAIN x.ua : UaRegOn(u) \/ UaRegOff(u) \/ Flip(u)
  \/ create_ua
  \/ \E a \in Families : Move(a)

Spec == Init /\ [][Next]_vars
\* libre answers, retries and refreshes every client that runs, and a timer
\* that runs expires.
outboundv == 1..2

Answered(u, i) ==
  /\ u \in DOMAIN x.ua /\ i \in DOMAIN x.ua[u].regs
  /\ \E o \in {"ok", "reject", "err"} : Response(u, i, o)

FairSpec == /\ Spec
            /\ \A u \in 1..MaxUa, i \in outboundv : WF_vars(Answered(u, i))
            /\ WF_vars(Restart)
-----------------------------------------------------------------------------
\* The clients, priorities and addresses are of their types, and a user agent
\* whose registration was stopped has no status left (reg.c, serreg.c, net.c).
TypeOK ==
  /\ \A u \in DOMAIN x.ua : /\ x.ua[u].regs \in Seq(RegType)
                            /\ \A i \in DOMAIN x.ua[u].regs :
                                 x.ua[u].regs[i].sip = "none" => x.ua[u].regs[i].scode = 0
  /\ {x.sr.prio, x.sr.sprio, x.sr.maxprio} \subseteq 0..NoPrio
  /\ x.transp \subseteq Families /\ x.net.laddrs \subseteq Families

\* Every request could be sent, and no account was switched off by command.
Plain == ~x.refused /\ Registrars(x) = DOMAIN x.ua

\* "found none" ends the loop of next_account() (serreg.c): the handling of an
\* event ends, whatever the requests it sends come to, if every request can be
\* sent and no account was switched off, and leaves a state of its type.
LoopEnds == TypeOK /\ (Plain => x.fuel > 0)

\* Serial registration that has given up has its restart timer running, if a
\* first-priority account that is not checked by fallback requests has failed
\* for good: nothing else would try it again (event_handler, restart).
GaveUpRestarts ==
  x.sr.prio = NoPrio =>
     \A u \in Registrars(x) :
        /\ x.ua[u].prio = 0 /\ ~x.ua[u].fb
        /\ \A i \in DOMAIN x.ua[u].regs : x.ua[u].regs[i].told = "fail"
        => x.sr.tmr

\* After a change of address the poll timer runs until the transports have been
\* set up again, and then they are those of the known addresses: a transport
\* that could not be added is tried again (poll_changes of netroam).
RoamRetries ==
  /\ x.net.reset => x.net.tmr
  /\ ~x.net.reset => x.transp = x.net.laddrs

\* "If a (re-)REGISTER fails, then switches to the next priority UA": the
\* current priority never has only accounts of which the last thing heard is a
\* failure, unless a restart is due (serreg.c, next_account).
FailOver ==
  Plain /\ x.sr.prio # NoPrio =>
     \/ x.sr.tmr
     \/ \E u \in DOMAIN x.ua :
           /\ x.ua[u].prio = x.sr.prio
           /\ \E i \in DOMAIN x.ua[u].regs : x.ua[u].regs[i].told # "fail"

\* Serial registration never stops short: with a priority it has an account that
\* has not failed, without one it has its restart timer.
MovesOn == FailOver /\ GaveUpRestarts

SomeRegistered == \E u \in DOMAIN x.ua : ua_isregistered(x.ua[u].regs)

\* Serial mode or Cisco mode, not a mixture.
SameMode == \A u, v \in DOMAIN x.ua : x.ua[u].fb = x.ua[v].fb

Reachable == {u \in up : Range(x.ua[u].afs) \subseteq x.transp}

\* As long as some account has a registrar that answers and can be reached,
\* some account is registered again and again: serial registration never gets
\* stuck between its priorities, its checks and its restart timer (serreg.c).
Recovers ==
  []<>(x.net.reset \/ Reachable = {} \/ ~Plain \/ ~SameMode \/ SomeRegistered)
=============================================================================
