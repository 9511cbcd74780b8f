------------------------------ MODULE Gateways ------------------------------
(***************************************************************************)
(* The two gateways of sockets and the pages that use them.                *)
(*                                                                         *)
(* The page of a VM shows what it fetched last, what a socket announced    *)
(* and, after a reinstallation, what it polls.  Two workers write the      *)
(* status of the VM and then announce it; calls and the hourly billing     *)
(* write it and do not.  Statuses are numbered in the order in which they  *)
(* are written.                                                            *)
(*                                                                         *)
(* A console is a socket that the server connects with a second one, to    *)
(* Proxmox, after two calls; its page can leave meanwhile.                 *)
(***************************************************************************)
EXTENDS Naturals, Sequences, FiniteSets

CONSTANTS Workers, Consoles

VARIABLES
    status,      \* the VM's, as written last
    unsaid,      \* what a worker has written and not announced; 0 is nothing
    view,        \* "closed", "loading" or "open"
    shows,
    get, poll,   \* requests of the page under way: see NoRequest
    polling,     \* the page has reinstalled the VM
    feed,        \* its socket: "none", "wanted", "up", "joined" or "refused"
    inbox,       \* announcements on their way to it
    expired,     \* the access token that the socket was made with
    here,        \* consoles whose page is connected
    stage,       \* how far the handler of their connection is
    upstream,    \* the socket to Proxmox
    proxies,     \* consoles the gateway knows
    visits, opens, changes,   \* bounds: pages and consoles opened, statuses written
    lost,        \* history: statuses of which the page was not told
    late,        \*   statuses announced after a later one
    announced,   \*   the latest status announced
    overtaken,   \*   what is shown was asked for before what it replaced came
    leftEarly    \*   consoles left while their handler was waiting

feedVars == <<status, unsaid, view, shows, get, poll, polling, feed, inbox, expired, visits,
              changes, lost, late, announced, overtaken>>
consoleVars == <<here, stage, upstream, proxies, opens, leftEarly>>
gatewayVars == <<feedVars, consoleVars>>

Unwritten == 0   \* an 'error' that is announced although writing it failed
\* saw is what the server read, or 0 before that; a request is stale when the
\* page has got something else meanwhile.
NoRequest == [on |-> FALSE, saw |-> 0, stale |-> FALSE]
Request == [NoRequest EXCEPT !.on = TRUE]

InitGateways(s) ==
    /\ status = 1 /\ unsaid = [w \in Workers |-> 0]
    /\ view = "closed" /\ shows = 0 /\ get = NoRequest /\ poll = NoRequest
    /\ polling = FALSE /\ feed = "none" /\ inbox = <<>> /\ expired = FALSE
    /\ here = {} /\ stage = [c \in Consoles |-> "none"]
    /\ upstream = [c \in Consoles |-> "none"] /\ proxies = {}
    /\ visits = s.visits /\ opens = s.opens /\ changes = s.changes
    /\ lost = {} /\ late = {} /\ announced = 1 /\ overtaken = FALSE /\ leftEarly = {}

(***************************************************************************)
(* The status is written and announced.                                    *)
(***************************************************************************)
Written ==
    /\ changes > 0 /\ changes' = changes - 1
    /\ status' = status + 1

\* Sent to those in the room of the VM.
Announce(v) ==
    /\ inbox' = IF feed = "joined" THEN Append(inbox, v) ELSE inbox
    /\ lost' = IF feed = "joined" THEN lost ELSE lost \cup {v}
    /\ late' = IF v < announced THEN late \cup {v} ELSE late
    /\ announced' = IF v > announced THEN v ELSE announced

UpdateVmStatus(w) ==
    /\ unsaid[w] = 0 /\ Written
    /\ unsaid' = [unsaid EXCEPT ![w] = status']
    /\ UNCHANGED <<view, shows, get, poll, polling, feed, inbox, expired,
                   visits, lost, late, announced, overtaken>>

\* Mutant: announced before it is written, with the status there was.
EmitOld(w) ==
    /\ unsaid[w] # 0 /\ Announce(unsaid[w] - 1)
    /\ unsaid' = [unsaid EXCEPT ![w] = 0]
    /\ UNCHANGED <<status, view, shows, get, poll, polling, feed, expired, visits, changes,
                   overtaken>>
EmitVmStatusUpdate(w) ==
    /\ unsaid[w] # 0 /\ Announce(unsaid[w])
    /\ unsaid' = [unsaid EXCEPT ![w] = 0]
    /\ UNCHANGED <<status, view, shows, get, poll, polling, feed, expired, visits, changes,
                   overtaken>>

\* The catch block: 'error' is announced, written or not.
EmitUnwritten(w) ==
    /\ unsaid[w] = 0 /\ changes > 0 /\ changes' = changes - 1
    /\ Announce(Unwritten)
    /\ UNCHANGED <<status, unsaid, view, shows, get, poll, polling, feed, expired, visits,
                   overtaken>>

\* The worker dies in between, or the status is written by a call.
NotAnnounced ==
    /\ \/ /\ Written /\ lost' = lost \cup {status'} /\ UNCHANGED unsaid
       \/ \E w \in Workers :
             /\ unsaid[w] # 0 /\ lost' = lost \cup {unsaid[w]}
             /\ unsaid' = [unsaid EXCEPT ![w] = 0]
             /\ UNCHANGED <<status, changes>>
    /\ UNCHANGED <<view, shows, get, poll, polling, feed, inbox, expired, visits,
                   late, announced, overtaken>>

(***************************************************************************)
(* The page of the VM                                                      *)
(***************************************************************************)
OpenPage ==
    /\ view = "closed" /\ visits > 0 /\ visits' = visits - 1
    /\ view' = "loading" /\ get' = Request /\ feed' = "wanted" /\ expired' = FALSE
    /\ UNCHANGED <<status, unsaid, shows, poll, polling, inbox, changes,
                   lost, late, announced, overtaken>>

ReadVm ==
    /\ \/ get.on /\ get.saw = 0 /\ get' = [get EXCEPT !.saw = status] /\ UNCHANGED poll
       \/ poll.on /\ poll.saw = 0 /\ poll' = [poll EXCEPT !.saw = status] /\ UNCHANGED get
    /\ UNCHANGED <<status, unsaid, view, shows, polling, feed, inbox, expired, changes,
                   lost, late, announced, overtaken, visits>>

\* SWR drops the answer of a fetch that a mutate came after.
AnswerGet ==
    /\ get.on /\ get.saw # 0 /\ get' = NoRequest
    /\ IF get.stale THEN UNCHANGED <<shows, view, poll, overtaken>>
       ELSE /\ shows' = get.saw /\ view' = "open" /\ overtaken' = FALSE
            /\ poll' = [poll EXCEPT !.stale = poll.on]
    /\ UNCHANGED <<status, unsaid, polling, feed, inbox, expired, changes,
                   lost, late, announced, visits>>

\* mutate(data, { revalidate: false })
Mutate(v) ==
    /\ shows' = v /\ view' = "open"
    /\ get' = [get EXCEPT !.stale = get.on]

OnVmStatus ==
    /\ inbox # <<>> /\ inbox' = Tail(inbox)
    /\ Mutate(Head(inbox)) /\ overtaken' = FALSE
    /\ poll' = [poll EXCEPT !.stale = poll.on]
    /\ UNCHANGED <<status, unsaid, polling, feed, expired, changes,
                   lost, late, announced, visits>>

\* A focus of the window, or a handler that calls mutate().
Revalidate ==
    /\ view = "open" /\ ~get.on /\ shows # status   \* a fetch that matters
    /\ get' = Request
    /\ UNCHANGED <<status, unsaid, view, shows, poll, polling, feed, inbox, expired, changes,
                   lost, late, announced, overtaken, visits>>

\* The status is written before the page is answered, and it polls.
ExecuteReinstall ==
    /\ view = "open" /\ ~polling /\ Written
    /\ polling' = TRUE /\ lost' = lost \cup {status'}
    /\ UNCHANGED <<unsaid, view, shows, get, poll, feed, inbox, expired,
                   late, announced, overtaken, visits>>
Poll ==
    /\ polling /\ ~poll.on /\ poll' = Request
    /\ UNCHANGED <<status, unsaid, view, shows, get, polling, feed, inbox, expired, changes,
                   lost, late, announced, overtaken, visits>>
\* It polls until the status is another one, or a request fails.
AnswerPoll ==
    /\ poll.on /\ poll.saw # 0 /\ poll' = NoRequest
    /\ \E p \in BOOLEAN : polling' = p
    /\ Mutate(poll.saw) /\ overtaken' = poll.stale
    /\ UNCHANGED <<status, unsaid, feed, inbox, expired, changes,
                   lost, late, announced, visits>>

ConnectFeed ==
    /\ feed = "wanted" /\ feed' = IF expired THEN "refused" ELSE "up"
    /\ UNCHANGED <<status, unsaid, view, shows, get, poll, polling, inbox, expired, changes,
                   lost, late, announced, overtaken, visits>>
SubscribeVm ==
    /\ feed = "up" /\ feed' = "joined"
    /\ UNCHANGED <<status, unsaid, view, shows, get, poll, polling, inbox, expired, changes,
                   lost, late, announced, overtaken, visits>>
\* The connection breaks; the client connects again with the token it has.
FeedBreaks ==
    /\ feed \in {"up", "joined"} /\ feed' = "wanted"
    /\ inbox' = <<>> /\ lost' = lost \cup {inbox[i] : i \in DOMAIN inbox}
    /\ expired' \in {expired, TRUE}
    /\ UNCHANGED <<status, unsaid, view, shows, get, poll, polling, changes,
                   late, announced, overtaken, visits>>
ClosePage ==
    /\ view # "closed" /\ view' = "closed"
    /\ shows' = 0 /\ get' = NoRequest /\ poll' = NoRequest /\ polling' = FALSE
    /\ feed' = "none" /\ inbox' = <<>> /\ expired' = FALSE /\ overtaken' = FALSE
    /\ UNCHANGED <<status, unsaid, changes, lost, late, announced, visits>>

(***************************************************************************)
(* Consoles                                                                *)
(***************************************************************************)
OpenConsole(c) ==
    /\ stage[c] = "none" /\ opens > 0 /\ opens' = opens - 1
    /\ here' = here \cup {c} /\ stage' = [stage EXCEPT ![c] = "vm"]
    /\ UNCHANGED <<upstream, proxies, leftEarly>>

\* Mutant: the socket is forgotten, not closed.
Forget(c) == proxies' = proxies \ {c} /\ UNCHANGED upstream
\* Whichever side ends it: the socket to Proxmox is closed, if it is known.
HandleDisconnect(c) ==
    /\ proxies' = proxies \ {c}
    /\ upstream' = IF c \in proxies THEN [upstream EXCEPT ![c] = "closed"] ELSE upstream

\* getVm or getVncTicket fails.
Reject(c) ==
    /\ stage[c] \in {"vm", "ticket"} /\ stage' = [stage EXCEPT ![c] = "done"]
    /\ here' = here \ {c} /\ HandleDisconnect(c)
    /\ UNCHANGED <<opens, leftEarly>>
GetVm(c) ==
    /\ stage[c] = "vm" /\ stage' = [stage EXCEPT ![c] = "ticket"]
    /\ UNCHANGED <<here, upstream, proxies, opens, leftEarly>>
\* Nobody looks whether the page is still there.
GetVncTicket(c) ==
    /\ stage[c] = "ticket" /\ stage' = [stage EXCEPT ![c] = "done"]
    /\ upstream' = [upstream EXCEPT ![c] = "connecting"]
    /\ proxies' = proxies \cup {c}
    /\ UNCHANGED <<here, opens, leftEarly>>

UpstreamOpens(c) ==
    /\ upstream[c] = "connecting" /\ upstream' = [upstream EXCEPT ![c] = "open"]
    /\ UNCHANGED <<here, stage, proxies, opens, leftEarly>>
\* 'error' or 'close': the page is disconnected, if it is there.
UpstreamEnds(c) ==
    /\ upstream[c] \in {"connecting", "open"}
    /\ upstream' = [upstream EXCEPT ![c] = "closed"]
    /\ here' = here \ {c} /\ proxies' = IF c \in here THEN proxies \ {c} ELSE proxies
    /\ UNCHANGED <<stage, opens, leftEarly>>
LeaveConsole(c) ==
    /\ c \in here /\ here' = here \ {c}
    /\ HandleDisconnect(c)
    /\ leftEarly' = IF stage[c] = "done" THEN leftEarly ELSE leftEarly \cup {c}
    /\ UNCHANGED <<stage, opens>>

Feed ==
    \/ \E w \in Workers : UpdateVmStatus(w) \/ EmitVmStatusUpdate(w) \/ EmitUnwritten(w)
    \/ NotAnnounced
    \/ OpenPage \/ ReadVm \/ AnswerGet \/ OnVmStatus \/ Revalidate
    \/ ExecuteReinstall \/ Poll \/ AnswerPoll
    \/ ConnectFeed \/ SubscribeVm \/ FeedBreaks \/ ClosePage
Console(c) ==
    \/ OpenConsole(c) \/ GetVm(c) \/ GetVncTicket(c) \/ Reject(c)
    \/ UpstreamOpens(c) \/ UpstreamEnds(c) \/ LeaveConsole(c)
GatewaysNext ==
    \/ Feed /\ UNCHANGED consoleVars
    \/ (\E c \in Consoles : Console(c)) /\ UNCHANGED feedVars

(***************************************************************************)
(* Properties                                                              *)
(***************************************************************************)
\* When nothing is on its way, the page of a VM shows the VM's status, or the
\* last one was never announced to it, or announcements were made in another
\* order than the writes, or a poll was answered after something later came.
PageFollowsVm ==
    /\ view = "open" /\ ~get.on /\ ~poll.on /\ inbox = <<>>
    /\ \A w \in Workers : unsaid[w] = 0
    => shows = status \/ status \in lost \/ shows \in late \cup {Unwritten} \/ overtaken

\* A console whose page has left holds no connection to Proxmox, unless it left
\* before there was one; and no page is left with a console that has ended.
ConsolesReleased ==
    \A c \in Consoles :
        /\ stage[c] = "done" /\ c \notin here \cup leftEarly =>
              upstream[c] \in {"none", "closed"} /\ c \notin proxies
        /\ upstream[c] = "closed" => c \notin here
=============================================================================
