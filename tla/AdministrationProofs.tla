------------------------ MODULE AdministrationProofs ------------------------
(***************************************************************************)
(* The safety of the consoles, of the client's configuration, of the page  *)
(* of a VM, of the rows and of the lists, for all constants: any number of *)
(* calls, rows, savers, workers and consoles.                              *)
(*                                                                         *)
(* The four parts of the state have an inductive invariant each, and a     *)
(* step of one leaves the others alone; only the lists rest on the rows.   *)
(***************************************************************************)
EXTENDS Administration, FiniteSetTheorems, TLAPS

-----------------------------------------------------------------------------
(***************************************************************************)
(* Consoles                                                                *)
(***************************************************************************)
\* Until its handler has the ticket, a console has no socket to Proxmox; a
\* socket that is not closed is known to the gateway; a page that is not there
\* while the handler waits has left early.
ConsolesInv ==
    /\ here \subseteq Consoles /\ proxies \subseteq Consoles
    /\ stage \in [Consoles -> {"none", "vm", "ticket", "done"}]
    /\ upstream \in [Consoles -> {"none", "connecting", "open", "closed"}]
    /\ \A c \in Consoles :
          /\ stage[c] # "done" => upstream[c] = "none" /\ c \notin proxies
          /\ stage[c] = "none" => c \notin here
          /\ stage[c] \in {"vm", "ticket"} /\ c \notin here => c \in leftEarly
          /\ upstream[c] \in {"connecting", "open"} => c \in proxies
    /\ ConsolesReleased

\* A step of the gateways is one of the page, one of a console, or neither.
LEMMA GatewaysStep ==
  ASSUME [Next]_vars
  PROVE  \/ Feed /\ UNCHANGED consoleVars
         \/ (\E c \in Consoles : Console(c)) /\ UNCHANGED feedVars
         \/ UNCHANGED gatewayVars
BY DEF Next, vars, GatewaysNext, gatewayVars

\* A step of a console keeps the invariant of the consoles.
LEMMA ConsoleStep ==
  ASSUME ConsolesInv, NEW c \in Consoles, Console(c)
  PROVE  ConsolesInv'
<1> USE DEF ConsolesInv, ConsolesReleased
<1>1. CASE OpenConsole(c)    BY <1>1 DEF OpenConsole
<1>2. CASE GetVm(c)          BY <1>2 DEF GetVm
<1>3. CASE GetVncTicket(c)   BY <1>3 DEF GetVncTicket
<1>4. CASE Reject(c)         BY <1>4 DEF Reject, HandleDisconnect
<1>5. CASE UpstreamOpens(c)  BY <1>5 DEF UpstreamOpens
<1>6. CASE UpstreamEnds(c)   BY <1>6 DEF UpstreamEnds
<1>7. CASE LeaveConsole(c)   BY <1>7 DEF LeaveConsole, HandleDisconnect
<1> QED BY <1>1, <1>2, <1>3, <1>4, <1>5, <1>6, <1>7 DEF Console

\* ConsolesReleased for any number of consoles, opened and left in any order.
THEOREM ConsolesAreReleased == Spec => []ConsolesReleased
<1>1. Init => ConsolesInv
  BY DEF Init, InitGateways, ConsolesInv, ConsolesReleased
<1>2. ConsolesInv /\ [Next]_vars => ConsolesInv'
  <2> SUFFICES ASSUME ConsolesInv, [Next]_vars PROVE ConsolesInv'
    OBVIOUS
  <2>1. CASE UNCHANGED consoleVars
    BY <2>1 DEF ConsolesInv, ConsolesReleased, consoleVars
  <2>2. CASE \E c \in Consoles : Console(c)
    BY <2>2, ConsoleStep
  <2> QED BY <2>1, <2>2, GatewaysStep DEF gatewayVars
<1>3. ConsolesInv => ConsolesReleased
  BY DEF ConsolesInv
<1> QED BY <1>1, <1>2, <1>3, PTL DEF Spec
-----------------------------------------------------------------------------
(***************************************************************************)
(* The client of Proxmox                                                   *)
(***************************************************************************)
InUse == \A k \in ProxmoxKeys : setting[k] # 0 => memory[k] = setting[k]

\* What a save has read is what is set, unless a write crossed it; and a save
\* that has written a key of the client has yet to refresh it.
SettingsInv ==
    /\ setting \in [Keys -> Values \cup {0}] /\ value \in [Savers -> Values \cup {0}]
    /\ phase \in [Savers -> {"idle", "write", "written", "read"}]
    /\ copy \in [Savers -> [Keys -> Values \cup {0}]]
    /\ \A r \in Savers : phase[r] = "read" /\ r \notin crossed => copy[r] = setting
    /\ behind \in BOOLEAN
    /\ ~behind => InUse \/ \E r \in Savers : phase[r] \in {"written", "read"}

\* A step of a save, of a deletion or of a restart keeps that invariant.
LEMMA SettingsStep ==
  ASSUME SettingsInv, SettingsNext
  PROVE  SettingsInv'
<1> USE SettingsAssumption DEF SettingsInv
<1>1. ASSUME NEW r \in Savers, NEW f, StartSave(r, f)
      PROVE  SettingsInv'
  BY <1>1 DEF StartSave, InPhase, InUse
<1>2. ASSUME NEW r \in Savers, SetSetting(r)
      PROVE  SettingsInv'
  <2> DEFINE k == Head(left[r])
  <2>1. /\ phase[r] = "write" /\ UNCHANGED <<memory, value, copy, behind>>
        /\ setting' = [setting EXCEPT ![k] = value[r]]
        /\ crossed' = crossed \cup {q \in Savers \ {r} : phase[q] = "read"}
        /\ phase' = [phase EXCEPT ![r] = AfterWrite(r)]
    BY <1>2 DEF SetSetting, Commit, InPhase
  <2>2. /\ AfterWrite(r) \in {"idle", "write", "written"}
        /\ k \in ProxmoxKeys => AfterWrite(r) = "written"
    BY DEF AfterWrite, Rest
  <2>3. /\ setting' \in [Keys -> Values \cup {0}]
        /\ phase' \in [Savers -> {"idle", "write", "written", "read"}]
    BY <2>1, <2>2
  <2>4. \A q \in Savers : phase'[q] = "read" /\ q \notin crossed' => copy'[q] = setting'
    BY <2>1, <2>2
  <2>5. ~behind' => InUse' \/ \E q \in Savers : phase'[q] \in {"written", "read"}
    <3>1. CASE k \in ProxmoxKeys
      BY <2>1, <2>2, <3>1
    <3>2. CASE k \notin ProxmoxKeys
      <4>1. InUse => InUse'
        BY <2>1, <3>2 DEF InUse, Keys
      <4>2. \A q \in Savers : phase[q] \in {"written", "read"} => phase'[q] = phase[q]
        BY <2>1
      <4> QED BY <2>1, <4>1, <4>2
    <3> QED BY <3>1, <3>2
  <2> QED BY <2>1, <2>3, <2>4, <2>5
<1>3. ASSUME NEW r \in Savers, ReadConfig(r)
      PROVE  SettingsInv'
  BY <1>3 DEF ReadConfig, InPhase, InUse
<1>4. ASSUME NEW r \in Savers, ApplyConfig(r)
      PROVE  SettingsInv'
  <2>1. Rest(r) \in {"write", "idle"} /\ NoSetting \in [Keys -> Values \cup {0}]
    BY DEF Rest, NoSetting
  <2>2. r \notin crossed => InUse'
    BY <1>4 DEF ApplyConfig, InUse, Overlaid, Keys
  <2>3. behind' \in BOOLEAN /\ (~behind' => r \notin crossed)
    <3>1. behind' = (r \in crossed)
      BY <1>4 DEF ApplyConfig
    <3> HIDE DEF SettingsInv
    <3>2. CASE r \in crossed
      <4>1. (r \in crossed) = TRUE
        BY <3>2
      <4>2. behind' = TRUE
        BY <3>1, <4>1
      <4> QED BY <4>2
    <3>3. CASE r \notin crossed
      <4>1. (r \in crossed) = FALSE
        BY <3>3
      <4>2. behind' = FALSE
        BY <3>1, <4>1
      <4> QED BY <3>3, <4>2
    <3> QED BY <3>2, <3>3
  <2>4. ~behind' => InUse'
    BY <2>2, <2>3
  <2>5. /\ phase' = [phase EXCEPT ![r] = Rest(r)]
        /\ copy' = [copy EXCEPT ![r] = NoSetting] /\ crossed' = crossed \ {r}
        /\ UNCHANGED <<setting, value>>
    BY <1>4 DEF ApplyConfig, Refreshed, InPhase
  <2>6. /\ phase' \in [Savers -> {"idle", "write", "written", "read"}]
        /\ copy' \in [Savers -> [Keys -> Values \cup {0}]]
    BY <2>1, <2>5
  <2>7. \A q \in Savers : phase'[q] = "read" /\ q \notin crossed' => copy'[q] = setting'
    BY <2>1, <2>5
  <2> QED BY <2>3, <2>4, <2>5, <2>6, <2>7
<1>5. ASSUME NEW r \in Savers, ReadFails(r)
      PROVE  SettingsInv'
  <2>1. Rest(r) \in {"write", "idle"} /\ NoSetting \in [Keys -> Values \cup {0}]
    BY DEF Rest, NoSetting
  <2> QED BY <1>5, <2>1 DEF ReadFails, Refreshed, InPhase
<1>6. ASSUME NEW r \in Savers, DeleteSetting(r)
      PROVE  SettingsInv'
  <2>1. InUse => InUse'
    BY <1>6 DEF DeleteSetting, Commit, InUse, Keys
  <2> QED BY <1>6, <2>1 DEF DeleteSetting, Commit
<1>7. CASE Restart
  <2>1. InUse'
    BY <1>7 DEF Restart, InUse, Overlaid, Keys
  <2> QED BY <1>7, <2>1 DEF Restart, NoSetting
<1> QED BY <1>1, <1>2, <1>3, <1>4, <1>5, <1>6, <1>7
        DEF SettingsNext, SetSettings, SetBillingPricing, SetToggle, Save

\* ConfigFollowsSettings for any number of saves of any forms, whatever fails.
THEOREM ClientFollowsSettings == Spec => []ConfigFollowsSettings
<1>1. Init => SettingsInv
  <2> SUFFICES ASSUME Init PROVE SettingsInv
    OBVIOUS
  <2>1. /\ setting = NoSetting /\ memory = NoSetting /\ behind = FALSE
        /\ phase = [r \in Savers |-> "idle"] /\ value = [r \in Savers |-> 0]
        /\ copy = [r \in Savers |-> NoSetting]
    BY DEF Init, InitSettings
  <2>2. NoSetting \in [Keys -> Values \cup {0}]
    BY DEF NoSetting
  <2>3. InUse
    BY <2>1 DEF InUse
  <2> QED BY <2>1, <2>2, <2>3 DEF SettingsInv
<1>2. SettingsInv /\ [Next]_vars => SettingsInv'
  <2>1. UNCHANGED settingVars /\ SettingsInv => SettingsInv'
    BY DEF settingVars, SettingsInv, InUse
  <2>2. [Next]_vars => SettingsNext \/ UNCHANGED settingVars
    BY DEF Next, vars
  <2> QED BY <2>1, <2>2, SettingsStep
<1>3. SettingsInv => ConfigFollowsSettings
  BY DEF SettingsInv, ConfigFollowsSettings, InUse
<1> QED BY <1>1, <1>2, <1>3, PTL DEF Spec
-----------------------------------------------------------------------------
(***************************************************************************)
(* The page of a VM                                                        *)
(***************************************************************************)
FeedOK ==
    /\ status \in Nat \ {0} /\ unsaid \in [Workers -> 0 .. status]
    /\ announced \in 1 .. status
    /\ inbox \in Seq(Nat) /\ shows \in Nat
    /\ get \in [on : BOOLEAN, saw : Nat, stale : BOOLEAN]
    /\ poll \in [on : BOOLEAN, saw : Nat, stale : BOOLEAN]

\* The status was announced to the page, which is to get the announcement or
\* has got it, or is a page that was opened later.
Told == status \notin lost /\ \A w \in Workers : unsaid[w] # status
Coming == \E i \in DOMAIN inbox : inbox[i] = status

\* What comes after the announcement of the status was announced late; what a
\* request has read is the status, or the announcement will follow; what is
\* shown is explained as in PageFollowsVm unless the announcement will follow.
InOrder ==
    \A i \in DOMAIN inbox :
        inbox[i] \in late \/ \E j \in DOMAIN inbox : i <= j /\ inbox[j] = status
Fresh(q) == q.on /\ q.saw # 0 /\ ~q.stale => q.saw = status \/ Coming
Explained == shows = status \/ shows \in late \cup {Unwritten} \/ overtaken
PageInv ==
    /\ FeedOK
    /\ Told => /\ announced = status /\ InOrder
               /\ Fresh(get) /\ Fresh(poll)
               /\ Explained \/ Coming

\* A status that is written is not announced yet, or never will be.
LEMMA WrittenStep ==
  ASSUME FeedOK, status' = status + 1, unsaid' \in [Workers -> 0 .. status'],
         status' \in lost' \/ \E w \in Workers : unsaid'[w] = status',
         UNCHANGED <<shows, get, poll, inbox, announced>>
  PROVE  PageInv'
<1>1. FeedOK'
  BY DEF FeedOK
<1>2. ~Told'
  BY DEF Told
<1> QED BY <1>1, <1>2 DEF PageInv

\* The announcement of a status that was written, or of none.
LEMMA AnnounceStep ==
  ASSUME PageInv, NEW v \in 0 .. status, Announce(v),
         unsaid' \in [Workers -> 0 .. status],
         \A w \in Workers : unsaid'[w] = unsaid[w] \/ (unsaid[w] = v /\ v # 0 /\ unsaid'[w] = 0),
         UNCHANGED <<status, shows, get, poll, overtaken>>
  PROVE  PageInv'
<1>1. /\ announced' \in 1 .. status /\ v <= announced'
      /\ announced <= announced'
      /\ v # announced' => v \in late'
      /\ late \subseteq late' /\ lost \subseteq lost'
  BY DEF Announce, PageInv, FeedOK
<1>2. \/ inbox' = Append(inbox, v)
      \/ inbox' = inbox /\ v \in lost'
  BY DEF Announce
<1>3. FeedOK'
  <2>1. inbox' \in Seq(Nat)
    <3>1. v \in Nat /\ inbox \in Seq(Nat)
      BY DEF PageInv, FeedOK
    <3>2. Append(inbox, v) \in Seq(Nat)
      BY <3>1
    <3> QED BY <1>2, <3>1, <3>2
  <2> QED BY <1>1, <2>1 DEF PageInv, FeedOK
<1>4. ASSUME Told' PROVE /\ announced' = status' /\ InOrder' /\ Fresh(get)' /\ Fresh(poll)'
                         /\ Explained' \/ Coming'
  <2>1. v = status \/ Told
    BY <1>1, <1>4 DEF Told, PageInv, FeedOK
  <2>2. announced' = status
    BY <2>1, <1>1 DEF PageInv, FeedOK
  <2>3. CASE inbox' = Append(inbox, v)
    <3>1. /\ DOMAIN inbox' = 1 .. Len(inbox) + 1 /\ DOMAIN inbox = 1 .. Len(inbox)
          /\ \A i \in DOMAIN inbox : inbox'[i] = inbox[i]
          /\ inbox'[Len(inbox) + 1] = v /\ Len(inbox) \in Nat
      BY <2>3 DEF PageInv, FeedOK
    <3>2. CASE v = status
      <4>1. Coming'
        BY <3>1, <3>2 DEF Coming
      <4>2. InOrder'
        BY <3>1, <3>2 DEF InOrder
      <4> QED BY <2>2, <4>1, <4>2 DEF Fresh
    <3>3. CASE v # status
      <4>1. Told /\ v \in late'
        BY <2>1, <1>1, <2>2, <3>3
      <4>2. Coming => Coming'
        BY <3>1 DEF Coming
      <4>3. InOrder'
        <5> SUFFICES ASSUME NEW i \in DOMAIN inbox'
                     PROVE  inbox'[i] \in late'
                              \/ \E j \in DOMAIN inbox' : i <= j /\ inbox'[j] = status'
          BY DEF InOrder
        <5>1. CASE i = Len(inbox) + 1
          BY <5>1, <3>1, <4>1
        <5>2. CASE i \in DOMAIN inbox
          <6>1. inbox[i] \in late \/ \E j \in DOMAIN inbox : i <= j /\ inbox[j] = status
            BY <5>2, <4>1 DEF PageInv, InOrder
          <6> QED BY <6>1, <5>2, <3>1, <1>1
        <5> QED BY <5>1, <5>2, <3>1
      <4>4. Explained => Explained'
        BY <1>1 DEF Explained
      <4> QED BY <2>2, <4>1, <4>2, <4>3, <4>4 DEF PageInv, Fresh
    <3> QED BY <3>2, <3>3
  <2>4. CASE inbox' = inbox /\ v \in lost'
    <3>1. Told /\ (Coming <=> Coming')
      BY <2>1, <2>4, <1>4 DEF Told, Coming
    <3>2. InOrder'
      BY <2>4, <3>1, <1>1 DEF PageInv, InOrder
    <3>3. Explained => Explained'
      BY <1>1 DEF Explained
    <3> QED BY <2>2, <3>1, <3>2, <3>3 DEF PageInv, Fresh
  <2> QED BY <1>2, <2>3, <2>4
<1> QED BY <1>3, <1>4 DEF PageInv

\* A step that writes and announces nothing and delivers nothing either.
LEMMA RequestStep ==
  ASSUME PageInv,
         UNCHANGED <<status, unsaid, announced, late, lost, inbox>>,
         shows' \in Nat,
         get' \in [on : BOOLEAN, saw : Nat, stale : BOOLEAN],
         poll' \in [on : BOOLEAN, saw : Nat, stale : BOOLEAN],
         Fresh(get) => Fresh(get'), Fresh(poll) => Fresh(poll'),
         Fresh(get) /\ Fresh(poll) /\ (Explained \/ Coming) => Explained' \/ Coming
  PROVE  PageInv'
<1>1. FeedOK' /\ (Told' <=> Told) /\ (Coming' <=> Coming) /\ (InOrder' <=> InOrder)
  BY DEF PageInv, FeedOK, Told, Coming, InOrder
<1>2. (Fresh(get)' <=> Fresh(get')) /\ (Fresh(poll)' <=> Fresh(poll'))
  BY <1>1 DEF Fresh, Coming
<1> QED BY <1>1, <1>2 DEF PageInv
\* A step of the page, of a worker or of a call keeps the invariant of the page.
LEMMA FeedStep ==
  ASSUME PageInv, Feed
  PROVE  PageInv'
<1> USE DEF NoRequest, Request
<1>1. ASSUME NEW w \in Workers, UpdateVmStatus(w)
      PROVE  PageInv'
  <2>1. unsaid' \in [Workers -> 0 .. status'] /\ unsaid'[w] = status'
    BY <1>1 DEF UpdateVmStatus, Written, PageInv, FeedOK
  <2> QED BY <1>1, <2>1, WrittenStep DEF UpdateVmStatus, Written, PageInv
<1>2. ASSUME NEW w \in Workers, EmitVmStatusUpdate(w)
      PROVE  PageInv'
  <2>1. /\ unsaid[w] \in 0 .. status /\ unsaid[w] # 0 /\ 0 \in 0 .. status
        /\ unsaid' = [unsaid EXCEPT ![w] = 0]
        /\ unsaid \in [Workers -> 0 .. status]
    BY <1>2 DEF EmitVmStatusUpdate, PageInv, FeedOK
  <2>2. unsaid' \in [Workers -> 0 .. status]
    BY <2>1
  <2>3. \A u \in Workers :
           unsaid'[u] = unsaid[u] \/ (unsaid[u] = unsaid[w] /\ unsaid[w] # 0 /\ unsaid'[u] = 0)
    BY <2>1
  <2> QED BY <1>2, <2>1, <2>2, <2>3, AnnounceStep DEF EmitVmStatusUpdate
<1>3. ASSUME NEW w \in Workers, EmitUnwritten(w)
      PROVE  PageInv'
  <2>1. Unwritten \in 0 .. status /\ unsaid \in [Workers -> 0 .. status]
    BY DEF Unwritten, PageInv, FeedOK
  <2> QED BY <1>3, <2>1, AnnounceStep DEF EmitUnwritten
<1>4. CASE NotAnnounced
  <2>1. CASE Written /\ lost' = lost \cup {status'} /\ UNCHANGED unsaid
    <3>1. unsaid' \in [Workers -> 0 .. status']
      BY <2>1 DEF Written, PageInv, FeedOK
    <3> QED BY <1>4, <2>1, <3>1, WrittenStep DEF NotAnnounced, Written, PageInv
  <2>2. ASSUME NEW w \in Workers, unsaid[w] # 0, lost' = lost \cup {unsaid[w]},
               unsaid' = [unsaid EXCEPT ![w] = 0], UNCHANGED <<status, changes>>
        PROVE  PageInv'
    <3>1. UNCHANGED <<status, shows, get, poll, inbox, announced, late, overtaken>>
      BY <1>4, <2>2 DEF NotAnnounced
    <3>2. FeedOK'
      BY <2>2, <3>1 DEF PageInv, FeedOK
    <3>3. Told' => Told
      BY <2>2, <3>1 DEF Told, PageInv, FeedOK
    <3>4. (Coming' <=> Coming) /\ (InOrder' <=> InOrder) /\ (Explained' <=> Explained)
      BY <3>1 DEF Coming, InOrder, Explained
    <3> QED BY <3>1, <3>2, <3>3, <3>4 DEF PageInv, Fresh
  <2> QED BY <1>4, <2>1, <2>2 DEF NotAnnounced
<1>5. CASE OpenPage \/ Revalidate \/ Poll \/ ReadVm
  <2>1. UNCHANGED <<status, unsaid, announced, late, lost, inbox, shows, overtaken>>
    BY <1>5 DEF OpenPage, Revalidate, Poll, ReadVm
  <2>2. /\ get' \in [on : BOOLEAN, saw : Nat, stale : BOOLEAN]
        /\ poll' \in [on : BOOLEAN, saw : Nat, stale : BOOLEAN]
        /\ Fresh(get) => Fresh(get')
        /\ Fresh(poll) => Fresh(poll')
    <3>1. CASE OpenPage \/ Revalidate
      <4>1. get' = [on |-> TRUE, saw |-> 0, stale |-> FALSE] /\ poll' = poll
        BY <3>1 DEF OpenPage, Revalidate
      <4> QED BY <4>1 DEF PageInv, FeedOK, Fresh
    <3>2. CASE Poll
      <4>1. poll' = [on |-> TRUE, saw |-> 0, stale |-> FALSE] /\ get' = get
        BY <3>2 DEF Poll
      <4> QED BY <4>1 DEF PageInv, FeedOK, Fresh
    <3>3. CASE ReadVm
      <4>1. /\ get' = get \/ get' = [get EXCEPT !.saw = status]
            /\ poll' = poll \/ poll' = [poll EXCEPT !.saw = status]
        BY <3>3 DEF ReadVm
      <4>2. /\ get' \in [on : BOOLEAN, saw : Nat, stale : BOOLEAN]
            /\ get'.saw = status \/ get' = get
        BY <4>1 DEF PageInv, FeedOK
      <4>3. /\ poll' \in [on : BOOLEAN, saw : Nat, stale : BOOLEAN]
            /\ poll'.saw = status \/ poll' = poll
        BY <4>1 DEF PageInv, FeedOK
      <4> QED BY <4>2, <4>3 DEF Fresh
    <3> QED BY <1>5, <3>1, <3>2, <3>3
  <2>3. (Explained => Explained') /\ shows' \in Nat
    BY <2>1 DEF Explained, PageInv, FeedOK
  <2> QED BY <2>1, <2>2, <2>3, RequestStep
<1>6. CASE AnswerGet
  <2>1. UNCHANGED <<status, unsaid, announced, late, lost, inbox>>
    BY <1>6 DEF AnswerGet
  <2>2. /\ get' \in [on : BOOLEAN, saw : Nat, stale : BOOLEAN]
        /\ poll' \in [on : BOOLEAN, saw : Nat, stale : BOOLEAN]
        /\ shows' \in Nat
    BY <1>6 DEF AnswerGet, PageInv, FeedOK
  <2>3. Fresh(get') /\ (Fresh(poll) => Fresh(poll'))
    BY <1>6 DEF AnswerGet, Fresh, PageInv, FeedOK
  <2>4. Fresh(get) /\ (Explained \/ Coming) => Explained' \/ Coming
    BY <1>6 DEF AnswerGet, Fresh, Explained, PageInv, FeedOK
  <2> QED BY <2>1, <2>2, <2>3, <2>4, RequestStep
<1>7. CASE AnswerPoll
  <2>1. UNCHANGED <<status, unsaid, announced, late, lost, inbox>>
    BY <1>7 DEF AnswerPoll
  <2>2. /\ get' \in [on : BOOLEAN, saw : Nat, stale : BOOLEAN]
        /\ poll' \in [on : BOOLEAN, saw : Nat, stale : BOOLEAN]
        /\ shows' \in Nat
    BY <1>7 DEF AnswerPoll, Mutate, PageInv, FeedOK
  <2>3. Fresh(poll') /\ (Fresh(get) => Fresh(get'))
    BY <1>7 DEF AnswerPoll, Mutate, Fresh, PageInv, FeedOK
  <2>4. Fresh(poll) => Explained' \/ Coming
    BY <1>7 DEF AnswerPoll, Mutate, Fresh, Explained, PageInv, FeedOK
  <2> QED BY <2>1, <2>2, <2>3, <2>4, RequestStep
<1>8. CASE ExecuteReinstall
  <2>1. unsaid' \in [Workers -> 0 .. status']
    BY <1>8 DEF ExecuteReinstall, Written, PageInv, FeedOK
  <2> QED BY <1>8, <2>1, WrittenStep DEF ExecuteReinstall, Written, PageInv
<1>9. CASE OnVmStatus
  <2>1. UNCHANGED <<status, unsaid, announced, late, lost>>
    BY <1>9 DEF OnVmStatus
  <2>2. /\ inbox # <<>> /\ inbox' = Tail(inbox) /\ shows' = Head(inbox) /\ inbox \in Seq(Nat)
    BY <1>9 DEF OnVmStatus, Mutate, PageInv, FeedOK
  <2>3. /\ inbox' \in Seq(Nat) /\ shows' \in Nat /\ shows' = inbox[1] /\ 1 \in DOMAIN inbox
        /\ \A i \in DOMAIN inbox' : i + 1 \in DOMAIN inbox /\ inbox'[i] = inbox[i + 1]
        /\ \A i \in DOMAIN inbox : i # 1 => i - 1 \in DOMAIN inbox'
        /\ DOMAIN inbox \subseteq Nat \ {0} /\ DOMAIN inbox' \subseteq Nat
    BY <2>2
  <2>4. /\ get' \in [on : BOOLEAN, saw : Nat, stale : BOOLEAN]
        /\ poll' \in [on : BOOLEAN, saw : Nat, stale : BOOLEAN]
        /\ get'.on => get'.stale
        /\ poll'.on => poll'.stale
    BY <1>9 DEF OnVmStatus, Mutate, PageInv, FeedOK
  <2>5. FeedOK'
    BY <2>1, <2>3, <2>4 DEF PageInv, FeedOK
  <2>6. ASSUME Told' PROVE InOrder' /\ (Explained' \/ Coming')
    <3>1. InOrder /\ Told
      BY <2>1, <2>6 DEF PageInv, Told
    <3>2. InOrder'
      <4> SUFFICES ASSUME NEW i \in DOMAIN inbox', inbox'[i] \notin late
                   PROVE  \E j \in DOMAIN inbox' : i <= j /\ inbox'[j] = status
        BY <2>1 DEF InOrder
      <4>1. PICK j \in DOMAIN inbox : i + 1 <= j /\ inbox[j] = status
        BY <2>3, <3>1 DEF InOrder
      <4>2. i \in Nat /\ j \in Nat /\ j # 1 /\ j - 1 \in DOMAIN inbox'
            /\ i \in DOMAIN inbox' /\ i # 0
        BY <2>2, <2>3, <4>1
      <4>3. i <= j - 1 /\ inbox'[j - 1] = inbox[j]
        BY <2>3, <4>1, <4>2
      <4> QED BY <4>1, <4>2, <4>3
    <3>3. Explained' \/ Coming'
      <4>1. CASE inbox[1] \in late
        BY <4>1, <2>1, <2>3 DEF Explained
      <4>2. CASE inbox[1] \notin late
        <5>1. PICK j \in DOMAIN inbox : 1 <= j /\ inbox[j] = status
          BY <2>3, <3>1, <4>2 DEF InOrder
        <5>2. CASE j = 1
          BY <5>1, <5>2, <2>1, <2>3 DEF Explained
        <5>3. CASE j # 1
          BY <5>1, <5>3, <2>1, <2>3 DEF Coming
        <5> QED BY <5>2, <5>3
      <4> QED BY <4>1, <4>2
    <3> QED BY <3>2, <3>3
  <2>7. Fresh(get)' /\ Fresh(poll)'
    BY <2>4 DEF Fresh
  <2>8. Told' => announced' = status'
    BY <2>1 DEF PageInv, Told
  <2> QED BY <2>5, <2>6, <2>7, <2>8 DEF PageInv
<1>10. CASE ConnectFeed \/ SubscribeVm
  <2>1. UNCHANGED <<status, unsaid, announced, late, lost, inbox, shows, overtaken, get, poll>>
    BY <1>10 DEF ConnectFeed, SubscribeVm
  <2> QED BY <2>1 DEF PageInv, FeedOK, Told, InOrder, Coming, Fresh, Explained
<1>11. CASE FeedBreaks
  <2>1. /\ UNCHANGED <<status, unsaid, announced, late, shows, overtaken, get, poll>>
        /\ inbox' = <<>> /\ lost' = lost \cup {inbox[i] : i \in DOMAIN inbox}
    BY <1>11 DEF FeedBreaks
  <2>2. FeedOK'
    BY <2>1 DEF PageInv, FeedOK
  <2>3. Told' => Told /\ ~Coming
    BY <2>1 DEF Told, Coming
  <2>4. InOrder'
    BY <2>1 DEF InOrder
  <2>5. Explained' <=> Explained
    BY <2>1 DEF Explained
  <2> QED BY <2>1, <2>2, <2>3, <2>4, <2>5 DEF PageInv, Fresh
<1>12. CASE ClosePage
  <2>1. /\ UNCHANGED <<status, unsaid, announced, late, lost>>
        /\ inbox' = <<>> /\ shows' = 0 /\ get' = NoRequest /\ poll' = NoRequest
    BY <1>12 DEF ClosePage
  <2>2. FeedOK'
    BY <2>1 DEF PageInv, FeedOK
  <2>3. Told' => Told
    BY <2>1 DEF Told
  <2>4. InOrder' /\ Explained'
    BY <2>1 DEF InOrder, Explained, Unwritten
  <2>5. Fresh(get)' /\ Fresh(poll)'
    BY <2>1 DEF Fresh
  <2> QED BY <2>1, <2>2, <2>3, <2>4, <2>5 DEF PageInv
<1> QED BY <1>1, <1>2, <1>3, <1>4, <1>5, <1>6, <1>7, <1>8, <1>9, <1>10, <1>11, <1>12
        DEF Feed

\* PageFollowsVm for any number of workers, statuses, visits and requests.
THEOREM PageIsCurrent == Spec => []PageFollowsVm
<1>1. Init => PageInv
  <2> SUFFICES ASSUME Init PROVE PageInv
    OBVIOUS
  <2>1. /\ status = 1 /\ announced = 1 /\ unsaid = [w \in Workers |-> 0]
        /\ shows = 0 /\ get = NoRequest /\ poll = NoRequest /\ inbox = <<>>
    BY DEF Init, InitGateways
  <2> QED BY <2>1 DEF PageInv, FeedOK, NoRequest, InOrder, Fresh, Explained, Unwritten
<1>2. PageInv /\ [Next]_vars => PageInv'
  <2>1. PageInv /\ UNCHANGED feedVars => PageInv'
    BY DEF feedVars, PageInv, FeedOK, Told, InOrder, Coming, Fresh, Explained
  <2> QED BY <2>1, GatewaysStep, FeedStep DEF gatewayVars
<1>3. PageInv => PageFollowsVm
  <2> SUFFICES ASSUME PageInv, inbox = <<>>, \A w \in Workers : unsaid[w] = 0,
                      status \notin lost
               PROVE  Explained
    BY DEF PageFollowsVm, Explained
  <2>1. Told
    BY DEF PageInv, FeedOK, Told
  <2> QED BY <2>1 DEF PageInv, Coming
<1> QED BY <1>1, <1>2, <1>3, PTL DEF Spec

-----------------------------------------------------------------------------
(***************************************************************************)
(* The rows and the requests                                               *)
(***************************************************************************)
\* The rows that ever were; a reference that the schema has; the rows xs, to be
\* written with the references refs, have those they cannot be without.
Made == {made[i] : i \in DOMAIN made}
Related(x, y) == <<tableOf[x], tableOf[y]>> \in Required \cup Optional
Supplied(xs, refs) ==
    \A x \in xs : \A t \in Required :
        t[1] = tableOf[x] => \E p \in Targets(x, refs) : tableOf[p] = t[2]
Alone(xs, w) ==
    \A x, y \in xs : w # 0 \/ tableOf[x] \in OneFor \cup {"category"} => x = y
Counted == {"category", "location", "ipPool"}

TablesOK ==
    /\ live \subseteq Made /\ made \in Seq(Rows)
    /\ name \in [Rows -> Names \cup {0}] /\ \A x \in Rows \ Made : name[x] = 0
    /\ \A x \in Rows : knew[x] \subseteq Made
    /\ \A e \in link : e \in live \X live /\ Related(e[1], e[2])

\* No two creations under way are of the same row.
RequestsOK ==
    /\ pc \in [Requests -> {"idle", "checked"}]
    /\ op \in [Requests -> {"none", "create", "reply", "update", "delete", "close", "open"}]
    /\ items \in [Requests -> SUBSET Rows] /\ to \in [Requests -> SUBSET (Rows \X Rows)]
    /\ word \in [Requests -> Names \cup {0}] /\ knew \in [Rows -> SUBSET Rows]
    /\ sawOff \in [Requests -> SUBSET Rows] /\ off \subseteq Rows
    /\ \A r, q \in Requests :
          r # q /\ op[r] \in {"create", "reply"} /\ op[q] \in {"create", "reply"} =>
             items[r] \cap items[q] = {}

\* What a request has checked and nothing that another one writes takes back.
Sound(r) ==
    /\ op[r] \in {"create", "reply", "update"} =>
          /\ Alone(items[r], word[r])
          /\ \A e \in to[r] : e[1] \in items[r] /\ Related(e[1], e[2])
    /\ op[r] \in {"create", "reply"} =>
          items[r] \cap Made = {} /\ Supplied(items[r], to[r])
    /\ op[r] = "create" => \A y \in items[r] : tableOf[y] = "category" =>
          word[r] # 0 /\ \A x \in knew[y] : x \in renamed \/ name[x] # word[r]
    /\ op[r] = "reply" =>
          /\ \A x \in items[r] : tableOf[x] = "message"
          /\ \A x \in Parents(r) : x \notin sawOff[r]
    /\ op[r] = "update" =>
          \A x \in items[r] : tableOf[x] \in OneFor => to[r] = {}
    /\ op[r] = "delete" =>
          \A e \in to[r] : e[2] \in items[r] => tableOf[e[2]] \notin Counted

TablesInv ==
    /\ TablesOK /\ RequestsOK
    /\ \A r \in Requests : Sound(r)
    /\ RowsConsistent

-----------------------------------------------------------------------------
(***************************************************************************)
(* What the handlers check                                                 *)
(***************************************************************************)
Legal(what, xs, refs, w) ==
    /\ what \in {"create", "reply", "update", "delete", "close", "open"}
    /\ xs \in SUBSET Rows /\ refs \in SUBSET (Rows \X Rows) /\ w \in Names \cup {0}
    /\ what \in {"create", "reply", "update"} =>
          Alone(xs, w) /\ \A e \in refs : e[1] \in xs /\ Related(e[1], e[2])
    /\ what \in {"create", "reply"} =>
          /\ xs \cap Made = {} /\ Supplied(xs, refs)
          /\ \A q \in Requests : xs \cap items[q] = {}
    /\ what = "create" => \A y \in xs : tableOf[y] = "category" =>
          w # 0 /\ ~Taken("category", w)
    /\ what = "reply" =>
          /\ \A x \in xs : tableOf[x] = "message"
          /\ \A e \in refs : e[2] \notin off
    /\ what = "update" => \A x \in xs : tableOf[x] \in OneFor => refs = {}
    /\ what = "delete" => \A e \in refs : e[2] \in xs => tableOf[e[2]] \notin Counted
Starts(r) ==
    \E what, xs, refs, w : Begin(r, what, xs, refs, w) /\ Legal(what, xs, refs, w)

\* What a row refers to, from its references.
LEMMA TargetsOf ==
  ASSUME NEW x, NEW p, NEW refs, <<x, p>> \in refs
  PROVE  p \in Targets(x, refs)
<1>1. <<x, p>> \in {f \in refs : f[1] = x} /\ <<x, p>>[2] = p
  OBVIOUS
<1> QED BY <1>1 DEF Targets

\* A new row was never there, and no other call creates it.
LEMMA NewRow ==
  ASSUME NEW t, NEW x \in New(t)
  PROVE  /\ x \in Rows /\ tableOf[x] = t /\ x \notin Made
         /\ \A q \in Requests : x \notin items[q]
BY DEF New, Made

\* A creation with the references its table needs and no other.
LEMMA CreateLegal ==
  ASSUME TablesInv, NEW r \in Requests, NEW t, NEW ps, NEW w \in Given, Create(r, t, ps, w),
         ps \subseteq live,
         \A p \in ps : <<t, tableOf[p]>> \in Required \cup Optional,
         \A q \in Required : q[1] = t => \E p \in ps : tableOf[p] = q[2],
         t = "category" => w # 0 /\ ~Taken("category", w)
  PROVE  Starts(r)
<1>1. PICK x \in NextNew(t) : Begin(r, "create", {x}, {x} \X ps, w)
  BY DEF Create
<1>2. /\ x \in Rows /\ tableOf[x] = t /\ x \notin Made
      /\ \A q \in Requests : x \notin items[q]
  BY NewRow DEF NextNew
<1>3. ps \subseteq Rows
  BY DEF TablesInv, TablesOK, Made
<1>4. Supplied({x}, {x} \X ps)
  <2>1. \A p \in ps : p \in Targets(x, {x} \X ps)
    BY TargetsOf
  <2> QED BY <1>2, <2>1 DEF Supplied
<1>5. {x} \X ps \in SUBSET (Rows \X Rows) /\ {x} \in SUBSET Rows
  BY <1>2, <1>3
<1>6. \A e \in {x} \X ps : e[1] \in {x} /\ Related(e[1], e[2])
  BY <1>2 DEF Related
<1>7. Alone({x}, w) /\ {x} \cap Made = {} /\ \A q \in Requests : {x} \cap items[q] = {}
  BY <1>2 DEF Alone
<1>8. Legal("create", {x}, {x} \X ps, w)
  BY <1>2, <1>4, <1>5, <1>6, <1>7 DEF Legal, Given
<1> QED BY <1>1, <1>8 DEF Starts

\* A change of a row.
LEMMA ChangeLegal ==
  ASSUME TablesInv, NEW r \in Requests, NEW x \in live, NEW ps, NEW w \in Given,
         Change(r, x, ps, w), ps \subseteq live,
         \A p \in ps : <<tableOf[x], tableOf[p]>> \in Required \cup Optional,
         tableOf[x] \in OneFor => ps = {}
  PROVE  Starts(r)
<1>1. x \in Rows /\ ps \subseteq Rows
  BY DEF TablesInv, TablesOK, Made
<1>2. Legal("update", {x}, {x} \X ps, w)
  BY <1>1 DEF Legal, Alone, Related, Given
<1> QED BY <1>2 DEF Starts, Change

\* A change of the fields of a row.
LEMMA FieldsLegal ==
  ASSUME TablesInv, NEW r \in Requests, NEW x \in live, NEW w \in Given, Change(r, x, {}, w)
  PROVE  Starts(r)
BY ChangeLegal

\* The deletion of a row, to which nothing refers if its handler counts.
LEMMA DeleteLegal ==
  ASSUME TablesInv, NEW r \in Requests, NEW x \in live, Delete(r, x),
         tableOf[x] \in Counted => Children(x) = {}
  PROVE  Starts(r)
<1>1. x \in Rows /\ link \subseteq Rows \X Rows
  BY DEF TablesInv, TablesOK, Made
<1>2. ASSUME NEW e \in link, e[2] = x
      PROVE  tableOf[e[2]] \notin Counted
  <2>1. e[1] \in live /\ e = <<e[1], e[2]>>
    BY DEF TablesInv, TablesOK
  <2>2. e[1] \in Children(x)
    BY <1>2, <2>1 DEF Children
  <2> QED BY <1>2, <2>2
<1>3. Legal("delete", {x}, link, 0)
  BY <1>1, <1>2 DEF Legal
<1> QED BY <1>3 DEF Starts, Delete

\* What is opened or closed.
LEMMA SwitchLegal ==
  ASSUME TablesInv, NEW r \in Requests, NEW xs, xs \subseteq live,
         NEW what \in {"close", "open"}, Begin(r, what, xs, {}, 0)
  PROVE  Starts(r)
<1>1. xs \subseteq Rows
  BY DEF TablesInv, TablesOK, Made
<1>2. Legal(what, xs, {}, 0)
  BY <1>1 DEF Legal
<1> QED BY <1>2 DEF Starts
-----------------------------------------------------------------------------
\* The administrators' calls and those of the catalogue begin soundly ...
LEMMA CatalogueCalls ==
  ASSUME TablesInv, NEW r \in Requests,
         PlanCalls(r) \/ Subscribe(r) \/ PackageCalls(r) \/ VoucherCalls(r) \/ GenerateCode(r)
           \/ LocationCalls(r) \/ IpPoolCalls(r) \/ NodeCalls(r) \/ TemplateCalls(r)
           \/ AdminVoucherCalls(r)
  PROVE  Starts(r)
<1> USE DEF Live, Given, Counted, Choices
<1>1. CASE PlanCalls(r)
  <2>1. CASE CreateCategory(r)
    <3>1. PICK w \in Names : ~Taken("category", w) /\ Create(r, "category", {}, w)
      BY <2>1 DEF CreateCategory
    <3>2. w # 0 /\ \A q \in Required : q[1] # "category"
      BY TablesAssumption DEF Required
    <3> QED BY <3>1, <3>2, CreateLegal
  <2>2. CASE UpdateCategory(r) \/ UpdateCoupon(r)
    BY <2>2, FieldsLegal DEF UpdateCategory, UpdateCoupon
  <2>3. CASE DeleteCategory(r) \/ DeletePlan(r) \/ DeleteCoupon(r)
    BY <2>3, DeleteLegal DEF DeleteCategory, DeletePlan, DeleteCoupon
  <2>4. CASE CreatePlan(r)
    <3>1. PICK ps \in Choices({"category", "template"}) : Create(r, "plan", ps, 0)
      BY <2>4 DEF CreatePlan
    <3>2. \A p \in ps : <<"plan", tableOf[p]>> \in Required \cup Optional
      BY <3>1 DEF Optional
    <3>3. \A q \in Required : q[1] # "plan"
      BY DEF Required
    <3> QED BY <3>1, <3>2, <3>3, CreateLegal
  <2>5. CASE UpdatePlan(r)
    <3>1. PICK x \in Live("plan"), ps \in Choices({"category", "template"}) : Change(r, x, ps, 0)
      BY <2>5 DEF UpdatePlan
    <3>2. \A p \in ps : <<"plan", tableOf[p]>> \in Required \cup Optional
      BY <3>1 DEF Optional
    <3> QED BY <3>1, <3>2, ChangeLegal DEF OneFor
  <2>6. CASE CreateCoupon(r)
    <3>1. PICK p \in Live("plan"), w \in Names : Create(r, "coupon", {p}, w)
      BY <2>6 DEF CreateCoupon
    <3>2. <<"coupon", "plan">> \in Required /\ \A q \in Required : q[1] = "coupon" => q[2] = "plan"
      BY DEF Required
    <3> QED BY <3>1, <3>2, CreateLegal
  <2> QED BY <1>1, <2>1, <2>2, <2>3, <2>4, <2>5, <2>6 DEF PlanCalls
<1>2. CASE Subscribe(r)
  <2>1. PICK p \in Live("plan"), c \in SUBSET Live("coupon") :
           Create(r, "subscription", {p} \cup c, 0)
    BY <1>2 DEF Subscribe
  <2>2. /\ <<"subscription", "plan">> \in Required
        /\ <<"subscription", "coupon">> \in Optional
        /\ \A q \in Required : q[1] = "subscription" => q[2] = "plan"
    BY DEF Required, Optional
  <2> QED BY <2>1, <2>2, CreateLegal
<1>3. CASE PackageCalls(r) \/ LocationCalls(r)
  <2>1. CASE CreatePackage(r) \/ CreateLocation(r)
    BY <2>1, CreateLegal DEF CreatePackage, CreateLocation, Required
  <2>2. CASE UpdatePackage(r) \/ UpdateLocation(r)
    BY <2>2, SwitchLegal DEF UpdatePackage, UpdateLocation, Switch, Close, Open
  <2>3. CASE DeletePackage(r) \/ DeleteLocation(r)
    BY <2>3, DeleteLegal DEF DeletePackage, DeleteLocation
  <2> QED BY <1>3, <2>1, <2>2, <2>3 DEF PackageCalls, LocationCalls
<1>4. CASE VoucherCalls(r) \/ AdminVoucherCalls(r)
  <2>1. CASE CreateVoucher(r) \/ AdminCreateVoucher(r)
    BY <2>1, CreateLegal DEF CreateVoucher, AdminCreateVoucher, Required
  <2>2. CASE DeactivateVoucher(r) \/ VoidVoucher(r)
    BY <2>2, SwitchLegal DEF DeactivateVoucher, VoidVoucher, Close
  <2>3. CASE BatchCreateVouchers(r)
    <3>1. Begin(r, "create", New("voucher"), {}, 0)
      BY <2>3 DEF BatchCreateVouchers
    <3>2. /\ New("voucher") \in SUBSET Rows /\ New("voucher") \cap Made = {}
          /\ \A x \in New("voucher") : tableOf[x] = "voucher"
          /\ \A q \in Requests : New("voucher") \cap items[q] = {}
      BY NewRow
    <3>3. Supplied(New("voucher"), {}) /\ Alone(New("voucher"), 0)
      BY <3>2 DEF Supplied, Alone, Required, OneFor
    <3>4. Legal("create", New("voucher"), {}, 0)
      BY <3>2, <3>3 DEF Legal
    <3> QED BY <3>1, <3>4 DEF Starts
  <2> QED BY <1>4, <2>1, <2>2, <2>3 DEF VoucherCalls, AdminVoucherCalls
<1>5. CASE GenerateCode(r)
  <2>1. PICK u \in Live("user"), w \in Names : Create(r, "referralCode", {u}, w)
    BY <1>5 DEF GenerateCode
  <2>2. /\ <<"referralCode", "user">> \in Required
        /\ \A q \in Required : q[1] = "referralCode" => q[2] = "user"
    BY DEF Required
  <2> QED BY <2>1, <2>2, CreateLegal
<1>6. CASE IpPoolCalls(r)
  <2>1. CASE CreateIpPool(r)
    BY <2>1, CreateLegal DEF CreateIpPool, Required
  <2>2. CASE UpdateIpPool(r) \/ SetPtrRecord(r)
    BY <2>2, FieldsLegal DEF UpdateIpPool, SetPtrRecord
  <2>3. CASE DeleteIpPool(r) \/ RemoveIp(r)
    BY <2>3, DeleteLegal DEF DeleteIpPool, RemoveIp
  <2>4. CASE AddIp(r)
    <3>1. PICK p \in Live("ipPool"), w \in Names : Create(r, "address", {p}, w)
      BY <2>4 DEF AddIp
    <3>2. /\ <<"address", "ipPool">> \in Required
          /\ \A q \in Required : q[1] = "address" => q[2] = "ipPool"
      BY DEF Required
    <3> QED BY <3>1, <3>2, CreateLegal
  <2> QED BY <1>6, <2>1, <2>2, <2>3, <2>4 DEF IpPoolCalls
<1>7. CASE NodeCalls(r) \/ TemplateCalls(r)
  <2>1. CASE CreateNode(r) \/ CreateTemplate(r)
    BY <2>1, CreateLegal DEF CreateNode, CreateTemplate, Required
  <2>2. CASE \E x \in Live("node") \cup Live("template") : Switch(r, x)
    BY <2>2, SwitchLegal DEF Switch, Close, Open
  <2>3. CASE UpdateNodeStatus(r)
    <3>1. PICK x \in Live("node"), ps \in Choices({"location"}) : Change(r, x, ps, 0)
      BY <2>3 DEF UpdateNodeStatus
    <3>2. \A p \in ps : <<"node", tableOf[p]>> \in Required \cup Optional
      BY <3>1 DEF Optional
    <3> QED BY <3>1, <3>2, ChangeLegal DEF OneFor
  <2>4. CASE \E x \in Live("template"), w \in Names : Change(r, x, {}, w)
    BY <2>4, FieldsLegal
  <2>5. CASE DeleteTemplate(r)
    BY <2>5, DeleteLegal DEF DeleteTemplate
  <2> QED BY <1>7, <2>1, <2>2, <2>3, <2>4, <2>5
          DEF NodeCalls, TemplateCalls, UpdateNode, ToggleNodeMaintenance, UpdateTemplate
<1> QED BY <1>1, <1>2, <1>3, <1>4, <1>5, <1>6, <1>7
\* ... and so do those of the users and of those who help them ...
LEMMA HelpDeskCalls ==
  ASSUME TablesInv, NEW r \in Requests,
         UserCalls(r) \/ RoleCalls(r) \/ TicketCalls(r) \/ SupportCalls(r)
           \/ KnowledgeBaseCalls(r) \/ SshKeyCalls(r) \/ ApiKeyCalls(r) \/ SubuserCalls(r)
           \/ UpsertProfile(r) \/ UpdatePreference(r)
  PROVE  Starts(r)
<1> USE DEF Live, Given, Counted, Choices
<1>1. CASE UserCalls(r)
  <2>1. CASE UpdateUser(r) \/ DeactivateUser(r) \/ ActivateUser(r)
    BY <2>1, SwitchLegal DEF UpdateUser, DeactivateUser, ActivateUser, Switch, Close, Open
  <2>2. CASE CreditUserWallet(r) \/ ImpersonateUser(r)
    BY <2>2, CreateLegal DEF CreditUserWallet, ImpersonateUser, Required
  <2> QED BY <1>1, <2>1, <2>2 DEF UserCalls
<1>2. CASE RoleCalls(r)
  <2>1. CASE CreateRole(r)
    BY <2>1, CreateLegal DEF CreateRole, Required
  <2>2. CASE UpdateRole(r)
    BY <2>2, FieldsLegal DEF UpdateRole
  <2>3. CASE DeleteRole(r) \/ RemoveRolePermission(r)
    BY <2>3, DeleteLegal DEF DeleteRole, RemoveRolePermission
  <2>4. CASE AssignRole(r)
    <3>1. PICK u \in Live("user"), x \in Live("role") : Create(r, "userRole", {u, x}, 0)
      BY <2>4 DEF AssignRole
    <3>2. /\ <<"userRole", "user">> \in Required /\ <<"userRole", "role">> \in Required
          /\ \A q \in Required : q[1] = "userRole" => q[2] \in {"user", "role"}
      BY DEF Required
    <3> QED BY <3>1, <3>2, CreateLegal
  <2>5. CASE AddRolePermission(r)
    <3>1. PICK x \in Live("role"), p \in Live("permission") : Create(r, "grant", {x, p}, 0)
      BY <2>5 DEF AddRolePermission
    <3>2. /\ <<"grant", "permission">> \in Required /\ <<"grant", "role">> \in Required
          /\ \A q \in Required : q[1] = "grant" => q[2] \in {"permission", "role"}
      BY DEF Required
    <3> QED BY <3>1, <3>2, CreateLegal
  <2> QED BY <1>2, <2>1, <2>2, <2>3, <2>4, <2>5 DEF RoleCalls
<1>3. CASE TicketCalls(r) \/ SupportCalls(r)
  <2>1. CASE CreateTicket(r)
    BY <2>1, CreateLegal DEF CreateTicket, Required
  <2>2. CASE Reply(r) \/ AdminReplyTicket(r)
    <3>1. PICK x \in Live("ticket") \ off : Answer(r, x)
      BY <2>2 DEF Reply, AdminReplyTicket
    <3>2. PICK m \in NextNew("message") : Begin(r, "reply", {m}, {<<m, x>>}, 0)
      BY <3>1 DEF Answer
    <3>3. /\ m \in Rows /\ tableOf[m] = "message" /\ m \notin Made
          /\ \A q \in Requests : m \notin items[q]
      BY NewRow DEF NextNew
    <3>4. /\ <<"message", "ticket">> \in Required
          /\ \A q \in Required : q[1] = "message" => q[2] = "ticket"
      BY DEF Required
    <3>5. x \in Rows /\ x \notin off /\ tableOf[x] = "ticket"
      BY <3>1 DEF TablesInv, TablesOK, Made
    <3>6. x \in Targets(m, {<<m, x>>})
      BY TargetsOf
    <3>7. Supplied({m}, {<<m, x>>})
      BY <3>3, <3>4, <3>5, <3>6 DEF Supplied
    <3>8. Legal("reply", {m}, {<<m, x>>}, 0)
      BY <3>3, <3>4, <3>5, <3>7 DEF Legal, Alone, Related
    <3> QED BY <3>2, <3>8 DEF Starts
  <2>3. CASE AddAttachment(r)
    <3>1. PICK x \in Live("message") : Create(r, "attachment", {x}, 0)
      BY <2>3 DEF AddAttachment
    <3>2. /\ <<"attachment", "message">> \in Required
          /\ \A q \in Required : q[1] = "attachment" => q[2] = "message"
      BY DEF Required
    <3> QED BY <3>1, <3>2, CreateLegal
  <2>4. CASE AdminCloseTicket(r) \/ AdminReopenTicket(r)
    BY <2>4, SwitchLegal DEF AdminCloseTicket, AdminReopenTicket, Close, Open
  <2> QED BY <1>3, <2>1, <2>2, <2>3, <2>4 DEF TicketCalls, SupportCalls
<1>4. CASE KnowledgeBaseCalls(r)
  <2>1. CASE CreateTopic(r)
    BY <2>1, CreateLegal DEF CreateTopic, Required
  <2>2. CASE UpdateTopic(r) \/ Vote(r)
    BY <2>2, FieldsLegal DEF UpdateTopic, Vote
  <2>3. CASE DeleteTopic(r) \/ DeleteArticle(r)
    BY <2>3, DeleteLegal DEF DeleteTopic, DeleteArticle
  <2>4. <<"article", "topic">> \in Required
        /\ \A q \in Required : q[1] = "article" => q[2] = "topic"
    BY DEF Required
  <2>5. CASE CreateArticle(r)
    <3>1. PICK c \in Live("topic"), w \in Names : Create(r, "article", {c}, w)
      BY <2>5 DEF CreateArticle
    <3> QED BY <3>1, <2>4, CreateLegal
  <2>6. CASE UpdateArticle(r)
    <3>1. PICK x \in Live("article"), c \in Choices({"topic"}), w \in Given : Change(r, x, c, w)
      BY <2>6 DEF UpdateArticle
    <3> QED BY <3>1, <2>4, ChangeLegal DEF OneFor
  <2> QED BY <1>4, <2>1, <2>2, <2>3, <2>5, <2>6 DEF KnowledgeBaseCalls
<1>5. CASE SshKeyCalls(r) \/ ApiKeyCalls(r)
  <2>1. /\ <<"sshKey", "user">> \in Required /\ <<"apiKey", "user">> \in Required
        /\ \A q \in Required : q[1] \in {"sshKey", "apiKey"} => q[2] = "user"
    BY DEF Required
  <2>2. CASE CreateSshKey(r) \/ CreateApiKey(r)
    <3>1. PICK u \in Live("user"), t \in {"sshKey", "apiKey"} : Create(r, t, {u}, 0)
      BY <2>2 DEF CreateSshKey, CreateApiKey
    <3> QED BY <3>1, <2>1, CreateLegal
  <2>3. CASE DeleteSshKey(r) \/ RestoreSshKey(r)
    BY <2>3, SwitchLegal DEF DeleteSshKey, RestoreSshKey, Close, Open
  <2>4. CASE HardDeleteSshKey(r) \/ DeleteApiKey(r)
    BY <2>4, DeleteLegal DEF HardDeleteSshKey, DeleteApiKey
  <2>5. CASE UpdateApiKey(r) \/ Authenticate(r)
    BY <2>5, FieldsLegal DEF UpdateApiKey, Authenticate
  <2> QED BY <1>5, <2>2, <2>3, <2>4, <2>5 DEF SshKeyCalls, ApiKeyCalls
<1>6. CASE SubuserCalls(r)
  <2>1. CASE AddSubuser(r)
    <3>1. PICK v \in Live("vm"), u \in Live("user") : Create(r, "subuser", {v, u}, 0)
      BY <2>1 DEF AddSubuser
    <3>2. /\ <<"subuser", "vm">> \in Required /\ <<"subuser", "user">> \in Required
          /\ \A q \in Required : q[1] = "subuser" => q[2] \in {"vm", "user"}
      BY DEF Required
    <3> QED BY <3>1, <3>2, CreateLegal
  <2>2. CASE UpdatePermissions(r)
    BY <2>2, FieldsLegal DEF UpdatePermissions
  <2>3. CASE RemoveSubuser(r)
    BY <2>3, DeleteLegal DEF RemoveSubuser
  <2> QED BY <1>6, <2>1, <2>2, <2>3 DEF SubuserCalls
<1>7. CASE UpsertProfile(r) \/ UpdatePreference(r)
  <2>1. PICK u \in Live("user"), t \in {"profile", "preference"} : Create(r, t, {u}, 0)
    BY <1>7 DEF UpsertProfile, UpdatePreference
  <2>2. /\ <<"profile", "user">> \in Required /\ <<"preference", "user">> \in Required
        /\ \A q \in Required : q[1] \in {"profile", "preference"} => q[2] = "user"
    BY DEF Required
  <2> QED BY <2>1, <2>2, CreateLegal
<1> QED BY <1>1, <1>2, <1>3, <1>4, <1>5, <1>6, <1>7

\* ... and those about VMs and notifications.
LEMMA OtherCalls ==
  ASSUME TablesInv, NEW r \in Requests,
         RenameVm(r) \/ VmCalls(r) \/ NotificationCalls(r) \/ Broadcast(r)
  PROVE  Starts(r)
<1> USE DEF Live, Given, Counted, Choices
<1>1. CASE RenameVm(r) \/ VmCalls(r)
  <2>1. CASE CreateVm(r)
    <3>1. PICK ps \in Choices({"template", "node"}) : Create(r, "vm", ps, 0)
      BY <2>1 DEF CreateVm
    <3>2. \A p \in ps : <<"vm", tableOf[p]>> \in Required \cup Optional
      BY <3>1 DEF Optional
    <3>3. \A q \in Required : q[1] # "vm"
      BY DEF Required
    <3> QED BY <3>1, <3>2, <3>3, CreateLegal
  <2>2. CASE DeleteVm(r)
    BY <2>2, DeleteLegal DEF DeleteVm
  <2>3. CASE UpdateVm(r) \/ RenameVm(r) \/ SetDnsConfig(r)
    BY <2>3, FieldsLegal DEF UpdateVm, RenameVm, SetDnsConfig
  <2>4. CASE GetVncUrl(r)
    BY <2>4, CreateLegal DEF GetVncUrl, Required
  <2> QED BY <1>1, <2>1, <2>2, <2>3, <2>4 DEF VmCalls
<1>2. <<"notification", "user">> \in Required
      /\ \A q \in Required : q[1] = "notification" => q[2] = "user"
  BY DEF Required
<1>3. CASE NotificationCalls(r)
  <2>1. CASE CreateNotification(r)
    BY <2>1, <1>2, CreateLegal DEF CreateNotification
  <2>2. CASE MarkRead(r)
    BY <2>2, SwitchLegal DEF MarkRead, Close
  <2>3. CASE MarkAllRead(r)
    BY <2>3, SwitchLegal DEF MarkAllRead
  <2> QED BY <1>3, <2>1, <2>2, <2>3 DEF NotificationCalls
<1>4. CASE Broadcast(r)
  <2>1. PICK us \in {Live("user")} \cup {{u} : u \in Live("user")} :
           \E xs \in SUBSET New("notification"), f \in [us -> New("notification")] :
              /\ xs = {f[u] : u \in us}
              /\ Begin(r, "create", xs, {<<f[u], u>> : u \in us}, 0)
    BY <1>4 DEF Broadcast
  <2>2. PICK xs \in SUBSET New("notification"), f \in [us -> New("notification")] :
              /\ xs = {f[u] : u \in us}
              /\ Begin(r, "create", xs, {<<f[u], u>> : u \in us}, 0)
    BY <2>1
  <2> DEFINE refs == {<<f[u], u>> : u \in us}
  <2>3. \A u \in us : u \in Rows /\ tableOf[u] = "user" /\ f[u] \in xs
    BY <2>2 DEF TablesInv, TablesOK, Made
  <2>4. /\ xs \in SUBSET Rows /\ xs \cap Made = {}
        /\ \A x \in xs : tableOf[x] = "notification"
        /\ \A q \in Requests : xs \cap items[q] = {}
    BY NewRow
  <2>5. \A u \in us : u \in Targets(f[u], refs)
    BY TargetsOf
  <2>6. \A x \in xs : \E u \in us : x = f[u]
    BY <2>2
  <2>7. \A e \in refs : e[1] \in xs /\ e \in Rows \X Rows /\ Related(e[1], e[2])
    BY <1>2, <2>3, <2>4 DEF Related
  <2> HIDE DEF refs
  <2>8. Supplied(xs, refs)
    BY <1>2, <2>3, <2>4, <2>5, <2>6 DEF Supplied
  <2>9. Alone(xs, 0)
    BY <2>4 DEF Alone, OneFor
  <2>10. Legal("create", xs, refs, 0)
    BY <2>4, <2>7, <2>8, <2>9 DEF Legal
  <2> QED BY <2>2, <2>10 DEF Starts, refs
<1> QED BY <1>1, <1>3, <1>4

\* Whatever a handler begins, it has checked.
LEMMA HandleStarts ==
  ASSUME TablesInv, NEW r \in Requests, Handle(r)
  PROVE  Starts(r)
BY CatalogueCalls, HelpDeskCalls, OtherCalls DEF Handle, AdminCalls
-----------------------------------------------------------------------------
(***************************************************************************)
(* The steps of a call                                                     *)
(***************************************************************************)
\* A call that begins keeps the invariant: what the others have checked does
\* not depend on it.
LEMMA BeginInv ==
  ASSUME TablesInv, NEW r \in Requests, Starts(r)
  PROVE  TablesInv'
<1>1. PICK what, xs, refs, w : Begin(r, what, xs, refs, w) /\ Legal(what, xs, refs, w)
  BY DEF Starts
<1>2. /\ UNCHANGED <<tableOf, live, made, off, name, link, renamed, torn>>
      /\ pc' = [pc EXCEPT ![r] = "checked"] /\ op' = [op EXCEPT ![r] = what]
      /\ items' = [items EXCEPT ![r] = xs] /\ to' = [to EXCEPT ![r] = refs]
      /\ word' = [word EXCEPT ![r] = w] /\ sawOff' = [sawOff EXCEPT ![r] = off]
      /\ knew' = [x \in Rows |-> IF what = "create" /\ x \in xs THEN Live(tableOf[x])
                                ELSE knew[x]]
  BY <1>1 DEF Begin, rows
<1>3. /\ what \in {"create", "reply", "update", "delete", "close", "open"}
      /\ xs \in SUBSET Rows /\ refs \in SUBSET (Rows \X Rows) /\ w \in Names \cup {0}
      /\ what \in {"create", "reply"} => \A q \in Requests : xs \cap items[q] = {}
      /\ what \in {"create", "reply"} => xs \cap Made = {}
  BY <1>1 DEF Legal
<1>4. Made' = Made /\ live \subseteq Made /\ Made \subseteq Rows
  BY <1>2 DEF Made, TablesInv, TablesOK
<1>5. \A x \in Rows : knew'[x] = knew[x] \/ (what = "create" /\ x \in xs /\ knew'[x] = Live(tableOf[x]))
  BY <1>2
<1>6. RequestsOK'
  <2>1. RequestsOK /\ \A t : Live(t) \subseteq Rows
    BY <1>4 DEF TablesInv, Live
  <2>2. /\ pc' \in [Requests -> {"idle", "checked"}]
        /\ op' \in [Requests -> {"none", "create", "reply", "update", "delete", "close", "open"}]
        /\ items' \in [Requests -> SUBSET Rows] /\ to' \in [Requests -> SUBSET (Rows \X Rows)]
        /\ word' \in [Requests -> Names \cup {0}] /\ sawOff' \in [Requests -> SUBSET Rows]
        /\ off' \subseteq Rows
    BY <2>1, <1>2, <1>3 DEF RequestsOK
  <2>3. knew' \in [Rows -> SUBSET Rows]
    BY <2>1, <1>2 DEF RequestsOK
  <2>4. \A p, q \in Requests :
           p # q /\ op'[p] \in {"create", "reply"} /\ op'[q] \in {"create", "reply"} =>
              items'[p] \cap items'[q] = {}
    BY <2>1, <1>2, <1>3 DEF RequestsOK
  <2> QED BY <2>2, <2>3, <2>4 DEF RequestsOK
<1>7. TablesOK'
  BY <1>2, <1>4, <1>5 DEF TablesInv, TablesOK, Related, Live
<1>8. ASSUME NEW q \in Requests, q # r
      PROVE  Sound(q)'
  <2>1. /\ op'[q] = op[q] /\ items'[q] = items[q] /\ to'[q] = to[q] /\ word'[q] = word[q]
        /\ sawOff'[q] = sawOff[q] /\ items[q] \subseteq Rows
    BY <1>2, <1>8 DEF TablesInv, RequestsOK
  <2>2. \A y \in items[q] : knew'[y] = knew[y]
    BY <1>3, <1>5, <2>1
  <2>3. Supplied(items[q], to[q])' <=> Supplied(items[q], to[q])
    BY <1>2, <2>1 DEF Supplied, Targets
  <2>4. Alone(items[q], word[q])' <=> Alone(items[q], word[q])
    BY <1>2, <2>1 DEF Alone
  <2>5. Sound(q)
    BY DEF TablesInv
  <2>6. (\A x, y : Related(x, y)' <=> Related(x, y)) /\ Parents(q)' = Parents(q)
    BY <1>2, <2>1 DEF Related, Parents
  <2>7. op[q] = "create" => \A y \in items[q] : tableOf[y] = "category" =>
           word[q] # 0 /\ \A x \in knew'[y] : x \in renamed \/ name[x] # word[q]
    BY <2>2, <2>5 DEF Sound
  <2> QED BY <1>2, <1>4, <2>1, <2>3, <2>4, <2>5, <2>6, <2>7 DEF Sound
<1>9. Sound(r)'
  <2>1. /\ op'[r] = what /\ items'[r] = xs /\ to'[r] = refs /\ word'[r] = w
        /\ sawOff'[r] = off
    BY <1>2 DEF TablesInv, RequestsOK
  <2>2. what = "create" => \A y \in xs : knew'[y] = Live(tableOf[y])
    BY <1>2, <1>3
  <2>3. Supplied(items[r], to[r])' <=> Supplied(xs, refs)
    BY <1>2, <2>1 DEF Supplied, Targets
  <2>4. Alone(items[r], word[r])' <=> Alone(xs, w)
    BY <1>2, <2>1 DEF Alone
  <2>5. ASSUME what = "create", NEW y \in xs, tableOf[y] = "category"
        PROVE  w # 0 /\ \A x \in knew'[y] : name[x] # w
    BY <1>1, <2>2, <2>5 DEF Legal, Taken
  <2>6. Legal(what, xs, refs, w)
    BY <1>1
  <2> QED BY <1>2, <1>4, <2>1, <2>3, <2>4, <2>5, <2>6 DEF Sound, Legal, Related, Parents
<1>10. RowsConsistent'
  <2>1. ReferencesHold'
    BY <1>2 DEF TablesInv, RowsConsistent, ReferencesHold, Targets
  <2>2. \A y \in live : knew'[y] = knew[y]
    BY <1>3, <1>4, <1>5
  <2>3. NamesDistinct'
    <3>1. \A x : Targets(x, link)' = Targets(x, link)
      BY <1>2 DEF Targets
    <3> QED BY <1>2, <2>2, <3>1 DEF TablesInv, RowsConsistent, NamesDistinct
  <2> QED BY <2>1, <2>3 DEF RowsConsistent
<1> QED BY <1>6, <1>7, <1>8, <1>9, <1>10 DEF TablesInv

\* A call that returns keeps what the others have checked.
LEMMA ReturnSound ==
  ASSUME TablesInv, NEW r \in Requests, Return(r), UNCHANGED knew,
         renamed \subseteq renamed', off' \subseteq Rows,
         Made' = Made \/ (Made' = Made \cup items[r] /\ op[r] \in {"create", "reply"}),
         \A x \in Made : name'[x] = name[x] \/ x \in renamed'
  PROVE  RequestsOK' /\ \A q \in Requests : Sound(q)'
<1>1. /\ pc' = [pc EXCEPT ![r] = "idle"] /\ op' = [op EXCEPT ![r] = "none"]
      /\ items' = [items EXCEPT ![r] = {}] /\ to' = [to EXCEPT ![r] = {}]
      /\ word' = [word EXCEPT ![r] = 0] /\ sawOff' = [sawOff EXCEPT ![r] = {}]
      /\ tableOf' = tableOf
  BY DEF Return
<1>2. RequestsOK'
  BY <1>1 DEF TablesInv, RequestsOK
<1>3. Sound(r)'
  <2>1. op'[r] = "none"
    BY <1>1 DEF TablesInv, RequestsOK
  <2> QED BY <2>1 DEF Sound
<1>4. ASSUME NEW q \in Requests, q # r
      PROVE  Sound(q)'
  <2>1. /\ op'[q] = op[q] /\ items'[q] = items[q] /\ to'[q] = to[q] /\ word'[q] = word[q]
        /\ sawOff'[q] = sawOff[q] /\ items[q] \subseteq Rows
    BY <1>1, <1>4 DEF TablesInv, RequestsOK
  <2>2. op[q] \in {"create", "reply"} /\ items[q] \cap Made = {} => items[q] \cap Made' = {}
    BY <1>4 DEF TablesInv, RequestsOK
  <2>3. Supplied(items[q], to[q])' <=> Supplied(items[q], to[q])
    BY <1>1, <2>1 DEF Supplied, Targets
  <2>4. Alone(items[q], word[q])' <=> Alone(items[q], word[q])
    BY <1>1, <2>1 DEF Alone
  <2>5. \A y \in items[q] : \A x \in knew[y] :
           x \in renamed \/ name[x] # word[q] => x \in renamed' \/ name'[x] # word[q]
    BY <2>1 DEF TablesInv, TablesOK
  <2>6. Sound(q)
    BY DEF TablesInv
  <2> QED BY <1>1, <2>1, <2>2, <2>3, <2>4, <2>5, <2>6 DEF Sound, Related, Parents
<1> QED BY <1>2, <1>3, <1>4
\* What a row refers to depends on the references of that row alone.
LEMMA TargetsEqual ==
  ASSUME NEW x, NEW f, NEW g, \A e : e[1] = x => (e \in f <=> e \in g)
  PROVE  Targets(x, f) = Targets(x, g)
BY DEF Targets

\* The rows that Add appends to made are those of the request.
LEMMA AddMakes ==
  ASSUME TablesInv, NEW r \in Requests, Add(r)
  PROVE  made' \in Seq(Rows) /\ Made' = Made \cup items[r]
<1>1. items[r] \subseteq Rows /\ made \in Seq(Rows)
  BY DEF TablesInv, TablesOK, RequestsOK
<1>2. Cardinality(items[r]) \in Nat
  BY <1>1, TablesAssumption, FS_Subset, FS_CardinalityType
<1>3. PICK f \in [1 .. Cardinality(items[r]) -> items[r]] :
         (\A x \in items[r] : \E i \in DOMAIN f : f[i] = x) /\ made' = made \o f
  BY DEF Add
<1>4. f \in Seq(Rows) /\ DOMAIN f = 1 .. Len(f) /\ Len(f) \in Nat
  <2> DEFINE n == Cardinality(items[r])
  <2>1. n \in Nat /\ f \in [1 .. n -> Rows]
    BY <1>1, <1>2, <1>3
  <2> HIDE DEF n
  <2>2. f \in Seq(Rows)
    BY <2>1
  <2> QED BY <2>2
<1>5. /\ made' \in Seq(Rows)
      /\ Len(made') = Len(made) + Len(f)
      /\ \A i \in 1 .. Len(made) + Len(f) :
            made'[i] = IF i <= Len(made) THEN made[i] ELSE f[i - Len(made)]
  BY <1>1, <1>3, <1>4
<1>6. DOMAIN made' = 1 .. Len(made) + Len(f) /\ DOMAIN made = 1 .. Len(made) /\ Len(made) \in Nat
  BY <1>1, <1>5
<1>7. ASSUME NEW x \in Made'
      PROVE  x \in Made \cup items[r]
  <2>1. PICK i \in 1 .. Len(made) + Len(f) : made'[i] = x
    BY <1>6, <1>7 DEF Made
  <2>2. CASE i <= Len(made)
    BY <2>1, <2>2, <1>5, <1>6 DEF Made
  <2>3. CASE ~(i <= Len(made))
    <3>1. i - Len(made) \in 1 .. Len(f) /\ f[i - Len(made)] = x
      BY <2>1, <2>3, <1>4, <1>5, <1>6
    <3> QED BY <3>1, <1>3, <1>4
  <2> QED BY <2>2, <2>3
<1>8. ASSUME NEW x \in Made
      PROVE  x \in Made'
  <2>1. PICK i \in 1 .. Len(made) : made[i] = x
    BY <1>6, <1>8 DEF Made
  <2>2. i \in DOMAIN made' /\ made'[i] = x
    BY <2>1, <1>4, <1>5, <1>6
  <2> QED BY <2>2 DEF Made
<1>9. ASSUME NEW x \in items[r]
      PROVE  x \in Made'
  <2>1. PICK i \in 1 .. Len(f) : f[i] = x
    BY <1>3, <1>4, <1>9
  <2>2. /\ i + Len(made) \in DOMAIN made' /\ ~(i + Len(made) <= Len(made))
        /\ (i + Len(made)) - Len(made) = i
    BY <2>1, <1>4, <1>6
  <2>3. made'[i + Len(made)] = x
    BY <2>1, <2>2, <1>5, <1>6
  <2> QED BY <2>2, <2>3 DEF Made
<1> QED BY <1>5, <1>7, <1>8, <1>9

\* The insertion of rows: the unique indexes keep apart from the rows that are
\* there what the checks did not.
LEMMA AddInv ==
  ASSUME TablesInv, NEW r \in Requests, NEW what \in {"create", "reply"}, Write(r, what),
         Add(r), off' \subseteq Rows
  PROVE  TablesInv'
<1>1. /\ live' = live \cup items[r] /\ name' = Named(r) /\ link' = link \cup to[r]
      /\ UNCHANGED <<tableOf, knew, renamed, torn>>
  BY DEF Add, Write, Return
<1>2. /\ op[r] = what /\ Parents(r) \subseteq live /\ ~Clash(r) /\ Return(r)
  BY DEF Write, Possible
<1>3. /\ items[r] \subseteq Rows /\ items[r] \cap Made = {} /\ Supplied(items[r], to[r])
      /\ Alone(items[r], word[r]) /\ to[r] \subseteq Rows \X Rows
      /\ \A e \in to[r] : e[1] \in items[r] /\ Related(e[1], e[2])
      /\ word[r] \in Names \cup {0}
  BY <1>2 DEF TablesInv, RequestsOK, Sound
<1>4. made' \in Seq(Rows) /\ Made' = Made \cup items[r]
  BY AddMakes
<1>5. live \subseteq Made /\ name \in [Rows -> Names \cup {0}] /\ Made \subseteq Rows
  BY DEF TablesInv, TablesOK, Made
<1>6. \A x \in Rows : name'[x] = IF x \in items[r] /\ word[r] # 0 THEN word[r] ELSE name[x]
  BY <1>1 DEF Named
<1>7. \A e \in link : e[1] \in live /\ e[2] \in live /\ e[1] \notin items[r]
  BY <1>3, <1>5 DEF TablesInv, TablesOK
<1>8. \A e \in to[r] : e = <<e[1], e[2]>> /\ e[1] \in items[r] /\ e[2] \in live
  BY <1>2, <1>3 DEF Parents
<1>9. RequestsOK' /\ \A q \in Requests : Sound(q)'
  BY <1>1, <1>2, <1>3, <1>4, <1>5, <1>6, ReturnSound
<1>10. TablesOK'
  <2>1. name' \in [Rows -> Names \cup {0}]
    BY <1>1, <1>3, <1>5 DEF Named
  <2>2. \A e \in link' : e \in live' \X live' /\ Related(e[1], e[2])'
    BY <1>1, <1>3, <1>8 DEF TablesInv, TablesOK, Related
  <2>3. (\A x \in Rows \ Made' : name'[x] = 0) /\ \A x \in Rows : knew'[x] \subseteq Made'
    BY <1>1, <1>4, <1>6 DEF TablesInv, TablesOK
  <2> QED BY <1>1, <1>4, <1>5, <2>1, <2>2, <2>3 DEF TablesOK
<1>11. (\A x \in live : Targets(x, link') = Targets(x, link))
       /\ \A x \in items[r] : Targets(x, link') = Targets(x, to[r])
  <2>1. ASSUME NEW x \in live PROVE Targets(x, link') = Targets(x, link)
    <3>1. x \notin items[r]
      BY <1>3, <1>5
    <3> QED BY <1>1, <1>8, <3>1, TargetsEqual
  <2>2. ASSUME NEW x \in items[r] PROVE Targets(x, link') = Targets(x, to[r])
    BY <1>1, <1>7, TargetsEqual
  <2> QED BY <2>1, <2>2
<1>12. ReferencesHold'
  <2>1. \A e \in link' : e[1] \in live' /\ e[2] \in live'
    BY <1>1, <1>7, <1>8
  <2>2. \A x \in live' : \A t \in Required : t[1] = tableOf'[x] =>
           \E p \in Targets(x, link') : tableOf'[p] = t[2]
    BY <1>1, <1>3, <1>11 DEF TablesInv, RowsConsistent, ReferencesHold, Supplied
  <2> QED BY <1>1, <2>1, <2>2 DEF TablesInv, RowsConsistent, ReferencesHold
<1>13. NamesDistinct'
  <2> SUFFICES ASSUME NEW x \in live', NEW y \in live', x # y, tableOf[x] = tableOf[y]
               PROVE  /\ tableOf[x] \in Unique /\ name'[x] # 0 => name'[x] # name'[y]
                      /\ tableOf[x] \in OneFor => Targets(x, link') # Targets(y, link')
                      /\ tableOf[x] = "category" /\ name'[x] = name'[y] =>
                            y \in renamed \/ x \notin knew[y] \/ x \in renamed
    BY <1>1 DEF NamesDistinct
  <2>1. \A z \in live : name'[z] = name[z] /\ z \notin items[r] /\ z \in Rows
    BY <1>3, <1>5, <1>6
  <2>2. \A z \in items[r] : name'[z] = word[r] /\ z \in Rows
    BY <1>3, <1>5, <1>6 DEF TablesInv, TablesOK
  <2>3. CASE x \in live /\ y \in live
    BY <1>11, <2>1, <2>3 DEF TablesInv, RowsConsistent, NamesDistinct
  <2>4. CASE x \in items[r] /\ y \in items[r]
    BY <1>3, <2>2, <2>4 DEF Alone
  <2>5. \A u \in items[r], z \in live : tableOf[u] = tableOf[z] =>
           /\ tableOf[u] \in Unique /\ word[r] # 0 => name[z] # word[r]
           /\ tableOf[u] \in OneFor => Targets(u, to[r]) # Targets(z, link)
    <3> SUFFICES ASSUME NEW u \in items[r], NEW z \in live, tableOf[u] = tableOf[z]
                 PROVE  /\ tableOf[u] \in Unique /\ word[r] # 0 => name[z] # word[r]
                        /\ tableOf[u] \in OneFor => Targets(u, to[r]) # Targets(z, link)
      OBVIOUS
    <3>1. z \in Live(tableOf[u]) \ {u}
      BY <2>1 DEF Live
    <3>2. CASE what = "create"
      BY <1>2, <3>1, <3>2 DEF Clash
    <3>3. CASE what = "reply"
      <4>1. tableOf[u] = "message"
        BY <1>2, <3>3 DEF TablesInv, Sound
      <4> QED BY <4>1 DEF Unique, OneFor
    <3> QED BY <3>2, <3>3
  <2>6. ASSUME NEW u \in items[r], tableOf[u] = "category"
        PROVE  \A z \in knew[u] : z \in renamed \/ name[z] # word[r]
    BY <1>2, <2>6 DEF TablesInv, Sound
  <2>7. \A z \in live : knew[z] \subseteq Made
    BY <2>1 DEF TablesInv, TablesOK
  <2>8. CASE x \in items[r] /\ y \in live
    BY <1>3, <1>11, <2>1, <2>2, <2>5, <2>7, <2>8
  <2>9. CASE x \in live /\ y \in items[r]
    BY <1>11, <2>1, <2>2, <2>5, <2>6, <2>9
  <2> QED BY <1>1, <2>3, <2>4, <2>8, <2>9
<1> QED BY <1>9, <1>10, <1>12, <1>13 DEF TablesInv, RowsConsistent
\* A change: the references given replace others to rows of the same tables,
\* so none is missing; the name given is no other's, or the row counts as renamed.
LEMMA UpdateInv ==
  ASSUME TablesInv, NEW r \in Requests, Update(r)
  PROVE  TablesInv'
<1> DEFINE kept == {e \in link : \A f \in to[r] : e[1] = f[1] => tableOf[e[2]] # tableOf[f[2]]}
<1>1. /\ name' = Named(r) /\ link' = kept \cup to[r] /\ Return(r)
      /\ renamed' = renamed \cup {x \in items[r] : word[r] # 0}
      /\ UNCHANGED <<tableOf, live, made, off, knew, torn>>
  BY DEF Update, Write, Return
<1>2. op[r] = "update" /\ items[r] \subseteq live /\ Parents(r) \subseteq live /\ ~Clash(r)
  BY DEF Update, Write, Possible
<1>3. /\ \A e \in to[r] : e[1] \in items[r] /\ Related(e[1], e[2])
      /\ Alone(items[r], word[r]) /\ to[r] \subseteq Rows \X Rows
      /\ \A x \in items[r] : tableOf[x] \in OneFor => to[r] = {}
      /\ word[r] \in Names \cup {0}
  BY <1>2 DEF TablesInv, RequestsOK, Sound
<1>4. Made' = Made /\ live \subseteq Made /\ Made \subseteq Rows
  BY <1>1 DEF Made, TablesInv, TablesOK
<1>5. \A x \in Rows : name'[x] = IF x \in items[r] /\ word[r] # 0 THEN word[r] ELSE name[x]
  BY <1>1 DEF Named
<1>6. \A e \in to[r] : e = <<e[1], e[2]>> /\ e[1] \in live /\ e[2] \in live
  BY <1>2, <1>3 DEF Parents
<1>7. RequestsOK' /\ \A q \in Requests : Sound(q)'
  <2>1. off' \subseteq Rows
    BY <1>1 DEF TablesInv, RequestsOK
  <2>2. \A x \in Made : name'[x] = name[x] \/ x \in renamed'
    BY <1>1, <1>4, <1>5
  <2> QED BY <1>1, <1>4, <2>1, <2>2, ReturnSound
<1>8. TablesOK'
  <2>1. name' \in [Rows -> Names \cup {0}]
    BY <1>1, <1>3 DEF Named, TablesInv, TablesOK
  <2>2. \A e \in link' : e \in live' \X live' /\ Related(e[1], e[2])'
    BY <1>1, <1>3, <1>6 DEF TablesInv, TablesOK, Related
  <2>3. \A x \in Rows \ Made' : name'[x] = 0
    BY <1>2, <1>4, <1>5 DEF TablesInv, TablesOK
  <2> QED BY <1>1, <1>4, <2>1, <2>2, <2>3 DEF TablesInv, TablesOK
<1>9. ReferencesHold'
  <2>1. \A e \in link' : e[1] \in live /\ e[2] \in live
    BY <1>1, <1>6 DEF TablesInv, TablesOK
  <2>2. ASSUME NEW x \in live, NEW t \in Required, t[1] = tableOf[x]
        PROVE  \E p \in Targets(x, link') : tableOf[p] = t[2]
    <3>1. PICK p \in Targets(x, link) : tableOf[p] = t[2]
      BY <2>2 DEF TablesInv, RowsConsistent, ReferencesHold
    <3>2. PICK e \in link : e[1] = x /\ e[2] = p
      BY <3>1 DEF Targets
    <3>3. CASE e \in kept
      BY <1>1, <3>1, <3>2, <3>3 DEF Targets
    <3>4. CASE e \notin kept
      <4>1. PICK f \in to[r] : e[1] = f[1] /\ tableOf[e[2]] = tableOf[f[2]]
        BY <3>4
      <4>2. f[2] \in Targets(x, link')
        BY <1>1, <3>2, <4>1 DEF Targets
      <4> QED BY <3>1, <3>2, <4>1, <4>2
    <3> QED BY <3>3, <3>4
  <2> QED BY <1>1, <2>1, <2>2 DEF TablesInv, RowsConsistent, ReferencesHold
<1>10. ASSUME NEW x \in live, tableOf[x] \in OneFor
       PROVE  Targets(x, link') = Targets(x, link)
  <2>1. \A f \in to[r] : f[1] # x
    BY <1>3, <1>10
  <2> QED BY <1>1, <2>1, TargetsEqual
<1>11. NamesDistinct'
  <2> SUFFICES ASSUME NEW x \in live, NEW y \in live, x # y, tableOf[x] = tableOf[y]
               PROVE  /\ tableOf[x] \in Unique /\ name'[x] # 0 => name'[x] # name'[y]
                      /\ tableOf[x] \in OneFor => Targets(x, link') # Targets(y, link')
                      /\ tableOf[x] = "category" /\ name'[x] = name'[y] =>
                            y \in renamed' \/ x \notin knew[y] \/ x \in renamed'
    BY <1>1 DEF NamesDistinct
  <2>1. tableOf[x] \in OneFor => Targets(x, link') # Targets(y, link')
    BY <1>10 DEF TablesInv, RowsConsistent, NamesDistinct
  <2>2. x \in Rows /\ y \in Rows
    BY <1>4
  <2>3. CASE word[r] = 0 \/ (x \notin items[r] /\ y \notin items[r])
    BY <1>1, <1>5, <2>1, <2>2, <2>3 DEF TablesInv, RowsConsistent, NamesDistinct
  <2>4. CASE word[r] # 0 /\ (x \in items[r] \/ y \in items[r])
    <3>1. \A u \in items[r], z \in live : tableOf[u] = tableOf[z] /\ u # z =>
             (tableOf[u] \in Unique => name[z] # word[r]) /\ z \notin items[r]
      BY <1>2, <1>3, <2>4 DEF Clash, Live, Alone
    <3> QED BY <1>1, <1>5, <2>1, <2>2, <2>4, <3>1
  <2> QED BY <2>3, <2>4
<1> QED BY <1>7, <1>8, <1>9, <1>11 DEF TablesInv, RowsConsistent

\* A deletion: no row needs what is deleted, so what refers to it loses a
\* reference it can be without, or was counted at the check and had none.
LEMMA RemoveInv ==
  ASSUME TablesInv, NEW r \in Requests, Remove(r)
  PROVE  TablesInv'
<1>1. /\ live' = live \ items[r] /\ off' = off \ items[r] /\ Return(r)
      /\ link' = {e \in link : e[1] \notin items[r] /\ e[2] \notin items[r]}
      /\ torn' = torn \cup {e \in link \cap to[r] : e[2] \in items[r]}
      /\ UNCHANGED <<tableOf, made, name, knew, renamed>>
  BY DEF Remove, Write, Return
<1>2. op[r] = "delete" /\ \A x \in items[r] : Needing(x) = {}
  BY DEF Remove, Write, Possible
<1>3. Made' = Made
  BY <1>1 DEF Made
<1>4. RequestsOK' /\ \A q \in Requests : Sound(q)'
  <2>1. off' \subseteq Rows
    BY <1>1 DEF TablesInv, RequestsOK
  <2> QED BY <1>1, <1>3, <2>1, ReturnSound
<1>5. TablesOK'
  BY <1>1, <1>3 DEF TablesInv, TablesOK, Related
<1>6. ASSUME NEW e \in link, e[1] \notin items[r], <<tableOf[e[1]], tableOf[e[2]]>> \in Required
      PROVE  e \in link'
  <2>1. e[1] \in live /\ e = <<e[1], e[2]>>
    BY DEF TablesInv, TablesOK
  <2>2. e[1] \in Needing(e[2])
    BY <1>6, <2>1 DEF Needing, Children
  <2> QED BY <1>1, <1>2, <1>6, <2>2
<1>7. ReferencesHold'
  <2>1. \A e \in link' : e[1] \in live' /\ e[2] \in live'
    BY <1>1 DEF TablesInv, TablesOK
  <2>2. ASSUME NEW x \in live', NEW t \in Required, t[1] = tableOf[x]
        PROVE  \E p \in Targets(x, link') : tableOf[p] = t[2]
    <3>1. PICK p \in Targets(x, link) : tableOf[p] = t[2]
      BY <1>1, <2>2 DEF TablesInv, RowsConsistent, ReferencesHold
    <3>2. PICK e \in link : e[1] = x /\ e[2] = p
      BY <3>1 DEF Targets
    <3>3. <<tableOf[e[1]], tableOf[e[2]]>> = t
      BY <2>2, <3>1, <3>2 DEF Required
    <3>4. e \in link'
      BY <1>1, <1>6, <3>2, <3>3
    <3> QED BY <3>1, <3>2, <3>4 DEF Targets
  <2>3. \A e \in torn' : tableOf[e[2]] \notin Counted
    BY <1>1, <1>2 DEF TablesInv, Sound, RowsConsistent, ReferencesHold, Counted
  <2> QED BY <1>1, <2>1, <2>2, <2>3 DEF ReferencesHold, Counted
<1>8. ASSUME NEW x \in live', tableOf[x] \in OneFor
      PROVE  Targets(x, link') = Targets(x, link)
  <2>1. ASSUME NEW e \in link, e[1] = x
        PROVE  e \in link'
    <3>1. Related(e[1], e[2])
      BY DEF TablesInv, TablesOK
    <3>2. \A t \in Optional : t[1] \notin OneFor
      BY DEF Optional, OneFor
    <3>3. <<tableOf[e[1]], tableOf[e[2]]>> \in Required
      BY <1>8, <2>1, <3>1, <3>2 DEF Related
    <3> QED BY <1>1, <1>6, <2>1, <3>3
  <2> QED BY <1>1, <2>1, TargetsEqual
<1>9. NamesDistinct'
  BY <1>1, <1>8 DEF TablesInv, RowsConsistent, NamesDistinct
<1> QED BY <1>4, <1>5, <1>7, <1>9 DEF TablesInv, RowsConsistent

\* What is closed or opened, and a call that is refused.
LEMMA SetInv ==
  ASSUME TablesInv, NEW r \in Requests, SetOff(r) \/ SetOn(r) \/ Refused(r)
  PROVE  TablesInv'
<1>1. /\ Return(r) /\ UNCHANGED <<tableOf, live, made, name, link, knew, renamed, torn>>
      /\ off' \in {off, off \cup items[r], off \ items[r]}
  BY DEF SetOff, SetOn, Refused, Write, Return, rows
<1>2. Made' = Made /\ off' \subseteq Rows
  BY <1>1 DEF Made, TablesInv, RequestsOK
<1>3. RequestsOK' /\ \A q \in Requests : Sound(q)'
  BY <1>1, <1>2, ReturnSound
<1>4. TablesOK'
  BY <1>1, <1>2 DEF TablesInv, TablesOK, Related
<1>5. RowsConsistent'
  <2>1. \A x : Targets(x, link)' = Targets(x, link)
    BY <1>1 DEF Targets
  <2> QED BY <1>1, <2>1 DEF TablesInv, RowsConsistent, ReferencesHold, NamesDistinct
<1> QED BY <1>3, <1>4, <1>5 DEF TablesInv

Writes(r) ==
    \/ Insert(r) \/ InsertReply(r) \/ Update(r) \/ Remove(r)
    \/ SetOff(r) \/ SetOn(r) \/ Refused(r)
\* The repositories write in these ways and in no other.
LEMMA StoreWrites ==
  ASSUME NEW r \in Requests, Store(r)
  PROVE  Writes(r)
BY DEF Store, Writes, CategoryRows, PlanRows, CouponRows, SubscriptionRows, PackageRows,
       VoucherRows, AdminVoucherRows, ReferralRows, LocationRows, IpPoolRows, NodeRows,
       TemplateRows, UserRows, LedgerRows, AuditLogRows, RoleRows, UserRoleRows,
       RolePermissionRows, SupportRows, TicketRows, TopicRows, ArticleRows, SshKeyRows,
       ApiKeyRows, SubuserRows, NotificationRows, ProfileRows, PreferenceRows, VmRows

\* A step writes nothing of the tables, or is one of a call.
LEMMA TablesStep ==
  ASSUME [Next]_vars
  PROVE  \/ UNCHANGED tableVars
         \/ /\ Disturb
            /\ \E r \in Requests : Handle(r) \/ (pc[r] = "checked" /\ Store(r))
BY DEF Next, vars

\* Every step keeps the invariant of the rows and the requests, ...
LEMMA TablesNext == TablesInv /\ [Next]_vars => TablesInv'
<1> SUFFICES ASSUME TablesInv, [Next]_vars PROVE TablesInv'
  OBVIOUS
<1>1. CASE UNCHANGED tableVars
  <2>1. UNCHANGED <<tableOf, live, made, off, name, link, pc, op, items, to, word,
                    sawOff, knew, renamed, torn>>
    BY <1>1 DEF tableVars, rows, requests, history
  <2>2. /\ Made' = Made /\ (\A x, y : Related(x, y)' <=> Related(x, y))
        /\ (\A x : Targets(x, link)' = Targets(x, link))
        /\ (\A xs, refs : Supplied(xs, refs)' <=> Supplied(xs, refs))
        /\ (\A xs, w : Alone(xs, w)' <=> Alone(xs, w))
        /\ (\A r : Parents(r)' = Parents(r))
    BY <2>1 DEF Made, Related, Targets, Supplied, Alone, Parents
  <2>3. TablesOK' /\ RequestsOK' /\ RowsConsistent'
    BY <2>1, <2>2 DEF TablesInv, TablesOK, RequestsOK, RowsConsistent, ReferencesHold,
                      NamesDistinct
  <2>4. \A r \in Requests : Sound(r)'
    BY <2>1, <2>2 DEF TablesInv, Sound
  <2> QED BY <2>3, <2>4 DEF TablesInv
<1>2. ASSUME NEW r \in Requests, Handle(r)
      PROVE  TablesInv'
  BY <1>2, HandleStarts, BeginInv
<1>3. ASSUME NEW r \in Requests, Store(r)
      PROVE  TablesInv'
  <2>1. CASE Insert(r)
    BY <2>1, AddInv DEF Insert, TablesInv, RequestsOK
  <2>2. CASE InsertReply(r)
    <3>1. off' \subseteq Rows
      BY <2>2 DEF InsertReply, TablesInv, RequestsOK
    <3> QED BY <2>2, <3>1, AddInv DEF InsertReply
  <2> QED BY <1>3, <2>1, <2>2, StoreWrites, UpdateInv, RemoveInv, SetInv DEF Writes
<1> QED BY <1>1, <1>2, <1>3, TablesStep
-----------------------------------------------------------------------------
(***************************************************************************)
(* How a scene begins                                                      *)
(***************************************************************************)
\* The elements of a finite set of numbers have the ranks from 1 to their number,
\* each its own.
LEMMA Ranks ==
  ASSUME NEW S \in SUBSET Nat, IsFiniteSet(S)
  PROVE  /\ Cardinality(S) \in Nat
         /\ \A x \in S : Cardinality({y \in S : y <= x}) \in 1 .. Cardinality(S)
         /\ \A x, z \in S :
               Cardinality({y \in S : y <= x}) = Cardinality({y \in S : y <= z}) => x = z
         /\ \A i \in 1 .. Cardinality(S) : \E x \in S : Cardinality({y \in S : y <= x}) = i
<1> DEFINE Upto(x) == {y \in S : y <= x}
           rank == [x \in S |-> Cardinality(Upto(x))]
           n == Cardinality(S)
<1>1. n \in Nat
  BY FS_CardinalityType
<1>2. ASSUME NEW x \in S
      PROVE  /\ Upto(x) \in SUBSET S /\ x \in Upto(x) /\ IsFiniteSet(Upto(x))
             /\ Cardinality(Upto(x)) \in 1 .. n
  <2>1. Upto(x) \in SUBSET S /\ x \in Upto(x)
    OBVIOUS
  <2>2. IsFiniteSet(Upto(x)) /\ Cardinality(Upto(x)) <= n
    BY <2>1, FS_Subset
  <2>3. Cardinality(Upto(x)) \in Nat
    BY <2>2, FS_CardinalityType
  <2>4. Cardinality(Upto(x)) # 0
    BY <2>1, <2>2, FS_EmptySet
  <2> QED BY <2>1, <2>2, <2>3, <2>4, <1>1
<1>3. ASSUME NEW x \in S, NEW z \in S, Cardinality(Upto(x)) = Cardinality(Upto(z))
      PROVE  x = z
  <2>1. ASSUME NEW a \in S, NEW b \in S, a < b
        PROVE  Cardinality(Upto(a)) # Cardinality(Upto(b))
    <3>1. ~(b <= a) /\ b <= b /\ \A y \in S : y <= a => y <= b
      BY <2>1
    <3>2. Upto(a) \in SUBSET Upto(b)
      BY <3>1
    <3>3. b \notin Upto(a) /\ b \in Upto(b)
      BY <3>1
    <3> HIDE DEF Upto
    <3> QED BY <3>2, <3>3, <1>2, FS_Subset
  <2> QED BY <1>3, <2>1
<1>4. rank \in Injection(S, 1 .. n)
  <2>1. rank \in [S -> 1 .. n]
    BY <1>2
  <2>2. \A x, z \in S : rank[x] = rank[z] => x = z
    BY <1>3
  <2> HIDE DEF rank, n
  <2> QED BY <2>1, <2>2 DEF Injection, IsInjective
<1>5. IsFiniteSet(1 .. n) /\ Cardinality(1 .. n) = n
  <2> HIDE DEF n
  <2> QED BY <1>1, FS_Interval
<1>6. rank \in Surjection(S, 1 .. n)
  BY <1>4, <1>5, FS_Injection
<1>7. \A i \in 1 .. n : \E x \in S : rank[x] = i
  BY <1>6 DEF Surjection
<1> QED BY <1>1, <1>2, <1>3, <1>7

\* A scene satisfies the invariant, ...
LEMMA TablesInit ==
  ASSUME NEW s \in Scenes, InitTables(s)
  PROVE  TablesInv
<1>1. /\ tableOf = s.table /\ live = s.live /\ name = s.name /\ link = s.link /\ off = {}
      /\ made = [i \in 1 .. Cardinality(s.live) |->
                    CHOOSE x \in s.live : Cardinality({y \in s.live : y <= x}) = i]
      /\ pc = [r \in Requests |-> "idle"] /\ op = [r \in Requests |-> "none"]
      /\ items = [r \in Requests |-> {}] /\ to = [r \in Requests |-> {}]
      /\ word = [r \in Requests |-> 0] /\ sawOff = [r \in Requests |-> {}]
      /\ knew = [x \in Rows |-> {}] /\ renamed = {} /\ torn = {}
  BY DEF InitTables
<1>2. SceneOK(s) /\ Rows \subseteq Nat /\ IsFiniteSet(Rows)
  BY TablesAssumption
<1>3. live \in SUBSET Rows /\ name \in [Rows -> Names \cup {0}] /\ link \subseteq live \X live
  BY <1>1, <1>2 DEF SceneOK
<1>4. live \in SUBSET Nat /\ IsFiniteSet(live)
  BY <1>2, <1>3, FS_Subset
<1> DEFINE n == Cardinality(live)
           rank(x) == Cardinality({y \in live : y <= x})
<1>5. /\ n \in Nat
      /\ \A x \in live : rank(x) \in 1 .. n
      /\ \A x, z \in live : rank(x) = rank(z) => x = z
      /\ \A i \in 1 .. n : \E x \in live : rank(x) = i
  BY <1>4, Ranks
<1>6. made = [i \in 1 .. n |-> CHOOSE x \in live : rank(x) = i]
  BY <1>1
<1> HIDE DEF n, rank
<1>7. \A i \in 1 .. n : made[i] \in live /\ rank(made[i]) = i
  BY <1>5, <1>6
<1>8. made \in [1 .. n -> live] /\ \A x \in live : made[rank(x)] = x
  BY <1>5, <1>6, <1>7
<1>9. made \in Seq(Rows) /\ live \subseteq Made
  BY <1>3, <1>5, <1>8 DEF Made
<1>10. TablesOK
  BY <1>1, <1>3, <1>9, SchemaAssumption DEF TablesOK, Related
<1>11. RequestsOK
  BY <1>1 DEF RequestsOK
<1>12. \A r \in Requests : Sound(r)
  BY <1>1 DEF Sound
<1>13. ReferencesHold
  BY <1>1, <1>3, SchemaAssumption DEF ReferencesHold
<1>14. NamesDistinct
  BY <1>1, <1>3, SchemaAssumption DEF NamesDistinct
<1> QED BY <1>10, <1>11, <1>12, <1>13, <1>14 DEF TablesInv, RowsConsistent

\* ... so it holds always.
LEMMA TablesAlways == Spec => []TablesInv
<1>1. Init => TablesInv
  BY TablesInit DEF Init
<1> QED BY <1>1, TablesNext, PTL DEF Spec

\* RowsConsistent for every scene, whatever its rows, and any number of calls at
\* the same time.
THEOREM RowsStayConsistent == Spec => []RowsConsistent
<1>1. TablesInv => RowsConsistent
  BY DEF TablesInv
<1> QED BY <1>1, TablesAlways, PTL

\* StaysOff for every scene and any number of calls: what is undone by a
\* deletion is gone, and what is undone by a reply was open at its check.
THEOREM OffStaysOff == Spec => StaysOff
<1> DEFINE Kept ==
      \A x \in live \cap live' : x \in off /\ x \notin off' =>
          \E r \in Requests :
             /\ pc[r] = "checked" /\ pc'[r] = "idle"
             /\ \/ op[r] = "open" /\ x \in items[r]
                \/ op[r] = "reply" /\ x \notin sawOff[r]
<1>1. TablesInv /\ [Next]_vars => [Kept]_vars
  <2> SUFFICES ASSUME TablesInv, [Next]_vars PROVE Kept
    OBVIOUS
  <2>1. CASE UNCHANGED tableVars
    BY <2>1 DEF tableVars, rows
  <2>2. ASSUME NEW r \in Requests, Handle(r)
        PROVE  Kept
    BY <2>2, HandleStarts DEF Starts, Begin, rows
  <2>3. ASSUME NEW r \in Requests, pc[r] = "checked", Writes(r)
        PROVE  Kept
    <3>1. pc'[r] = "idle"
      BY <2>3 DEF Writes, Insert, InsertReply, Update, Remove, SetOff, SetOn, Refused,
                  Write, Return, TablesInv, RequestsOK
    <3>2. CASE Insert(r) \/ Update(r) \/ SetOff(r) \/ Refused(r)
      BY <3>2 DEF Insert, Update, SetOff, Refused, rows
    <3>3. CASE Remove(r)
      BY <3>3 DEF Remove
    <3>4. CASE SetOn(r)
      BY <2>3, <3>1, <3>4 DEF SetOn, Write
    <3>5. CASE InsertReply(r)
      BY <2>3, <3>1, <3>5 DEF InsertReply, Write, TablesInv, Sound
    <3> QED BY <2>3, <3>2, <3>3, <3>4, <3>5 DEF Writes
  <2> QED BY <2>1, <2>2, <2>3, TablesStep, StoreWrites
<1> QED BY <1>1, TablesAlways, PTL DEF Spec, StaysOff
-----------------------------------------------------------------------------
(***************************************************************************)
(* The pages of a list                                                     *)
(***************************************************************************)
Listings ==
    [table : {"none", "user", "vm", "template", "voucher", "transaction", "auditLog"},
     active : BOOLEAN, done : SUBSET {"count", "rows"}]
\* The rows on the pages read so far.
Seen == Skip + IF "rows" \in listing.done THEN Limit ELSE 0

\* A row that the reader has not seen is on a page to come, unless the order
\* was disturbed; a count that the rows follow is still right.
ListsInv ==
    /\ listing \in Listings
    /\ page \in Nat /\ total \in Nat
    /\ disturbed \in BOOLEAN
    /\ listing # Closed /\ ~disturbed =>
          /\ atStart \subseteq Listed
          /\ \A x \in atStart \ shown : Position(x) >= Seen
          /\ listing.done = {"count"} => total = Cardinality(Listed)
          /\ Answered /\ page >= TotalPages => atStart \subseteq shown

\* The pages counted hold all the rows counted.
LEMMA PagesSuffice ==
  ASSUME NEW n \in Nat, NEW k \in Nat, k >= (n + Limit - 1) \div Limit
  PROVE  n <= (k - 1) * Limit + Limit /\ k * Limit = (k - 1) * Limit + Limit
<1> DEFINE q == (n + Limit - 1) \div Limit
           m == (n + Limit - 1) % Limit
<1>1. Limit \in Nat /\ Limit > 0
  BY LimitAssumption
<1>2. q \in Int /\ m \in 0 .. Limit - 1 /\ n + Limit - 1 = Limit * q + m
  BY <1>1
<1> HIDE DEF q, m
<1>3. n <= Limit * q
  BY <1>1, <1>2
<1>4. Limit * q <= Limit * k
  BY <1>1, <1>2 DEF q
<1> QED BY <1>1, <1>2, <1>3, <1>4
\* A row of the list has fewer rows before it than there are ...
PositionsOK ==
    /\ Cardinality(Listed) \in Nat
    /\ \A x \in Listed : Position(x) \in Nat /\ Position(x) < Cardinality(Listed)
\* ... in this state ...
LEMMA Positions == TablesInv => PositionsOK
<1> SUFFICES ASSUME TablesInv PROVE PositionsOK
  OBVIOUS
<1>1. live \subseteq Rows /\ live \subseteq Made /\ made \in Seq(Rows)
      /\ name \in [Rows -> Names \cup {0}]
  BY DEF TablesInv, TablesOK, Made
<1>2. Listed \in SUBSET Rows /\ Listed \subseteq live
  BY <1>1 DEF Listed, Live
<1>3. IsFiniteSet(Listed) /\ Cardinality(Listed) \in Nat
  BY <1>2, TablesAssumption, FS_Subset, FS_CardinalityType
<1>4. ASSUME NEW x \in Listed
      PROVE  Position(x) \in Nat /\ Position(x) < Cardinality(Listed)
  <2> DEFINE P == {y \in Listed : Before(y, x)}
  <2>1. ~Before(x, x)
    <3>1. name[x] \in Nat
      <4>1. x \in Rows /\ name[x] \in Names \cup {0}
        BY <1>1, <1>2
      <4>2. \A w \in Names \cup {0} : w \in Nat
        <5>1. \A w \in Names : w \in Nat
          BY TablesAssumption
        <5>2. 0 \in Nat
          OBVIOUS
        <5> QED BY <5>1, <5>2
      <4> QED BY <4>1, <4>2
    <3>2. \E i \in DOMAIN made : made[i] = x
      BY <1>1, <1>2 DEF Made
    <3>3. CreatedAt(x) \in DOMAIN made
      BY <3>2 DEF CreatedAt
    <3>4. CreatedAt(x) \in Nat
      BY <1>1, <3>3
    <3> QED BY <3>1, <3>4 DEF Before
  <2>2. P \in SUBSET Listed /\ x \notin P
    BY <2>1
  <2>3. IsFiniteSet(P) /\ Cardinality(P) <= Cardinality(Listed)
        /\ Cardinality(P) # Cardinality(Listed)
    <3> HIDE DEF P
    <3> QED BY <1>3, <1>4, <2>2, FS_Subset
  <2>4. Cardinality(P) \in Nat
    BY <2>3, FS_CardinalityType
  <2> QED BY <1>3, <2>3, <2>4 DEF Position
<1> QED BY <1>3, <1>4 DEF PositionsOK

\* ... and in the next.
LEMMA PositionsNext == TablesInv' => PositionsOK'
BY Positions, PTL

\* When the page and the count are there and none follows, all has been seen.
LEMMA AllSeen ==
  ASSUME TablesInv, page \in Nat, NEW n \in Nat, n = Cardinality(Listed),
         page >= (n + Limit - 1) \div Limit, atStart \subseteq Listed, NEW S,
         \A x \in atStart \ S : Position(x) >= Skip + Limit
  PROVE  atStart \subseteq S
<1> SUFFICES ASSUME NEW x \in atStart, x \notin S PROVE FALSE
  OBVIOUS
<1>1. Position(x) \in Nat /\ Position(x) < n
  BY Positions DEF PositionsOK
<1>2. n <= Skip + Limit /\ Skip + Limit \in Int
  BY PagesSuffice, LimitAssumption DEF Skip
<1> QED BY <1>1, <1>2

\* The list is the same while the rows and its table are.
LEMMA SameList ==
  ASSUME UNCHANGED <<tableOf, live, made, off, name>>,
         listing'.table = listing.table, listing'.active = listing.active
  PROVE  /\ Listed' = Listed
         /\ \A x : Position(x)' = Position(x)
<1>1. Listed' = Listed
  BY DEF Listed, Live
<1>2. \A x, y : Before(x, y)' <=> Before(x, y)
  BY DEF Before, CreatedAt
<1> QED BY <1>1, <1>2 DEF Position

\* A step of the reader keeps the invariant.
LEMMA ReaderStep ==
  ASSUME TablesInv, TablesInv', ListsInv, ListsNext, UNCHANGED tableVars
  PROVE  ListsInv'
<1>1. UNCHANGED <<tableOf, live, made, off, name>>
  BY DEF tableVars, rows
<1>2. Limit \in Nat /\ Limit # 0
  BY LimitAssumption
<1>3. CASE OpenList
  <2>1. PICK t \in {"user", "vm", "template", "voucher", "transaction", "auditLog"},
             a \in BOOLEAN : ReadFrom(t, a)
    BY <1>3 DEF OpenList, ListUsers, ListAllVms, ListTemplates, ListVouchers,
                ListTransactions, GetAuditLogs, GetActivities
  <2>2. /\ listing' = [table |-> t, active |-> a, done |-> {}]
        /\ page' = 1 /\ total' = 0 /\ disturbed' = FALSE
        /\ atStart' = {x \in Live(t) : a => x \notin off}
    BY <2>1 DEF ReadFrom
  <2>3. atStart' = Listed'
    BY <1>1, <2>2 DEF Listed, Live
  <2>4. Seen' = 0
    BY <1>2, <2>2 DEF Seen, Skip
  <2>5. \A x \in Listed' : Position(x)' >= 0
    BY PositionsNext DEF PositionsOK
  <2>6. ~Answered' /\ listing'.done # {"count"}
    BY <2>2 DEF Answered
  <2> QED BY <2>2, <2>3, <2>4, <2>5, <2>6 DEF ListsInv, Listings
<1>4. CASE CountRows
  <2>1. /\ "count" \notin listing.done /\ listing' = [listing EXCEPT !.done = @ \cup {"count"}]
        /\ total' = Cardinality(Listed) /\ UNCHANGED <<page, shown, atStart, disturbed>>
    BY <1>4 DEF CountRows, Read
  <2>2. /\ listing'.table = listing.table /\ listing'.active = listing.active
        /\ listing'.done = listing.done \cup {"count"}
        /\ listing' \in Listings
        /\ listing # Closed
    BY <2>1 DEF ListsInv, Closed, Listings
  <2>3. Listed' = Listed /\ \A x : Position(x)' = Position(x)
    BY <1>1, <2>2, SameList
  <2>4. Seen' = Seen /\ TotalPages' = (total' + Limit - 1) \div Limit
    BY <2>1, <2>2 DEF Seen, Skip, TotalPages
  <2>5. total' \in Nat
    BY <2>1, Positions DEF PositionsOK
  <2>6. ASSUME Answered', page' >= TotalPages', ~disturbed
        PROVE  atStart \subseteq shown
    <3>1. "rows" \in listing.done
      BY <2>2, <2>6 DEF Answered
    <3>2. \A x \in atStart \ shown : Position(x) >= Skip + Limit
      BY <2>2, <2>6, <3>1 DEF ListsInv, Seen
    <3>3. page \in Nat /\ atStart \subseteq Listed
      BY <2>2, <2>6 DEF ListsInv
    <3> QED BY <2>1, <2>4, <2>5, <2>6, <3>2, <3>3, AllSeen
  <2> QED BY <2>1, <2>2, <2>3, <2>4, <2>5, <2>6 DEF ListsInv
<1>5. CASE FindRows
  <2>1. /\ "rows" \notin listing.done /\ listing' = [listing EXCEPT !.done = @ \cup {"rows"}]
        /\ shown' = shown \cup {x \in Listed : Position(x) \in Skip .. (Skip + Limit - 1)}
        /\ UNCHANGED <<page, total, atStart, disturbed>>
    BY <1>5 DEF FindRows, Read
  <2>2. /\ listing'.table = listing.table /\ listing'.active = listing.active
        /\ listing'.done = listing.done \cup {"rows"}
        /\ listing' \in Listings
        /\ listing # Closed
    BY <2>1 DEF ListsInv, Closed, Listings
  <2>3. Listed' = Listed /\ \A x : Position(x)' = Position(x)
    BY <1>1, <2>2, SameList
  <2>4. Skip' = Skip /\ Skip \in Int /\ Seen = Skip /\ Seen' = Skip + Limit
        /\ TotalPages' = TotalPages
    BY <1>2, <2>1, <2>2 DEF Seen, Skip, TotalPages, ListsInv
  <2>5. ASSUME ~disturbed, NEW x \in atStart \ shown'
        PROVE  Position(x) >= Skip + Limit
    <3>1. x \in Listed /\ Position(x) >= Skip /\ Position(x) \in Nat
      BY <2>1, <2>2, <2>4, <2>5, Positions DEF ListsInv, PositionsOK
    <3>2. Position(x) \notin Skip .. (Skip + Limit - 1)
      BY <2>1, <2>5, <3>1
    <3> QED BY <1>2, <2>4, <3>1, <3>2
  <2>6. ASSUME Answered', page' >= TotalPages', ~disturbed
        PROVE  atStart \subseteq shown'
    <3>1. listing.done = {"count"}
      BY <2>1, <2>2, <2>6 DEF Answered
    <3>2. total = Cardinality(Listed) /\ page \in Nat /\ total \in Nat /\ atStart \subseteq Listed
      BY <2>2, <2>6, <3>1 DEF ListsInv
    <3>3. page >= (total + Limit - 1) \div Limit
      BY <2>1, <2>4, <2>6 DEF TotalPages
    <3> QED BY <2>5, <2>6, <3>2, <3>3, AllSeen
  <2>7. listing'.done # {"count"}
    BY <2>2
  <2> QED BY <2>1, <2>2, <2>3, <2>4, <2>5, <2>6, <2>7 DEF ListsInv
<1>6. CASE NextPage
  <2>1. /\ Answered /\ page' = page + 1 /\ listing' = [listing EXCEPT !.done = {}]
        /\ UNCHANGED <<total, shown, atStart, disturbed>>
    BY <1>6 DEF NextPage
  <2>2. /\ listing'.table = listing.table /\ listing'.active = listing.active
        /\ listing'.done = {}
        /\ listing' \in Listings
        /\ listing # Closed /\ "rows" \in listing.done
    BY <2>1 DEF ListsInv, Answered, Listings
  <2>3. Listed' = Listed /\ \A x : Position(x)' = Position(x)
    BY <1>1, <2>2, SameList
  <2>4. page \in Nat /\ page' - 1 = page
    BY <2>1 DEF ListsInv
  <2>5. page * Limit = (page - 1) * Limit + Limit
    BY <1>2, <2>4
  <2>6. Seen' = Seen
    <3>1. Seen = (page - 1) * Limit + Limit
      BY <2>2 DEF Seen, Skip
    <3>2. Seen' = page * Limit
      BY <1>2, <2>2, <2>4 DEF Seen, Skip
    <3> QED BY <2>5, <3>1, <3>2
  <2>7. ~Answered' /\ listing'.done # {"count"}
    BY <2>2 DEF Answered
  <2> QED BY <2>1, <2>2, <2>3, <2>4, <2>6, <2>7 DEF ListsInv
<1>7. CASE Leave
  BY <1>7 DEF Leave, Closed, ListsInv, Listings
<1> QED BY <1>3, <1>4, <1>5, <1>6, <1>7 DEF ListsNext

\* A write of a call leaves each row at its place or further behind, or disturbs.
LEMMA WriterStep ==
  ASSUME TablesInv, TablesInv', ListsInv, Disturb
  PROVE  ListsInv'
<1>1. UNCHANGED <<listing, page, total, shown, atStart>>
  BY DEF Disturb
<1>2. disturbed' \in BOOLEAN /\ (listing # Closed /\ ~disturbed' =>
         /\ ~disturbed /\ Listed \subseteq Listed' /\ ~Moved
         /\ listing.done = {"count"} => Listed' = Listed)
  <2>1. disturbed' = (disturbed \/ Disturbs)
    BY DEF Disturb
  <2>2. CASE disturbed \/ Disturbs
    <3>1. (disturbed \/ Disturbs) = TRUE
      BY <2>2
    <3> QED BY <2>1, <3>1
  <2>3. CASE ~(disturbed \/ Disturbs)
    <3>1. (disturbed \/ Disturbs) = FALSE
      BY <2>3
    <3>2. disturbed' = FALSE
      BY <2>1, <3>1
    <3> QED BY <2>3, <3>2 DEF Disturbs
  <2> QED BY <2>2, <2>3
<1>3. Seen' = Seen /\ (Answered' <=> Answered) /\ TotalPages' = TotalPages
  BY <1>1 DEF Seen, Skip, Answered, TotalPages
<1>4. ASSUME listing # Closed, ~disturbed', NEW x \in atStart, x \in Listed
      PROVE  Position(x) \in Nat /\ Position(x)' \in Nat /\ Position(x)' >= Position(x)
  <2> DEFINE P == {y \in Listed : Before(y, x)}
             Q == {y \in Listed : Before(y, x)}'
  <2>1. P \in SUBSET Q
    <3> SUFFICES ASSUME NEW y \in Listed, Before(y, x)
                 PROVE  y \in Listed' /\ Before(y, x)'
      OBVIOUS
    <3> QED BY <1>2, <1>4 DEF Moved
  <2>2. IsFiniteSet(Q)
    <3>1. Listed' \in SUBSET Rows
      BY DEF Listed, Live, TablesInv, TablesOK, Made
    <3>2. Q \in SUBSET Rows
      BY <3>1
    <3> HIDE DEF Q
    <3> QED BY <3>2, TablesAssumption, FS_Subset
  <2>3. Cardinality(P) <= Cardinality(Q)
    <3> HIDE DEF P, Q
    <3> QED BY <2>1, <2>2, FS_Subset
  <2>4. x \in Listed'
    BY <1>2, <1>4
  <2> QED BY <1>4, <2>3, <2>4, Positions, PositionsNext DEF PositionsOK, Position
<1>5. Seen \in Int
  BY LimitAssumption DEF ListsInv, Seen, Skip
<1>6. ASSUME listing # Closed, ~disturbed'
      PROVE  /\ atStart \subseteq Listed'
             /\ \A x \in atStart \ shown : Position(x)' >= Seen
             /\ listing.done = {"count"} => total = Cardinality(Listed')
             /\ Answered /\ page >= TotalPages => atStart \subseteq shown
  BY <1>2, <1>4, <1>5, <1>6 DEF ListsInv
<1> QED BY <1>1, <1>2, <1>3, <1>6 DEF ListsInv

\* PagesMissNothing for tables of any length, pages of any size, and any number
\* of calls that write meanwhile.
THEOREM ListsAreComplete == Spec => []PagesMissNothing
<1>1. Init => ListsInv
  <2> SUFFICES ASSUME Init PROVE ListsInv
    OBVIOUS
  <2>1. listing = Closed /\ page = 0 /\ total = 0 /\ disturbed = FALSE
    BY DEF Init, InitLists
  <2>2. Closed \in Listings
    BY DEF Closed, Listings
  <2> QED BY <2>1, <2>2 DEF ListsInv
<1>2. TablesInv /\ TablesInv' /\ ListsInv /\ [Next]_vars => ListsInv'
  <2> SUFFICES ASSUME TablesInv, TablesInv', ListsInv, [Next]_vars PROVE ListsInv'
    OBVIOUS
  <2>1. \/ ListsNext /\ UNCHANGED tableVars
        \/ Disturb
        \/ UNCHANGED <<tableVars, listVars>>
    BY DEF Next, vars
  <2>2. CASE UNCHANGED <<tableVars, listVars>>
    <3>1. /\ UNCHANGED <<tableOf, live, made, off, name>>
          /\ UNCHANGED <<listing, page, total, shown, atStart, disturbed>>
      BY <2>2 DEF tableVars, rows, listVars
    <3>2. Listed' = Listed /\ \A x : Position(x)' = Position(x)
      BY <3>1, SameList
    <3>3. Seen' = Seen /\ (Answered' <=> Answered) /\ TotalPages' = TotalPages
      BY <3>1 DEF Seen, Skip, Answered, TotalPages
    <3> QED BY <3>1, <3>2, <3>3 DEF ListsInv
  <2> QED BY <2>1, <2>2, ReaderStep, WriterStep
<1>3. ListsInv => PagesMissNothing
  BY DEF ListsInv, PagesMissNothing, Answered
<1> QED BY <1>1, <1>2, <1>3, TablesAlways, PTL DEF Spec
=============================================================================
