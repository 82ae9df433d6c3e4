------------------------------- MODULE TeamProofs -------------------------------
(***************************************************************************)
(* What holds of the team manager whatever the number of leaders, calls    *)
(* and drains and however the hooks are registered: the types; that        *)
(* sessionTeams and the team records agree and mail waits only for         *)
(* registered sessions; that team_updated does not come before the tool    *)
(* has done its work and a change is reported, if StateChange can see it;  *)
(* that two of a team share a name only after a call was left behind; and  *)
(* that no message is lost, repeated or out of order.                      *)
(***************************************************************************)
EXTENDS TeamCalls, SequenceTheorems, TLAPS

\* The hooks of a call have done nothing before it was made, ToolOffload returns
\* a result that is there, and StateChange outside of it begins after it returned.
HooksOK ==
  \A c \in Calls :
    /\ by[c] = None => place[c] = "none" /\ gave[c] = "none" /\ published[c] = {}
    /\ watch[c] = "on" => by[c] # None /\ Has("change")
    /\ watch[c] = "on" /\ ~ChangeInside => gave[c] \in {"result", "placeholder"}
    /\ gave[c] = "result" => place[c] \notin {"none", "tool"}

\* A call whose handler has not ended has made no team and brought no worker
\* into one.
NotYet ==
  \A c \in Calls : by[c] = None \/ place[c] = "tool" => sessionTeams[c] = None /\ teams[c] = None

\* A creation goes on in the handler of its AgentCreate.
CreatesInTool == \A c \in Calls : creating[c] # None =>
  by[c] # None /\ place[c] = "tool" /\ script[c].name = "AgentCreate"

\* The toolkit of the role had the tool that was called.
CallerRole == \A c \in Calls : by[c] # None => c \in DOMAIN script /\ HasTool(by[c], script[c])

IInv == /\ TypeOK /\ HooksOK /\ NotYet /\ CreatesInTool /\ CallerRole
        /\ MembershipAgrees /\ MailHasReader /\ TeamUpdatedAfterTool

USE CallsAssumption, SessionsAssumption, NamesAssumption, NoneAssumption

-------------------------------------------------------------------------------
\* The parts of the state that a step of the hooks or the handler's end leaves
\* to the other invariants.
LEMMA ScriptType == ASSUME TypeOK, NEW c \in DOMAIN script PROVE script[c] \in Tools
BY DEF TypeOK

LEMMA ToolArg ==
  ASSUME NEW tl \in Tools
  PROVE  /\ tl.name = "AgentCreate" => tl.arg \in Names
         /\ tl.name \in {"TeamCreate", "TeamDelete", "Update", "Function", "AgentCreate", "TeamSay"}
BY DEF Tools

LEMMA FinishToolType ==
  ASSUME HooksTypeOK, NEW c \in Calls, FinishTool(c)
  PROVE  HooksTypeOK'
<1>0. version \in [Sessions -> Nat] BY DEF HooksTypeOK
<1>1. version' \in [Sessions -> Nat]
  <2>1. PICK v : version' = [version EXCEPT ![by[c]] = v] /\ v \in {version[by[c]],
       version[by[c]] + 1}
    BY DEF FinishTool
  <2>2. by[c] \in Sessions => v \in Nat BY <1>0, <2>1
  <2> QED BY <1>0, <2>1, <2>2
<1>2. (kind[c] = "later") \in BOOLEAN OBVIOUS
<1>3. changed' \in [Calls -> BOOLEAN] BY <1>2, Zenon DEF HooksTypeOK, FinishTool
<1> QED BY <1>1, <1>3 DEF HooksTypeOK, FinishTool

LEMMA PublishType ==
  ASSUME HooksTypeOK, NEW c \in Calls, NEW b, NEW a, Publish(c, b, a)
  PROVE  published' \in [Calls -> SUBSET {"state_updated", "team_updated"}]
BY DEF HooksTypeOK, Publish

LEMMA SettleType ==
  ASSUME HooksTypeOK, NEW c \in Calls, Settle(c) \/ TimeOut(c) \/ ContextDone(c)
  PROVE  HooksTypeOK'
<1>1. ASSUME ReadResult(c) PROVE HooksTypeOK' BY <1>1 DEF HooksTypeOK, ReadResult, EndCall
<1>2. ASSUME StartWatch(c) PROVE HooksTypeOK' BY <1>2 DEF HooksTypeOK, StartWatch
<1>3. ASSUME FinishWatch(c) PROVE HooksTypeOK'
  <2>1. published' \in [Calls -> SUBSET {"state_updated", "team_updated"}]
    BY <1>3, PublishType DEF FinishWatch
  <2>2. place' \in [Calls -> {"none", "tool", "channel", "passed", "reply", "sink"}]
    BY <1>3 DEF HooksTypeOK, FinishWatch
  <2>3. ended' \in [Calls -> BOOLEAN] BY <1>3, ZenonT(60) DEF HooksTypeOK, FinishWatch, EndCall
  <2> QED BY <1>3, <2>1, <2>2, <2>3 DEF HooksTypeOK, FinishWatch
<1>4. ASSUME TakeResult(c) PROVE HooksTypeOK'
  BY <1>4, ZenonT(60) DEF HooksTypeOK, TakeResult, Give, EndCall
<1>5. ASSUME DeliverOffloaded(c) PROVE HooksTypeOK' BY <1>5 DEF HooksTypeOK, DeliverOffloaded
<1>6. ASSUME TimeOut(c) PROVE HooksTypeOK' BY <1>6, ZenonT(60) DEF HooksTypeOK, TimeOut, Give,
             EndCall
<1>7. ASSUME ContextDone(c) PROVE HooksTypeOK'
  <2>1. published' \in [Calls -> SUBSET {"state_updated", "team_updated"}]
    BY <1>7, PublishType DEF ContextDone, HooksTypeOK
  <2>2. after' \in [Calls -> Nat] BY <1>7 DEF HooksTypeOK, ContextDone
  <2> QED BY <1>7, <2>1, <2>2, ZenonT(60) DEF HooksTypeOK, ContextDone, Give, EndCall
<1> QED BY <1>1, <1>2, <1>3, <1>4, <1>5, <1>6, <1>7 DEF Settle

LEMMA DeliverType ==
  ASSUME TeamTypeOK, NEW S, Deliver(S)
  PROVE  inbox' \in [Sessions -> Seq(Nat)] /\ sent' \in [Sessions -> Nat]
BY DEF TeamTypeOK, Deliver

LEMMA RecordType ==
  ASSUME NEW r \in Record, NEW c \in Calls
  PROVE  [r EXCEPT !.ids = Append(@, c)] \in Record
<1>1. r.ids \in Seq(Calls) BY DEF Record
<1>2. Append(r.ids, c) \in Seq(Calls) BY <1>1
<1>3. \A x \in Seq(Calls) : [r EXCEPT !.ids = x] \in Record BY DEF Record
<1> QED BY <1>2, <1>3

LEMMA LedTeamType ==
  ASSUME TeamTypeOK, NEW s \in Sessions, LedTeam(s) # None
  PROVE  /\ LedTeam(s) \in Calls /\ teams[LedTeam(s)] \in Record
         /\ sessionTeams[s] = LedTeam(s) /\ teams[LedTeam(s)].leader = s
         /\ participants[s] # None
BY DEF TeamTypeOK, LedTeam, CurrentTeam

\* One entry of teams is replaced.
LEMMA TeamsType ==
  ASSUME TeamTypeOK, NEW t \in Calls, NEW r \in Record \cup {None},
         teams' = [teams EXCEPT ![t] = r]
  PROVE  teams' \in [Calls -> Record \cup {None}]
<1>1. teams \in [Calls -> Record \cup {None}] BY DEF TeamTypeOK
<1> QED BY <1>1

-------------------------------------------------------------------------------
LEMMA CreateTeamType ==
  ASSUME TeamTypeOK, NEW c \in Calls, NEW s \in Leaders, CreateTeam(c, s)
  PROVE  TeamTypeOK'
<1>1. [leader |-> s, ids |-> <<>>] \in Record BY DEF Record
<1>2. teams' = teams \/ teams' = [teams EXCEPT ![c] = [leader |-> s, ids |-> <<>>]]
  BY DEF CreateTeam
<1>4. teams \in [Calls -> Record \cup {None}] BY DEF TeamTypeOK
<1>5. teams' \in [Calls -> Record \cup {None}] BY <1>1, <1>2, <1>4, TeamsType
<1>3. sessionTeams' \in [Sessions -> Calls \cup {None}] BY ZenonT(60) DEF TeamTypeOK, CreateTeam
<1> QED BY <1>5, <1>3 DEF TeamTypeOK, CreateTeam, mail, reading

LEMMA CheckNameType ==
  ASSUME TeamTypeOK, NEW c \in Calls, NEW s \in Leaders, NEW n \in Names, CheckName(c, s, n)
  PROVE  TeamTypeOK'
<1>1. s \in Sessions BY DEF Sessions
<1>2. LedTeam(s) # None => [step |-> "build", team |-> LedTeam(s), name |-> n] \in Creation
  BY <1>1, LedTeamType DEF Creation
<1> QED BY <1>2 DEF TeamTypeOK, CheckName, members, mail, reading

LEMMA CreationSteps ==
  ASSUME TeamTypeOK, NEW c \in Calls, BuildWorker(c) \/ RegisterWorker(c) \/ Join(c)
  PROVE  TeamTypeOK' /\ creating[c] \in Creation
<1>1. creating[c] \in Creation BY DEF TeamTypeOK, BuildWorker, RegisterWorker, Join
<1>2. creating[c].name \in Names /\ creating[c].team \in Calls BY <1>1 DEF Creation
<1>3. /\ [creating[c] EXCEPT !.step = "register"] \in Creation
      /\ [creating[c] EXCEPT !.step = "join"] \in Creation
  BY <1>1 DEF Creation
<1>8. creating \in [Calls -> Creation \cup {None}] BY DEF TeamTypeOK
<1>9. /\ participants \in [Sessions -> Names \cup {None}]
      /\ sessionTeams \in [Sessions -> Calls \cup {None}]
  BY DEF TeamTypeOK
<1>4. ASSUME BuildWorker(c) PROVE TeamTypeOK'
  <2>1. participants' \in [Sessions -> Names \cup {None}]
    <3>1. \/ participants' = participants
          \/ participants' = [participants EXCEPT ![c] = creating[c].name]
      BY <1>4 DEF BuildWorker
    <3> QED BY <3>1, <1>2, <1>9
  <2>2. creating' \in [Calls -> Creation \cup {None}]
    <3>1. PICK r \in {[creating[c] EXCEPT !.step = "register"], None} :
            creating' = [creating EXCEPT ![c] = r]
      BY <1>4 DEF BuildWorker
    <3>2. r \in Creation \cup {None} BY <1>3
    <3> QED BY <3>1, <3>2, <1>8
  <2>3. built' \subseteq Calls BY <1>4 DEF TeamTypeOK, BuildWorker
  <2> QED BY <1>4, <2>1, <2>2, <2>3 DEF TeamTypeOK, BuildWorker, mail, reading
<1>5. ASSUME RegisterWorker(c) PROVE TeamTypeOK'
  <2>1. participants' \in [Sessions -> Names \cup {None}]
    BY <1>5, <1>2 DEF TeamTypeOK, RegisterWorker
  <2>2. creating' \in [Calls -> Creation \cup {None}]
    <3>1. creating' = [creating EXCEPT ![c] = [creating[c] EXCEPT !.step = "join"]]
      BY <1>5 DEF RegisterWorker
    <3> QED BY <3>1, <1>3, <1>8
  <2> QED BY <1>5, <2>1, <2>2 DEF TeamTypeOK, RegisterWorker, mail, reading
<1>6. ASSUME Join(c), teams[creating[c].team] # None PROVE TeamTypeOK'
  <2>1. teams[creating[c].team] \in Record BY <1>2, <1>6 DEF TeamTypeOK
  <2>2. [teams[creating[c].team] EXCEPT !.ids = Append(@, c)] \in Record BY <2>1, RecordType
  <2>3. inbox' \in [Sessions -> Seq(Nat)] /\ sent' \in [Sessions -> Nat]
    BY <1>6, DeliverType DEF Join
  <2>4. teams' \in [Calls -> Record \cup {None}]
    <3> DEFINE t == creating[c].team  r == [teams[t] EXCEPT !.ids = Append(@, c)]
    <3>1. teams' = [teams EXCEPT ![t] = r] BY <1>6 DEF Join
    <3>2. t \in Calls /\ r \in Record \cup {None} BY <1>2, <2>2
    <3> HIDE DEF t, r
    <3> QED BY <3>1, <3>2, TeamsType
  <2>8. /\ participants' = [participants EXCEPT ![c] = creating[c].name]
        /\ sessionTeams' = [sessionTeams EXCEPT ![c] = creating[c].team]
    BY <1>6 DEF Join
  <2>5. participants' \in [Sessions -> Names \cup {None}] BY <1>2, <1>9, <2>8
  <2>6. sessionTeams' \in [Sessions -> Calls \cup {None}] BY <1>2, <1>9, <2>8
  <2>7. creating' \in [Calls -> Creation \cup {None}] BY <1>6 DEF TeamTypeOK, Join
  <2> QED BY <1>6, <2>3, <2>4, <2>5, <2>6, <2>7 DEF TeamTypeOK, Join, reading
<1>7. ASSUME Join(c), teams[creating[c].team] = None PROVE TeamTypeOK'
  BY <1>7, <1>2 DEF TeamTypeOK, Join, reading, mail, members
<1> QED BY <1>1, <1>4, <1>5, <1>6, <1>7

LEMMA SayType ==
  ASSUME TeamTypeOK, NEW s, NEW n, Say(s, n)
  PROVE  TeamTypeOK'
<1>1. (\E S : Deliver(S)) \/ UNCHANGED mail BY DEF Say
<1>2. inbox' \in [Sessions -> Seq(Nat)] /\ sent' \in [Sessions -> Nat]
  BY <1>1, DeliverType DEF TeamTypeOK, mail
<1> QED BY <1>2 DEF TeamTypeOK, Say, members, reading

LEMMA DeleteTeamType ==
  ASSUME TeamTypeOK, NEW s \in Sessions, DeleteTeam(s)
  PROVE  TeamTypeOK'
<1>1. CASE LedTeam(s) = None BY <1>1 DEF TeamTypeOK, DeleteTeam, members, reading
<1>2. CASE LedTeam(s) # None
  <2>1. teams' \in [Calls -> Record \cup {None}]
    <3>1. teams' = [teams EXCEPT ![LedTeam(s)] = None] BY <1>2 DEF DeleteTeam
    <3> QED BY <3>1 DEF TeamTypeOK
  <2>2. participants' \in [Sessions -> Names \cup {None}] BY <1>2 DEF TeamTypeOK, DeleteTeam
  <2>3. sessionTeams' \in [Sessions -> Calls \cup {None}] BY <1>2 DEF TeamTypeOK, DeleteTeam
  <2>4. inbox' \in [Sessions -> Seq(Nat)]
    <3>1. PICK ids : inbox' = [r \in Sessions |-> IF r \in ids THEN <<>> ELSE inbox[r]]
      BY <1>2, ZenonT(60) DEF DeleteTeam
    <3> QED BY <3>1 DEF TeamTypeOK
  <2> QED BY <1>2, <2>1, <2>2, <2>3, <2>4 DEF TeamTypeOK, DeleteTeam, reading
<1> QED BY <1>1, <1>2

LEMMA BatchParts == \A b \in Batch : b.session \in Sessions /\ b.messages \in Seq(Nat)
BY DEF Batch

LEMMA DrainType ==
  ASSUME TeamTypeOK, NEW d \in Drains, (\E s \in Sessions : TakeMail(d, s)) \/ ObserveMail(d)
  PROVE  TeamTypeOK'
<1>1. ASSUME NEW s \in Sessions, TakeMail(d, s) PROVE TeamTypeOK'
  <2>1. [session |-> s, messages |-> inbox[s]] \in Batch BY SMTT(60) DEF TeamTypeOK, Batch
  <2> QED BY <1>1, <2>1, SMTT(60) DEF TeamTypeOK, TakeMail, members
<1>2. ASSUME ObserveMail(d) PROVE TeamTypeOK'
  <2>1. drained[d] \in Batch
    <3>1. drained \in [Drains -> Batch \cup {None}] /\ drained[d] # None
      BY <1>2 DEF TeamTypeOK, ObserveMail
    <3> QED BY <3>1, Zenon
  <2> DEFINE s == drained[d].session  m == drained[d].messages
  <2>2. s \in Sessions /\ m \in Seq(Nat) BY <2>1, BatchParts
  <2>3. PICK k \in 0..Len(m) :
          /\ heard' = [heard EXCEPT ![s] = @ \o SubSeq(m, 1, k)]
          /\ unsure' = IF k < Len(m) THEN unsure \cup {s} ELSE unsure
    BY <1>2, Zenon DEF ObserveMail
  <2>4. SubSeq(m, 1, k) \in Seq(Nat) BY <2>2, SMTT(60)
  <2>5. heard[s] \o SubSeq(m, 1, k) \in Seq(Nat) BY <2>2, <2>4 DEF TeamTypeOK
  <2>6. heard' \in [Sessions -> Seq(Nat)] BY <2>2, <2>3, <2>5 DEF TeamTypeOK
  <2>7. unsure' \subseteq Sessions BY <2>2, <2>3 DEF TeamTypeOK
  <2> QED BY <1>2, <2>6, <2>7, SMTT(60) DEF TeamTypeOK, ObserveMail, members, mail
<1> QED BY <1>1, <1>2

-------------------------------------------------------------------------------
\* The hooks leave the handlers alone: whatever they do, the same calls are
\* made, and the same tools run.
HooksOnly == /\ by' = by /\ hooks' = hooks /\ kind' = kind
             /\ \A c \in Calls : place'[c] = "tool" <=> place[c] = "tool"

LEMMA SameOrder ==
  ASSUME hooks' = hooks
  PROVE  /\ Has("change")' = Has("change")
         /\ ChangeInside' = ChangeInside /\ ChangeOutside' = ChangeOutside
BY DEF ChangeInside, ChangeOutside, Has

LEMMA HookStep ==
  ASSUME HooksTypeOK, HooksOK, TeamUpdatedAfterTool, NEW c \in Calls,
         Settle(c) \/ TimeOut(c) \/ ContextDone(c)
  PROVE  HooksOnly /\ HooksOK' /\ TeamUpdatedAfterTool'
<1> USE DEF HooksTypeOK, HooksOK, TeamUpdatedAfterTool, HooksOnly
<1>1. ASSUME ReadResult(c) PROVE HooksOnly /\ HooksOK' /\ TeamUpdatedAfterTool'
  BY <1>1, SameOrder DEF ReadResult
<1>2. ASSUME StartWatch(c) PROVE HooksOnly /\ HooksOK' /\ TeamUpdatedAfterTool'
  BY <1>2, SameOrder DEF StartWatch
<1>3. ASSUME FinishWatch(c) PROVE HooksOnly /\ HooksOK' /\ TeamUpdatedAfterTool'
  <2>1. /\ by[c] # None /\ Has("change") /\ gave' = gave
        /\ ~ChangeInside => ChangeOutside /\ gave[c] \in {"result", "placeholder"}
        /\ hooks' = hooks /\ by' = by /\ watch' = [watch EXCEPT ![c] = "off"]
    BY <1>3 DEF FinishWatch, ChangeOutside
  <2>2. PICK x : /\ place' = [place EXCEPT ![c] = x]
                 /\ x \in {"passed", "reply"} \/ (x = place[c] /\ gave[c] = "placeholder")
    BY <1>3 DEF FinishWatch
  <2>3. hooks = <<"offload", "change">> => ChangeInside BY DEF ChangeInside, Has
  <2>4. PICK p : published' = [published EXCEPT ![c] = p] BY <1>3 DEF FinishWatch, Publish
  <2>5. ChangeInside => place[c] = "channel" BY <1>3 DEF FinishWatch
  <2>6. x # place[c] => place[c] # "tool"
    <3>1. CASE ChangeInside BY <3>1, <2>5
    <3>2. CASE ~ChangeInside
      <4>1. place' = IF gave[c] = "placeholder" THEN place ELSE [place EXCEPT ![c] = "reply"]
        BY <3>2, <2>3, <1>3 DEF FinishWatch
      <4>2. gave[c] = "result" => place[c] # "tool" OBVIOUS
      <4> QED BY <3>2, <4>1, <4>2, <2>1, <2>2
    <3> QED BY <3>1, <3>2
  <2>7. HooksOnly BY <1>3, <2>2, <2>6 DEF FinishWatch
  <2>8. HooksOK'
    <3> SUFFICES ASSUME NEW d \in Calls
                 PROVE  /\ by[d] = None => place'[d] = "none" /\ gave[d] = "none"
                             /\ published'[d] = {}
                        /\ watch'[d] = "on" => by[d] # None /\ Has("change")
                        /\ watch'[d] = "on" /\ ~ChangeInside
                             => gave[d] \in {"result", "placeholder"}
                        /\ gave[d] = "result" => place'[d] \notin {"none", "tool"}
      BY <2>1, SameOrder
    <3>1. CASE d = c BY <3>1, <2>1, <2>2, <2>4
    <3>2. CASE d # c BY <3>2, <2>1, <2>2, <2>4
    <3> QED BY <3>1, <3>2
  <2>9. TeamUpdatedAfterTool'
    <3> SUFFICES ASSUME NEW d \in Calls, "team_updated" \in published'[d]
                 PROVE  place'[d] # "tool" \/ (ChangeOutside /\ gave[d] \in {"placeholder",
                      "error"})
      BY <2>1, SameOrder
    <3>1. CASE d = c BY <3>1, <2>1, <2>2, <2>5
    <3>2. CASE d # c BY <3>2, <2>1, <2>2, <2>4
    <3> QED BY <3>1, <3>2
  <2> QED BY <2>7, <2>8, <2>9
<1>4. ASSUME TakeResult(c) PROVE HooksOnly /\ HooksOK' /\ TeamUpdatedAfterTool'
  BY <1>4, SameOrder DEF TakeResult, Give, Collected
<1>5. ASSUME DeliverOffloaded(c) PROVE HooksOnly /\ HooksOK' /\ TeamUpdatedAfterTool'
  BY <1>5, SameOrder DEF DeliverOffloaded, Collected
<1>6. ASSUME TimeOut(c) PROVE HooksOnly /\ HooksOK' /\ TeamUpdatedAfterTool'
  BY <1>6, SameOrder DEF TimeOut, Give
<1>7. ASSUME ContextDone(c) PROVE HooksOnly /\ HooksOK' /\ TeamUpdatedAfterTool'
  BY <1>7, SameOrder DEF ContextDone, Give, Publish
<1> QED BY <1>1, <1>2, <1>3, <1>4, <1>5, <1>6, <1>7 DEF Settle

LEMMA FinishToolStep ==
  ASSUME HooksTypeOK, HooksOK, TeamUpdatedAfterTool, NEW c \in Calls, FinishTool(c)
  PROVE  /\ HooksOK' /\ TeamUpdatedAfterTool'
         /\ by' = by /\ place' = [place EXCEPT ![c] = "channel"] /\ by[c] # None
<1> USE DEF HooksTypeOK, HooksOK, TeamUpdatedAfterTool
<1>1. /\ place' = [place EXCEPT ![c] = "channel"] /\ place[c] = "tool"
      /\ UNCHANGED <<hooks, by, gave, watch, published>>
  BY DEF FinishTool
<1> QED BY <1>1, SameOrder

-------------------------------------------------------------------------------
\* What a handler and a drain may rely on, and leave behind.
TeamInv == TeamTypeOK /\ MembershipAgrees /\ MailHasReader

\* A creation brings no worker into a team before its last section.
CreatesOutside == \A c \in Calls : creating[c] # None => sessionTeams[c] = None

\* The handler of c makes no other team than c, and no other worker a member.
OthersStay(c) == \A d \in Calls \ {c} :
  /\ sessionTeams[d] = None => sessionTeams'[d] = None
  /\ teams[d] = None => teams'[d] = None

LEMMA SameRoster ==
  ASSUME NEW t, teams'[t] = teams[t]
  PROVE  RosterSet(t)' = RosterSet(t)
BY DEF RosterSet

LEMMA RosterSessions ==
  ASSUME NEW t, teams[t] \in Record
  PROVE  RosterSet(t) \subseteq Sessions
BY DEF RosterSet, Record, Sessions

LEMMA RosterRange ==
  ASSUME NEW t, teams[t] \in Record, NEW i \in DOMAIN Roster(t)
  PROVE  Roster(t)[i] \in RosterSet(t)
<1>1. teams[t].ids \in Seq(Calls) BY DEF Record
<1> QED BY <1>1 DEF Roster, RosterSet

LEMMA AppendDiffers ==
  ASSUME NEW q \in Seq(Calls), NEW c, NEW p, p = Append(q, c),
         \A k \in DOMAIN q : q[k] # c, \A k, l \in DOMAIN q : q[k] = q[l] => k = l,
         NEW i \in DOMAIN p, NEW j \in DOMAIN p, p[i] = p[j]
  PROVE  i = j
<1>1. PICK n \in Nat :
        /\ DOMAIN q = 1..n /\ DOMAIN p = 1..n + 1
        /\ p[n + 1] = c /\ \A k \in 1..n : p[k] = q[k]
  OBVIOUS
<1>2. DOMAIN p = DOMAIN q \cup {n + 1} /\ p[n + 1] = c
  BY <1>1
<1>3. \A k \in DOMAIN q : p[k] = q[k]
  BY <1>1
<1>4. CASE i \in DOMAIN q /\ j \in DOMAIN q
  BY <1>3, <1>4, Zenon
<1>5. CASE i = n + 1 /\ j = n + 1
  BY <1>5
<1>6. CASE \/ i = n + 1 /\ j \in DOMAIN q
           \/ j = n + 1 /\ i \in DOMAIN q
  BY <1>2, <1>3, <1>6, Zenon
<1>. QED  BY <1>2, <1>4, <1>5, <1>6, Zenon

\* A worker joins at the end.
LEMMA RosterAppends ==
  ASSUME NEW t, NEW c, teams[t].ids \in Seq(Calls),
         teams'[t].leader = teams[t].leader, teams'[t].ids = Append(teams[t].ids, c)
  PROVE  RosterSet(t)' = RosterSet(t) \cup {c}
<1>1. PICK q, p : q \in Seq(Calls) /\ q = teams[t].ids /\ p = teams'[t].ids
  OBVIOUS
<1>2. {p[i] : i \in DOMAIN p} = {q[i] : i \in DOMAIN q} \cup {c}
  <2>1. p = Append(q, c)
    BY <1>1
  <2>2. PICK n \in Nat :
          /\ DOMAIN q = 1..n /\ DOMAIN p = 1..n + 1
          /\ p[n + 1] = c /\ \A i \in 1..n : p[i] = q[i]
    BY <2>1, SMTT(60)
  <2>3. DOMAIN p = DOMAIN q \cup {n + 1}
    BY <2>2
  <2>4. p[n + 1] = c /\ \A i \in DOMAIN q : p[i] = q[i]
    BY <2>2
  <2>5. \A x : x \in {p[i] : i \in DOMAIN p} <=> x \in {q[i] : i \in DOMAIN q} \cup {c}
    BY <2>3, <2>4, Zenon
  <2>. QED  BY <2>5
<1>3. RosterSet(t) = {teams[t].leader} \cup {q[i] : i \in DOMAIN q}
  BY <1>1 DEF RosterSet
<1>4. RosterSet(t)' = {teams[t].leader} \cup {p[i] : i \in DOMAIN p}
  BY <1>1 DEF RosterSet
<1>. QED  BY <1>2, <1>3, <1>4

\* Teams and members stay, the registered stay registered, and whoever is about
\* to join is registered.
LEMMA SameMembers ==
  ASSUME TeamTypeOK, MembershipAgrees, UNCHANGED <<teams, sessionTeams>>,
         \A s \in Sessions : participants[s] # None => participants'[s] # None,
         \A c \in Calls : creating'[c] # None /\ creating'[c].step = "join"
                            => participants'[c] # None
  PROVE  MembershipAgrees'
<1>1. \A t : RosterSet(t)' = RosterSet(t) BY SameRoster
<1>2. \A s \in Sessions, t \in Calls :
        sessionTeams'[s] = t => teams'[t] # None /\ s \in RosterSet(t)'
  <2>1. ASSUME NEW s \in Sessions, NEW t \in Calls, sessionTeams[s] = t
        PROVE  teams[t] # None /\ s \in RosterSet(t)
    BY <2>1 DEF MembershipAgrees
  <2> QED BY <1>1, <2>1
<1>3. \A t \in Calls : teams'[t] # None =>
        /\ \A s \in RosterSet(t)' : sessionTeams'[s] = t /\ participants'[s] # None
        /\ \A i, j \in DOMAIN teams'[t].ids : teams'[t].ids[i] = teams'[t].ids[j] => i = j
  BY <1>1, RosterSessions DEF TeamTypeOK, MembershipAgrees
<1> QED BY <1>2, <1>3 DEF MembershipAgrees

LEMMA CreateTeamStep ==
  ASSUME TeamInv, NEW c \in Calls, NEW s \in Leaders, teams[c] = None, CreateTeam(c, s)
  PROVE  TeamInv' /\ OthersStay(c)
<1>0. s \in Sessions BY DEF Sessions
<1>1. CASE participants[s] # None /\ sessionTeams[s] = None
  <2>1. teams' = [teams EXCEPT ![c] = [leader |-> s, ids |-> <<>>]]
        /\ sessionTeams' = [sessionTeams EXCEPT ![s] = c]
             /\ UNCHANGED <<participants, inbox, creating>>
    BY <1>1 DEF CreateTeam, mail
  <2>2. [leader |-> s, ids |-> <<>>] \in Record BY DEF Record
  <2>3. teams'[c] = [leader |-> s, ids |-> <<>>] /\ teams'[c] # None
    BY <2>1, <2>2 DEF TeamInv, TeamTypeOK
  <2>4. RosterSet(c)' = {s} BY <2>3 DEF RosterSet
  <2>5. \A t \in Calls \ {c} : teams'[t] = teams[t] /\ RosterSet(t)' = RosterSet(t)
    BY <2>1, SameRoster DEF TeamInv, TeamTypeOK
  <2>6. sessionTeams'[s] = c /\ \A r \in Sessions \ {s} : sessionTeams'[r] = sessionTeams[r]
    BY <1>0, <2>1 DEF TeamInv, TeamTypeOK
  <2>7. \A t \in Calls \ {c} : teams[t] # None => RosterSet(t) \subseteq Sessions \ {s}
    BY <1>1, RosterSessions DEF TeamInv, TeamTypeOK, MembershipAgrees
  <2>8. MembershipAgrees'
    <3>1. ASSUME NEW r \in Sessions, NEW t \in Calls, sessionTeams'[r] = t
          PROVE  teams'[t] # None /\ r \in RosterSet(t)'
      <4>1. CASE r = s BY <3>1, <4>1, <2>3, <2>4, <2>6
      <4>2. CASE r # s
        <5>1. sessionTeams[r] = t /\ t # c
          <6>1. sessionTeams[r] = t BY <3>1, <4>2, <2>6
          <6>2. teams[t] # None BY <6>1 DEF TeamInv, MembershipAgrees
          <6> QED BY <6>1, <6>2
        <5> QED BY <5>1, <2>5 DEF TeamInv, MembershipAgrees
      <4> QED BY <4>1, <4>2
    <3>2. \A t \in Calls : teams'[t] # None =>
            /\ \A r \in RosterSet(t)' : sessionTeams'[r] = t /\ participants'[r] # None
            /\ \A i, j \in DOMAIN teams'[t].ids : teams'[t].ids[i] = teams'[t].ids[j] => i = j
      <4> SUFFICES ASSUME NEW t \in Calls, teams'[t] # None
                   PROVE  /\ \A r \in RosterSet(t)' : sessionTeams'[r] = t
                                                        /\ participants'[r] # None
                          /\ \A i, j \in DOMAIN teams'[t].ids :
                               teams'[t].ids[i] = teams'[t].ids[j] => i = j
        OBVIOUS
      <4>1. CASE t = c BY <4>1, <1>1, <2>1, <2>3, <2>4, <2>6
      <4>2. CASE t # c
        <5>1. teams'[t] = teams[t] /\ RosterSet(t)' = RosterSet(t) /\ teams[t] # None
          BY <4>2, <2>5
        <5>2. RosterSet(t) \subseteq Sessions \ {s} BY <4>2, <5>1, <2>7
        <5>3. \A r \in RosterSet(t) : sessionTeams[r] = t /\ participants[r] # None
          BY <5>1 DEF TeamInv, MembershipAgrees
        <5>4. \A r \in RosterSet(t)' : sessionTeams'[r] = t /\ participants'[r] # None
          BY <5>1, <5>2, <5>3, <2>1, <2>6
        <5> QED BY <5>1, <5>4 DEF TeamInv, MembershipAgrees
      <4> QED BY <4>1, <4>2
    <3> QED BY <3>1, <3>2, <2>1 DEF TeamInv, MembershipAgrees
  <2>9. OthersStay(c) BY <2>5, <2>6, <1>0 DEF OthersStay, Sessions
  <2> QED BY <2>1, <2>8, <2>9, CreateTeamType DEF TeamInv, MailHasReader
<1>2. CASE ~(participants[s] # None /\ sessionTeams[s] = None)
  <2>1. UNCHANGED <<participants, teams, sessionTeams, inbox, creating>>
    BY <1>2 DEF CreateTeam, mail
  <2>2. MembershipAgrees' BY <2>1, SameMembers DEF TeamInv, MembershipAgrees
  <2> QED BY <2>1, <2>2, CreateTeamType DEF TeamInv, MailHasReader, OthersStay
<1> QED BY <1>1, <1>2

LEMMA CreationStep ==
  ASSUME TeamInv, NEW c \in Calls, sessionTeams[c] = None, BuildWorker(c) \/ RegisterWorker(c)
  PROVE  TeamInv' /\ OthersStay(c)
<1>1. /\ creating[c].name # None /\ TeamTypeOK'
      /\ UNCHANGED <<teams, sessionTeams, inbox>>
  BY CreationSteps DEF TeamInv, Creation, BuildWorker, RegisterWorker, mail
<1>2. /\ participants' = participants \/ participants' = [participants EXCEPT ![c] = creating[c].name]
      /\ RegisterWorker(c) => participants' = [participants EXCEPT ![c] = creating[c].name]
  BY DEF BuildWorker, RegisterWorker
<1>3. \A s \in Sessions : participants[s] # None => participants'[s] # None BY <1>1,
     <1>2 DEF TeamInv, TeamTypeOK
<1>4. \A d \in Calls : creating'[d] # None /\ creating'[d].step = "join" => participants'[d] # None
  <2> SUFFICES ASSUME NEW d \in Calls, creating'[d] # None, creating'[d].step = "join"
               PROVE  participants'[d] # None
    OBVIOUS
  <2>1. CASE d # c
    <3>1. \E x : creating' = [creating EXCEPT ![c] = x] BY DEF BuildWorker, RegisterWorker
    <3>2. creating'[d] = creating[d] BY <2>1, <3>1 DEF TeamInv, TeamTypeOK
    <3> QED BY <3>2, <1>3 DEF TeamInv, MembershipAgrees, Sessions
  <2>2. CASE d = c /\ RegisterWorker(c) BY <2>2, <1>1, <1>2 DEF TeamInv, TeamTypeOK, Sessions
  <2>3. CASE d = c /\ BuildWorker(c)
    <3>1. PICK x : creating' = [creating EXCEPT ![c] = x] /\ x \in {None,
         [creating[c] EXCEPT !.step = "register"]}
      BY <2>3 DEF BuildWorker
    <3>2. creating'[c] = x BY <3>1 DEF TeamInv, TeamTypeOK
    <3>3. creating[c] \in Creation BY CreationSteps DEF TeamInv
    <3>4. x # None => x.step = "register" BY <3>1, <3>3 DEF Creation
    <3> QED BY <2>3, <3>2, <3>4
  <2> QED BY <2>1, <2>2, <2>3
<1>5. MembershipAgrees' BY <1>1, <1>3, <1>4, SameMembers DEF TeamInv
<1> QED BY <1>1, <1>3, <1>5 DEF TeamInv, MailHasReader, OthersStay

LEMMA JoinStep ==
  ASSUME TeamInv, NEW c \in Calls, sessionTeams[c] = None, teams[c] = None, Join(c)
  PROVE  TeamInv' /\ OthersStay(c)
<1>0. PICK t \in Calls, n \in Names : t = creating[c].team /\ n = creating[c].name
  BY CreationSteps DEF TeamInv, Creation
<1>1. TeamTypeOK' BY CreationSteps DEF TeamInv
<1>2. creating' = [creating EXCEPT ![c] = None] /\ c \in Sessions BY DEF Join, Sessions
<1>3. CASE teams[t] = None
  <2>1. UNCHANGED <<participants, teams, sessionTeams, inbox>> BY <1>0, <1>3 DEF Join, members, mail
  <2>2. \A d \in Calls : creating'[d] # None => creating'[d] = creating[d]
    <3>1. creating \in [Calls -> Creation \cup {None}] BY DEF TeamInv, TeamTypeOK
    <3> QED BY <1>2, <3>1
  <2>3. MembershipAgrees' BY <2>1, <2>2, SameMembers DEF TeamInv, MembershipAgrees
  <2> QED BY <1>1, <2>1, <2>3 DEF TeamInv, MailHasReader, OthersStay
<1>4. CASE teams[t] # None
  <2>1. /\ participants' = [participants EXCEPT ![c] = n]
        /\ teams' = [teams EXCEPT ![t].ids = Append(@, c)]
        /\ sessionTeams' = [sessionTeams EXCEPT ![c] = t]
        /\ inbox' = [s \in Sessions |-> IF s \in {c} THEN Append(inbox[s], sent[s] + 1)
             ELSE inbox[s]]
    BY <1>0, <1>4 DEF Join, Deliver
  <2>2. teams[t] \in Record BY <1>1, <1>4 DEF TeamInv, TeamTypeOK
  <2>3. teams[t].ids \in Seq(Calls) BY <2>2 DEF Record
  <2>4. /\ teams'[t] = [teams[t] EXCEPT !.ids = Append(@, c)]
        /\ \A u \in Calls \ {t} : teams'[u] = teams[u]
    BY <1>1, <2>1 DEF TeamInv, TeamTypeOK
  <2>5. teams'[t].leader = teams[t].leader /\ teams'[t].ids = Append(teams[t].ids, c)
    BY <2>2, <2>4 DEF Record
  <2>6. teams'[t] # None
    <3>1. teams'[t] \in Record BY <2>2, <2>4, RecordType
    <3> QED BY <3>1
  <2>7. RosterSet(t)' = RosterSet(t) \cup {c} BY <2>3, <2>5, RosterAppends
  <2>8. \A u \in Calls \ {t} : RosterSet(u)' = RosterSet(u) BY <2>4, SameRoster
  <2>9. /\ sessionTeams'[c] = t /\ participants'[c] # None
        /\ \A s \in Sessions \ {c} : sessionTeams'[s] = sessionTeams[s]
                                       /\ participants'[s] = participants[s]
    BY <1>1, <1>2, <2>1 DEF TeamInv, TeamTypeOK
  <2>10. \A u \in Calls : teams[u] # None => RosterSet(u) \subseteq Sessions \ {c}
    <3> SUFFICES ASSUME NEW u \in Calls, teams[u] # None, NEW s \in RosterSet(u)
                 PROVE  s \in Sessions \ {c}
      OBVIOUS
    <3>1. sessionTeams[s] = u BY DEF TeamInv, MembershipAgrees
    <3>2. s \in Sessions BY RosterSessions DEF TeamInv, TeamTypeOK
    <3> QED BY <3>1, <3>2
  <2>11. ASSUME NEW s \in Sessions, NEW u \in Calls, sessionTeams'[s] = u
         PROVE  teams'[u] # None /\ s \in RosterSet(u)'
    <3>1. CASE s = c BY <3>1, <2>11, <2>6, <2>7, <2>9
    <3>2. CASE s # c
      <4>1. teams[u] # None /\ s \in RosterSet(u) BY <3>2, <2>9, <2>11 DEF TeamInv, MembershipAgrees
      <4> QED BY <4>1, <2>4, <2>6, <2>7, <2>8
    <3> QED BY <3>1, <3>2
  <2>12. ASSUME NEW u \in Calls, teams'[u] # None, NEW s \in RosterSet(u)'
         PROVE  sessionTeams'[s] = u /\ participants'[s] # None
    <3>1. teams[u] # None BY <1>4, <2>4, <2>12
    <3>2. \A r \in RosterSet(u) : sessionTeams[r] = u /\ participants[r] # None
      BY <3>1 DEF TeamInv, MembershipAgrees
    <3>3. CASE s = c
      <4>1. u = t BY <3>1, <3>3, <2>8, <2>10
      <4> QED BY <4>1, <3>3, <2>9
    <3>4. CASE s # c
      <4>1. s \in RosterSet(u) BY <3>4, <2>7, <2>8
      <4> QED BY <4>1, <3>1, <3>2, <3>4, <2>9, <2>10
    <3> QED BY <3>3, <3>4
  <2>13. ASSUME NEW u \in Calls, teams'[u] # None,
                NEW i \in DOMAIN teams'[u].ids, NEW j \in DOMAIN teams'[u].ids,
                teams'[u].ids[i] = teams'[u].ids[j]
         PROVE  i = j
    <3>1. CASE u # t BY <3>1, <2>4, <2>13 DEF TeamInv, MembershipAgrees
    <3>2. CASE u = t
      <4>1. \A k \in DOMAIN teams[t].ids : teams[t].ids[k] # c BY <1>1, <1>4, <2>10 DEF RosterSet
      <4>2. \A k, l \in DOMAIN teams[t].ids : teams[t].ids[k] = teams[t].ids[l] => k = l
        BY <1>1, <1>4 DEF TeamInv, MembershipAgrees
      <4>3. PICK q, p : q \in Seq(Calls) /\ q = teams[t].ids /\ p = teams'[t].ids
        BY <2>3
      <4>4. /\ p = Append(q, c) /\ i \in DOMAIN p /\ j \in DOMAIN p /\ p[i] = p[j]
            /\ \A k \in DOMAIN q : q[k] # c
            /\ \A k, l \in DOMAIN q : q[k] = q[l] => k = l
        BY <2>5, <2>13, <3>2, <4>1, <4>2, <4>3
      <4> QED BY <4>4, AppendDiffers
    <3> QED BY <3>1, <3>2
  <2>14. \A d \in Calls : creating'[d] # None /\ creating'[d].step = "join"
                            => participants'[d] # None
    BY <1>2, <2>9, SMTT(60) DEF TeamInv, TeamTypeOK, MembershipAgrees, Sessions
  <2>15. MembershipAgrees' BY <2>11, <2>12, <2>13, <2>14 DEF MembershipAgrees
  <2>16. MailHasReader' BY <2>1, <2>9 DEF TeamInv, MailHasReader
  <2>17. OthersStay(c) BY <1>4, <2>4, <2>9 DEF OthersStay, Sessions
  <2> QED BY <1>1, <2>15, <2>16, <2>17 DEF TeamInv
<1> QED BY <1>3, <1>4

LEMMA SayStep ==
  ASSUME TeamInv, NEW c \in Calls, NEW s \in Sessions, NEW n, Say(s, n)
  PROVE  TeamInv' /\ OthersStay(c)
<1>1. TeamTypeOK' /\ UNCHANGED <<participants, teams, sessionTeams, creating>>
  BY SayType DEF TeamInv, Say, members
<1>2. MembershipAgrees' BY <1>1, SameMembers DEF TeamInv, MembershipAgrees
<1>3. ASSUME NEW t \in Calls, teams[t] # None, NEW S \in SUBSET RosterSet(t), Deliver(S)
      PROVE  MailHasReader'
  <2>1. \A r \in S : participants[r] # None BY <1>3 DEF TeamInv, MembershipAgrees
  <2> QED BY <1>1, <1>3, <2>1 DEF TeamInv, MailHasReader, Deliver
<1>4. CurrentTeam(s) # None => CurrentTeam(s) \in Calls /\ teams[CurrentTeam(s)] # None
  BY DEF CurrentTeam, TeamInv, TeamTypeOK
<1>5. MailHasReader'
  <2>1. CASE UNCHANGED mail BY <1>1, <2>1 DEF TeamInv, MailHasReader, mail
  <2>2. CASE CurrentTeam(s) # None /\ Deliver(RosterSet(CurrentTeam(s)) \ {s}) BY <1>3, <1>4, <2>2
  <2>3. CASE CurrentTeam(s) # None /\ \E i \in DOMAIN Roster(CurrentTeam(s)) :
               Deliver({Roster(CurrentTeam(s))[i]} \ {s})
    <3>1. PICK i \in DOMAIN Roster(CurrentTeam(s)) : Deliver({Roster(CurrentTeam(s))[i]} \ {s}) BY <2>3
    <3>2. Roster(CurrentTeam(s))[i] \in RosterSet(CurrentTeam(s))
      BY <1>4, <2>3, RosterRange DEF TeamInv, TeamTypeOK
    <3> QED BY <1>3, <1>4, <2>3, <3>1, <3>2
  <2> QED BY <2>1, <2>2, <2>3 DEF Say
<1> QED BY <1>1, <1>2, <1>5 DEF TeamInv, OthersStay

LEMMA DeleteTeamStep ==
  ASSUME TeamInv, CreatesOutside, NEW c \in Calls, NEW s \in Sessions, DeleteTeam(s)
  PROVE  TeamInv' /\ OthersStay(c)
<1>1. TeamTypeOK' /\ creating' = creating BY DeleteTeamType DEF TeamInv, DeleteTeam
<1>2. CASE LedTeam(s) = None
  <2>1. UNCHANGED <<participants, teams, sessionTeams, inbox>> BY <1>2 DEF DeleteTeam, members
  <2>2. MembershipAgrees' BY <1>1, <2>1, SameMembers DEF TeamInv, MembershipAgrees
  <2> QED BY <1>1, <2>1, <2>2 DEF TeamInv, MailHasReader, OthersStay
<1>3. CASE LedTeam(s) # None
  <2>0. PICK t \in Calls : t = LedTeam(s) BY <1>3, LedTeamType DEF TeamInv
  <2>1. /\ teams[t] \in Record /\ teams[t] # None /\ sessionTeams[s] = t /\ teams[t].leader = s
    BY <1>3, <2>0, LedTeamType DEF TeamInv
  <2>2. /\ \A r \in Sessions : r \notin RosterSet(t) =>
             participants'[r] = participants[r] /\ inbox'[r] = inbox[r]
               /\ sessionTeams'[r] = sessionTeams[r]
        /\ \A r \in Sessions : r \in RosterSet(t) =>
             sessionTeams'[r] = None /\ (inbox'[r] = inbox[r] \/ inbox'[r] = <<>>)
        /\ participants'[s] = participants[s]
        /\ \A r \in Sessions : r \in RosterSet(t) /\ r # s => inbox'[r] = <<>>
        /\ teams' = [teams EXCEPT ![t] = None]
    <3>1. s \in RosterSet(t) BY <2>1 DEF RosterSet
    <3> QED BY <3>1, <1>3, <2>0 DEF DeleteTeam
  <2>3. teams'[t] = None /\ \A u \in Calls \ {t} : teams'[u] = teams[u]
          /\ RosterSet(u)' = RosterSet(u)
    BY <2>2, SameRoster DEF TeamInv, TeamTypeOK
  <2>4. \A r \in RosterSet(t) : r \in Sessions /\ sessionTeams[r] = t
    BY <2>1, RosterSessions DEF TeamInv, MembershipAgrees
  <2>5. ASSUME NEW r \in Sessions, NEW u \in Calls, sessionTeams'[r] = u
        PROVE  teams'[u] # None /\ r \in RosterSet(u)'
    <3>1. r \notin RosterSet(t) /\ sessionTeams[r] = u BY <2>2, <2>5
    <3>2. teams[u] # None /\ r \in RosterSet(u) BY <3>1 DEF TeamInv, MembershipAgrees
    <3>3. u # t BY <3>1, <3>2
    <3> QED BY <2>3, <3>2, <3>3
  <2>6. ASSUME NEW u \in Calls, teams'[u] # None
        PROVE  /\ \A r \in RosterSet(u)' : sessionTeams'[r] = u /\ participants'[r] # None
               /\ \A i, j \in DOMAIN teams'[u].ids : teams'[u].ids[i] = teams'[u].ids[j] => i = j
    <3>1. u # t /\ teams[u] # None /\ RosterSet(u)' = RosterSet(u) /\ teams'[u] = teams[u]
      BY <2>3, <2>6
    <3>2. ASSUME NEW r \in RosterSet(u) PROVE sessionTeams'[r] = u /\ participants'[r] # None
      <4>1. sessionTeams[r] = u /\ participants[r] # None BY <3>1 DEF TeamInv, MembershipAgrees
      <4>2. r \in Sessions BY <3>1, RosterSessions DEF TeamInv, TeamTypeOK
      <4>3. r \notin RosterSet(t) BY <3>1, <4>1, <2>4
      <4> QED BY <4>1, <4>2, <4>3, <2>2
    <3>3. \A i, j \in DOMAIN teams[u].ids : teams[u].ids[i] = teams[u].ids[j] => i = j
      BY <3>1 DEF TeamInv, MembershipAgrees
    <3> QED BY <3>1, <3>2, <3>3
  <2>7. \A d \in Calls : creating'[d] # None /\ creating'[d].step = "join"
                           => participants'[d] # None
    <3> SUFFICES ASSUME NEW d \in Calls, creating[d] # None, creating[d].step = "join"
                 PROVE  participants'[d] # None
      BY <1>1
    <3>1. d \in Sessions /\ sessionTeams[d] = None BY DEF CreatesOutside, Sessions
    <3>2. d \notin RosterSet(t) BY <3>1, <2>4
    <3> QED BY <3>1, <3>2, <2>2 DEF TeamInv, MembershipAgrees
  <2>8. MembershipAgrees' BY <2>5, <2>6, <2>7, ZenonT(60) DEF MembershipAgrees
  <2>9. MailHasReader'
    <3> SUFFICES ASSUME NEW r \in Sessions, inbox'[r] # <<>> PROVE participants'[r] # None
      BY DEF MailHasReader
    <3>1. r \notin RosterSet(t) \/ r = s BY <2>2
    <3> QED BY <3>1, <2>2 DEF TeamInv, MailHasReader
  <2>10. OthersStay(c)
    <3> SUFFICES ASSUME NEW d \in Calls \ {c}
                 PROVE  /\ sessionTeams[d] = None => sessionTeams'[d] = None
                        /\ teams[d] = None => teams'[d] = None
      BY SMTT(60) DEF OthersStay
    <3> QED BY <2>2, <2>3, SMTT(60) DEF Sessions
  <2> QED BY <1>1, <2>8, <2>9, <2>10 DEF TeamInv
<1> QED BY <1>2, <1>3

LEMMA DrainStep ==
  ASSUME TeamInv, NEW d \in Drains, (\E s \in Sessions : TakeMail(d, s)) \/ ObserveMail(d)
  PROVE  TeamInv' /\ UNCHANGED <<sessionTeams, teams, creating>>
<1>1. TeamTypeOK' /\ UNCHANGED <<participants, teams, sessionTeams, creating>>
  BY DrainType DEF TeamInv, TakeMail, ObserveMail, members
<1>2. MembershipAgrees' BY <1>1, SameMembers, SMTT(60) DEF TeamInv, MembershipAgrees
<1>3. inbox' = inbox \/ \E s : inbox' = [inbox EXCEPT ![s] = <<>>] BY DEF TakeMail, ObserveMail,
     mail
<1>4. \A r \in Sessions : inbox'[r] # <<>> => inbox[r] # <<>> BY <1>3 DEF TeamInv, TeamTypeOK
<1>5. MailHasReader' BY <1>1, <1>4 DEF TeamInv, MailHasReader
<1> QED BY <1>1, <1>2, <1>5, SMTT(60) DEF TeamInv

LEMMA StartStep ==
  ASSUME IInv, NEW c \in Calls, NEW s \in Sessions, Start(c, s)
  PROVE  IInv'
<1> USE DEF IInv
<1>1. /\ by[c] = None /\ c \in DOMAIN script /\ HasTool(s, script[c])
      /\ UNCHANGED <<script, drains, hooks, gave, watch, published, teamVars>>
      /\ by' = [by EXCEPT ![c] = s]
      /\ place' \in {[place EXCEPT ![c] = "channel"], [place EXCEPT ![c] = "tool"]}
  BY DEF Start, StartTool, setting
<1>2. HooksTypeOK'
  <2>1. KindOf(script[c]) \in Kind BY DEF KindOf, Kind
  <2>2. version[s] \in Nat BY DEF TypeOK, HooksTypeOK
  <2>3. version' \in [Sessions -> Nat] BY <2>2 DEF TypeOK, HooksTypeOK, Start, StartTool
  <2>4. before' \in [Calls -> Nat] BY <2>2 DEF TypeOK, HooksTypeOK, Start, StartTool
  <2>5. (KindOf(script[c]) = "now") \in BOOLEAN OBVIOUS
  <2>6. changed' \in [Calls -> BOOLEAN] BY <2>5, Zenon DEF TypeOK, HooksTypeOK, Start, StartTool
  <2> QED BY <2>1, <2>3, <2>4, <2>6 DEF TypeOK, HooksTypeOK, Start, StartTool
<1>3. TypeOK' BY <1>1, <1>2 DEF TypeOK, TeamTypeOK, teamVars, members, mail, reading
<1>4. HooksOK' /\ TeamUpdatedAfterTool'
  <2>1. \A d \in Calls \ {c} : by'[d] = by[d] /\ place'[d] = place[d]
    BY <1>1 DEF TypeOK, HooksTypeOK
  <2>2. by'[c] = s /\ s # None BY <1>1 DEF TypeOK, HooksTypeOK, Sessions
  <2>3. gave[c] = "none" /\ published[c] = {} /\ watch[c] # "on" BY <1>1 DEF HooksOK
  <2>4. HooksOK' BY <1>1, <2>1, <2>2, <2>3, SameOrder DEF HooksOK
  <2>5. TeamUpdatedAfterTool' BY <1>1, <2>1, <2>3, SameOrder DEF TeamUpdatedAfterTool
  <2> QED BY <2>4, <2>5
<1>5. NotYet' /\ CreatesInTool'
  BY <1>1, SMTT(60) DEF TypeOK, HooksTypeOK, NotYet, CreatesInTool, teamVars, members
<1>6. CallerRole' BY <1>1 DEF TypeOK, HooksTypeOK, CallerRole, HasTool
<1>7. MembershipAgrees' /\ MailHasReader'
  <2>1. UNCHANGED <<participants, teams, sessionTeams, inbox, creating>> BY <1>1 DEF teamVars,
       members, mail
  <2> QED BY <2>1, SameMembers DEF TypeOK, MembershipAgrees, MailHasReader
<1> QED BY <1>3, <1>4, <1>5, <1>6, <1>7

LEMMA HookOnlyStep ==
  ASSUME IInv, NEW c \in Calls, Hook(c)
  PROVE  IInv'
<1> USE DEF IInv
<1>1. UNCHANGED <<script, drains, teamVars>> BY DEF Hook, setting
<1>2. HooksTypeOK' BY SettleType DEF TypeOK, Hook
<1>3. HooksOnly /\ HooksOK' /\ TeamUpdatedAfterTool' BY HookStep DEF TypeOK, Hook
<1>4. TypeOK' BY <1>1, <1>2 DEF TypeOK, TeamTypeOK, teamVars, members, mail, reading
<1>5. NotYet' /\ CreatesInTool' BY <1>1, <1>3 DEF HooksOnly, NotYet, CreatesInTool, teamVars,
     members
<1>6. CallerRole' BY <1>1, <1>3 DEF HooksOnly, CallerRole, HasTool
<1>7. MembershipAgrees' /\ MailHasReader'
  <2>1. UNCHANGED <<participants, teams, sessionTeams, inbox, creating>> BY <1>1 DEF teamVars,
       members, mail
  <2> QED BY <2>1, SameMembers DEF TypeOK, MembershipAgrees, MailHasReader
<1> QED BY <1>3, <1>4, <1>5, <1>6, <1>7

LEMMA DrainOnlyStep ==
  ASSUME IInv, NEW d \in drains, Drain(d)
  PROVE  IInv'
<1> USE DEF IInv
<1>0. d \in Drains BY DEF TypeOK
<1>1. UNCHANGED <<script, drains, hookVars>> BY DEF Drain, setting
<1>2. TeamInv' /\ UNCHANGED <<sessionTeams, teams, creating>>
  BY <1>0, DrainStep DEF Drain, TeamInv, TypeOK
<1>3. HooksTypeOK' BY <1>1, SMTT(60) DEF TypeOK, HooksTypeOK, hookVars
<1>4. TypeOK' BY <1>1, <1>2, <1>3 DEF TypeOK, TeamInv
<1>5. HooksOK' /\ TeamUpdatedAfterTool' BY <1>1, SameOrder DEF HooksOK, TeamUpdatedAfterTool,
     hookVars
<1>6. NotYet' /\ CreatesInTool' /\ CallerRole'
  BY <1>1, <1>2 DEF NotYet, CreatesInTool, CallerRole, HasTool, hookVars
<1> QED BY <1>2, <1>4, <1>5, <1>6 DEF TeamInv

\* A section of AgentCreate changes no other creation.
LEMMA OtherCreations ==
  ASSUME TeamTypeOK, NEW c \in Calls,
         (\E s, n : CheckName(c, s, n)) \/ BuildWorker(c) \/ RegisterWorker(c) \/ Join(c)
  PROVE  \A d \in Calls \ {c} : creating'[d] = creating[d]
<1>1. \E x : creating' = [creating EXCEPT ![c] = x] BY DEF CheckName, BuildWorker, RegisterWorker,
     Join
<1> QED BY <1>1 DEF TeamTypeOK

LEMMA HandleStep ==
  ASSUME IInv, NEW c \in Calls, Handle(c)
  PROVE  IInv'
<1> USE DEF IInv
<1>1. place[c] = "tool" /\ UNCHANGED <<script, drains>> BY DEF Handle, setting
<1>2. by[c] # None /\ by[c] \in Sessions /\ sessionTeams[c] = None /\ teams[c] = None
  BY <1>1 DEF HooksOK, NotYet, TypeOK, HooksTypeOK
<1>3. c \in DOMAIN script /\ script[c] \in Tools /\ HasTool(by[c], script[c])
  BY <1>2, ScriptType DEF CallerRole
<1>4. TeamInv /\ CreatesOutside BY DEF TeamInv, TypeOK, CreatesOutside, CreatesInTool, NotYet
<1>5. script[c].name \in {"AgentCreate", "TeamCreate", "TeamDelete"} => by[c] \in Leaders
  BY <1>3 DEF HasTool
<1>6. /\ TeamInv' /\ OthersStay(c)
      /\ \A d \in Calls \ {c} : creating'[d] = creating[d]
      /\ \/ FinishTool(c) /\ creating'[c] = None
         \/ /\ UNCHANGED hookVars /\ script[c].name = "AgentCreate"
            /\ sessionTeams'[c] = None /\ teams'[c] = None
  <2>1. CASE script[c].name = "AgentCreate" /\ HandleAgentCreate(c)
    <3>1. by[c] \in Leaders /\ script[c].arg \in Names BY <1>3, <1>5, <2>1, ToolArg
    <3>2. CASE CheckName(c, by[c], script[c].arg)
      <4>1. TeamTypeOK' BY <1>4, <3>1, <3>2, CheckNameType DEF TeamInv
      <4>2. /\ UNCHANGED <<participants, teams, sessionTeams, inbox>>
            /\ \A d \in Calls : creating'[d] # None /\ creating'[d].step = "join" =>
                 creating[d] # None /\ creating[d].step = "join"
        <5>1. \/ creating' = [creating EXCEPT ![c] = None]
              \/ creating' = [creating EXCEPT ![c] =
                   [step |-> "build", team |-> LedTeam(by[c]), name |-> script[c].arg]]
          BY <3>2 DEF CheckName
        <5>2. creating'[c] # None => creating'[c].step = "build" BY <5>1 DEF TypeOK, TeamTypeOK
        <5>3. \A d \in Calls \ {c} : creating'[d] = creating[d] BY <5>1 DEF TypeOK, TeamTypeOK
        <5> QED BY <5>2, <5>3, <3>2 DEF CheckName, members, mail
      <4>3. MembershipAgrees' BY <4>2, SameMembers DEF TypeOK, MembershipAgrees
      <4>4. TeamInv' /\ OthersStay(c) /\ sessionTeams' = sessionTeams /\ teams' = teams
        BY <4>1, <4>2, <4>3 DEF TeamInv, MailHasReader, OthersStay
      <4> QED BY <1>2, <2>1, <3>2, <4>4, OtherCreations DEF HandleAgentCreate, TypeOK
    <3>3. CASE BuildWorker(c) \/ RegisterWorker(c)
      <4>1. TeamInv' /\ OthersStay(c) BY <1>2, <1>4, <3>3, CreationStep
      <4>2. sessionTeams' = sessionTeams /\ teams' = teams BY <3>3 DEF BuildWorker, RegisterWorker
      <4> QED BY <1>2, <2>1, <3>3, <4>1, <4>2, OtherCreations DEF HandleAgentCreate, TypeOK
    <3>4. CASE Join(c)
      <4>1. TeamInv' /\ OthersStay(c) BY <1>2, <1>4, <3>4, JoinStep
      <4>2. creating'[c] = None BY <3>4 DEF Join, TypeOK, TeamTypeOK
      <4> QED BY <2>1, <3>4, <4>1, <4>2, OtherCreations DEF HandleAgentCreate, TypeOK
    <3> QED BY <2>1, <3>2, <3>3, <3>4 DEF HandleAgentCreate
  <2>2. CASE script[c].name # "AgentCreate" /\ FinishTool(c)
    <3>1. creating[c] = None BY <2>2 DEF CreatesInTool
    <3>2. CASE script[c].name = "TeamCreate" /\ CreateTeam(c, by[c])
      <4>1. TeamInv' /\ OthersStay(c) BY <1>2, <1>4, <1>5, <3>2, CreateTeamStep
      <4>2. creating' = creating BY <3>2 DEF CreateTeam
      <4> QED BY <2>2, <3>1, <4>1, <4>2
    <3>3. CASE script[c].name = "TeamDelete" /\ DeleteTeam(by[c])
      <4>1. TeamInv' /\ OthersStay(c) BY <1>2, <1>4, <3>3, DeleteTeamStep
      <4>2. creating' = creating BY <3>3 DEF DeleteTeam
      <4> QED BY <2>2, <3>1, <4>1, <4>2
    <3>4. CASE Say(by[c], script[c].arg)
      <4>1. TeamInv' /\ OthersStay(c) BY <1>2, <1>4, <3>4, SayStep
      <4>2. creating' = creating BY <3>4 DEF Say
      <4> QED BY <2>2, <3>1, <4>1, <4>2
    <3>5. CASE UNCHANGED teamVars
      <4>1. UNCHANGED <<participants, teams, sessionTeams, inbox, creating>>
        BY <3>5 DEF teamVars, members, mail
      <4>2. TeamTypeOK' BY <3>5 DEF TypeOK, TeamTypeOK, teamVars, members, mail, reading
      <4>3. MembershipAgrees' BY <4>1, SameMembers DEF TypeOK, MembershipAgrees
      <4> QED BY <2>2, <3>1, <4>1, <4>2, <4>3 DEF TeamInv, MailHasReader, OthersStay
    <3> QED BY <1>1, <2>2, <3>2, <3>3, <3>4, <3>5 DEF Handle
  <2> QED BY <2>1, <2>2 DEF Handle
<1>7. by' = by /\ hooks' = hooks /\ HooksTypeOK' /\ HooksOK' /\ TeamUpdatedAfterTool'
  <2>1. CASE FinishTool(c) BY <2>1, FinishToolStep, FinishToolType DEF FinishTool, TypeOK
  <2>2. CASE UNCHANGED hookVars
    <3>1. HooksTypeOK' BY <2>2 DEF hookVars, TypeOK, HooksTypeOK
    <3>2. HooksOK' BY <2>2, SameOrder DEF hookVars, HooksOK
    <3>3. TeamUpdatedAfterTool'
      <4>1. hooks' = hooks /\ published' = published /\ place' = place /\ gave' = gave
        BY <2>2 DEF hookVars
      <4>2. ChangeOutside' = ChangeOutside BY <4>1, SameOrder
      <4> QED BY <4>1, <4>2 DEF TeamUpdatedAfterTool
    <3> QED BY <2>2, <3>1, <3>2, <3>3 DEF hookVars
  <2> QED BY <1>6, <2>1, <2>2
<1>8. TypeOK' BY <1>1, <1>6, <1>7 DEF TypeOK, TeamInv
<1>9. NotYet' /\ CreatesInTool'
  <2>1. CASE FinishTool(c) /\ creating'[c] = None
    <3>1. place' = [place EXCEPT ![c] = "channel"] BY <2>1 DEF FinishTool
    <3>2. place'[c] = "channel" /\ \A d \in Calls \ {c} : place'[d] = place[d]
      BY <3>1 DEF TypeOK, HooksTypeOK
    <3>3. NotYet' BY <3>2, <1>2, <1>6, <1>7 DEF OthersStay, NotYet
    <3>4. CreatesInTool' BY <1>1, <2>1, <3>2, <1>6, <1>7 DEF CreatesInTool
    <3> QED BY <3>3, <3>4
  <2>2. CASE /\ UNCHANGED hookVars /\ script[c].name = "AgentCreate"
             /\ sessionTeams'[c] = None /\ teams'[c] = None
    <3>1. by' = by /\ place' = place BY <2>2 DEF hookVars
    <3>2. NotYet' BY <2>2, <3>1, <1>6 DEF OthersStay, NotYet
    <3>3. CreatesInTool' BY <2>2, <3>1, <1>1, <1>2, <1>6 DEF CreatesInTool
    <3> QED BY <3>2, <3>3
  <2> QED BY <1>6, <2>1, <2>2
<1>10. CallerRole' BY <1>1, <1>7 DEF CallerRole, HasTool
<1> QED BY <1>6, <1>7, <1>8, <1>9, <1>10 DEF TeamInv

-------------------------------------------------------------------------------
LEMMA InitInv == Init => IInv
<1> SUFFICES ASSUME NEW x \in Settings, InitTeam, InitHooks(x.hooks),
                    script = x.script, drains = x.drains
             PROVE  IInv
  BY DEF Init
<1>1. x.hooks \in Orders /\ script \in Seq(Tools) /\ drains \subseteq Drains BY SettingsAssumption
<1>2. TeamTypeOK BY DEF TeamTypeOK, InitTeam
<1>3. HooksTypeOK BY <1>1 DEF HooksTypeOK, InitHooks, Kind
<1>4. HooksOK /\ TeamUpdatedAfterTool BY DEF HooksOK, TeamUpdatedAfterTool, InitHooks
<1>5. NotYet /\ CreatesInTool /\ CallerRole
  BY DEF NotYet, CreatesInTool, CallerRole, InitHooks, InitTeam, Sessions
<1>6. MembershipAgrees /\ MailHasReader BY DEF MembershipAgrees, MailHasReader, InitTeam
<1> QED BY <1>1, <1>2, <1>3, <1>4, <1>5, <1>6 DEF IInv, TypeOK

LEMMA StepInv == IInv /\ [Next]_vars => IInv'
<1> SUFFICES ASSUME IInv, [Next]_vars PROVE IInv' OBVIOUS
<1>1. ASSUME NEW c \in Calls, NEW s \in Sessions, Start(c, s) PROVE IInv' BY <1>1, StartStep
<1>2. ASSUME NEW c \in Calls, Handle(c) PROVE IInv' BY <1>2, HandleStep
<1>3. ASSUME NEW c \in Calls, Hook(c) PROVE IInv' BY <1>3, HookOnlyStep
<1>4. ASSUME NEW d \in drains, Drain(d) PROVE IInv' BY <1>4, DrainOnlyStep
<1>5. CASE UNCHANGED vars
  <2>1. UNCHANGED <<script, drains, hookVars, teamVars>> BY <1>5 DEF vars, setting
  <2>2. TeamTypeOK' BY <2>1 DEF IInv, TypeOK, TeamTypeOK, teamVars, members, mail, reading
  <2>3. HooksTypeOK' BY <2>1 DEF IInv, TypeOK, HooksTypeOK, hookVars
  <2>4. HooksOK' /\ TeamUpdatedAfterTool'
    <3>1. UNCHANGED <<hooks, by, place, gave, watch, published>> BY <2>1 DEF hookVars
    <3>2. /\ Has("change")' = Has("change")
          /\ ChangeInside' = ChangeInside /\ ChangeOutside' = ChangeOutside
      BY <3>1, SameOrder
    <3>3. HooksOK' BY <3>1, <3>2 DEF IInv, HooksOK
    <3>4. TeamUpdatedAfterTool' BY <3>1, <3>2 DEF IInv, TeamUpdatedAfterTool
    <3> QED BY <3>3, <3>4
  <2>5. NotYet' /\ CreatesInTool' /\ CallerRole'
    BY <2>1 DEF IInv, NotYet, CreatesInTool, CallerRole, HasTool, hookVars, teamVars, members
  <2>6. UNCHANGED <<participants, teams, sessionTeams, inbox, creating>>
    BY <2>1 DEF teamVars, members, mail
  <2>7. MembershipAgrees' /\ MailHasReader'
    BY <2>6, SameMembers DEF IInv, TypeOK, MembershipAgrees, MailHasReader
  <2> QED BY <2>1, <2>2, <2>3, <2>4, <2>5, <2>7 DEF IInv, TypeOK
<1> QED BY <1>1, <1>2, <1>3, <1>4, <1>5 DEF Next

\* Every state is well typed.
THEOREM TypeCorrect == Spec => []TypeOK
<1>1. IInv => TypeOK BY DEF IInv
<1> QED BY InitInv, StepInv, <1>1, PTL DEF Spec

\* Whatever creations, deletions and messages overlap, sessionTeams and the
\* team records agree, whoever is in a team is registered, and no message waits
\* for a session that PendingAgents finds no agent for.
THEOREM MembersAgree == Spec => []TeamsAgree
<1>1. IInv => TeamsAgree BY DEF IInv, TeamsAgree
<1> QED BY InitInv, StepInv, <1>1, PTL DEF Spec

\* StateChange publishes team_updated after the tool has done its work, but
\* where ToolOffload, inside of it, gave up waiting.
THEOREM TeamUpdatedIsTrue == Spec => []TeamUpdatedAfterTool
<1>1. IInv => TeamUpdatedAfterTool BY DEF IInv
<1> QED BY InitInv, StepInv, <1>1, PTL DEF Spec

-------------------------------------------------------------------------------
(* What StateChange publishes *)

\* A change a tool has made shows in the version of its agent; the digest after
\* the call is newer than the one before it where StateChange began late enough;
\* it has published when the call ends, unless ToolOffload went on without it.
Reported(c) ==
  /\ by[c] = None => watch[c] = "none" /\ ~ended[c] /\ ~changed[c]
  /\ by[c] # None => before[c] <= version[by[c]]
  /\ changed[c] => kind[c] # "team" /\ before[c] < version[by[c]]
  /\ watch[c] # "none" /\ ChangeOutside => gave[c] \in {"result", "placeholder"}
  /\ /\ changed[c] /\ watch[c] # "none"
     /\ kind[c] = "now" \/ (ChangeOutside /\ gave[c] = "result")
     => before[c] < after[c]
  /\ watch[c] = "off" /\ before[c] # after[c] => "state_updated" \in published[c]
  /\ ended[c] /\ Has("change") => watch[c] = "off" \/ gave[c] \in {"placeholder", "error"}
  /\ place[c] = "passed" => watch[c] = "off"

ReportOK == \A c \in Calls : Reported(c)

\* A step of the hooks and the tool of another call.
SameCall(d) ==
  /\ by'[d] = by[d] /\ kind'[d] = kind[d] /\ place'[d] = place[d] /\ gave'[d] = gave[d]
  /\ watch'[d] = watch[d] /\ ended'[d] = ended[d] /\ before'[d] = before[d]
  /\ after'[d] = after[d] /\ changed'[d] = changed[d] /\ published'[d] = published[d]

LEMMA OtherCalls ==
  ASSUME HooksTypeOK, NEW c \in Calls,
         \/ \E a \in Sessions, k \in Kind : StartTool(c, a, k)
         \/ FinishTool(c) \/ Settle(c) \/ TimeOut(c) \/ ContextDone(c)
  PROVE  hooks' = hooks /\ \A d \in Calls \ {c} : SameCall(d)
<1>. USE DEF HooksTypeOK, SameCall
<1>1. CASE \E a \in Sessions, k \in Kind : StartTool(c, a, k)
  BY <1>1 DEF StartTool
<1>2. CASE FinishTool(c)
  BY <1>2 DEF FinishTool
<1>3. CASE ReadResult(c) \/ StartWatch(c) \/ DeliverOffloaded(c)
  BY <1>3 DEF ReadResult, StartWatch, DeliverOffloaded, EndCall
<1>4. CASE FinishWatch(c)
  BY <1>4 DEF FinishWatch, EndCall, Publish
<1>5. CASE TakeResult(c)
  BY <1>5 DEF TakeResult, Give, EndCall
<1>6. CASE TimeOut(c)
  BY <1>6 DEF TimeOut, Give, EndCall
<1>7. CASE ContextDone(c)
  BY <1>7 DEF ContextDone, Give, EndCall, Publish
<1>. QED  BY <1>1, <1>2, <1>3, <1>4, <1>5, <1>6, <1>7 DEF Settle

\* Versions only grow.
LEMMA VersionsGrow ==
  ASSUME HooksTypeOK, NEW c \in Calls,
         \/ \E a \in Sessions, k \in Kind : StartTool(c, a, k)
         \/ FinishTool(c) \/ Settle(c) \/ TimeOut(c) \/ ContextDone(c)
  PROVE  \A a \in Sessions : version'[a] \in Nat /\ version'[a] >= version[a]
<1>0. \A a \in Sessions : version[a] \in Nat
  BY DEF HooksTypeOK
<1>1. CASE version' = version
  BY <1>0, <1>1
<1>2. ASSUME NEW a \in Sessions, NEW v \in Nat, v >= version[a],
             version' = [version EXCEPT ![a] = v]
      PROVE  \A b \in Sessions : version'[b] \in Nat /\ version'[b] >= version[b]
  BY <1>0, <1>2 DEF HooksTypeOK
<1>3. CASE \E a \in Sessions, k \in Kind : StartTool(c, a, k)
  <2>1. PICK a \in Sessions, k \in Kind : StartTool(c, a, k)
    BY <1>3
  <2>2. version' = [version EXCEPT ![a] = IF k = "now" THEN version[a] + 1 ELSE version[a]]
    BY <2>1 DEF StartTool
  <2>3. PICK v \in {version[a], version[a] + 1} : version' = [version EXCEPT ![a] = v]
    BY <2>2
  <2>4. v \in Nat /\ v >= version[a]
    BY <1>0
  <2>. QED  BY <1>2, <2>3, <2>4
<1>4. CASE FinishTool(c)
  <2>1. PICK v \in {version[by[c]], version[by[c]] + 1} :
          version' = [version EXCEPT ![by[c]] = v]
    BY <1>4 DEF FinishTool
  <2>2. CASE by[c] \in Sessions
    <3>1. v \in Nat /\ v >= version[by[c]]
      BY <1>0, <2>2
    <3>. QED  BY <1>2, <2>1, <2>2, <3>1
  <2>3. CASE by[c] \notin Sessions
    BY <1>0, <2>1, <2>3 DEF HooksTypeOK
  <2>. QED  BY <2>2, <2>3
<1>. QED
  BY <1>1, <1>3, <1>4 DEF Settle, ReadResult, StartWatch, FinishWatch, TakeResult,
     DeliverOffloaded, TimeOut, ContextDone

LEMMA OtherReports ==
  ASSUME HooksTypeOK, ReportOK, NEW c \in Calls, hooks' = hooks,
         \A d \in Calls \ {c} : SameCall(d),
         \A a \in Sessions : version'[a] \in Nat /\ version'[a] >= version[a],
         Reported(c)'
  PROVE  ReportOK'
<1>. SUFFICES ASSUME NEW d \in Calls \ {c} PROVE Reported(d)'
  BY DEF ReportOK
<1>1. Reported(d) /\ SameCall(d) /\ Has("change")' = Has("change") /\ ChangeOutside' = ChangeOutside
  BY SameOrder DEF ReportOK
<1>2. by[d] \in Sessions \cup {None} /\ before[d] \in Nat
      /\ \A a \in Sessions : version[a] \in Nat
  BY DEF HooksTypeOK
<1>3. changed[d] => by[d] # None
  BY <1>1, <1>2 DEF Reported
<1>4. /\ by'[d] # None => before'[d] <= version'[by'[d]]
      /\ changed'[d] => kind'[d] # "team" /\ before'[d] < version'[by'[d]]
  BY <1>1, <1>2, <1>3 DEF Reported, SameCall
<1>. QED  BY <1>1, <1>4 DEF Reported, SameCall

LEMMA StartReports ==
  ASSUME HooksTypeOK, HooksOK, ReportOK, NEW c \in Calls, NEW a \in Sessions, NEW k \in Kind,
         StartTool(c, a, k)
  PROVE  ReportOK'
<1>1. /\ by'[c] = a /\ kind'[c] = k /\ before'[c] = version[a] /\ changed'[c] = (k = "now")
      /\ place'[c] # "passed" /\ gave'[c] = gave[c] /\ watch'[c] = watch[c]
      /\ ended'[c] = ended[c] /\ hooks' = hooks
      /\ version'[a] = IF k = "now" THEN version[a] + 1 ELSE version[a]
  BY DEF HooksTypeOK, StartTool
<1>2. watch[c] = "none" /\ ~ended[c] /\ a # None
  BY DEF ReportOK, Reported, StartTool, Sessions
<1>3. version[a] \in Nat
  BY DEF HooksTypeOK
<1>4. /\ before'[c] <= version'[by'[c]]
      /\ k = "now" => before'[c] < version'[by'[c]]
  BY <1>1, <1>3
<1>5. Reported(c)'
  BY <1>1, <1>2, <1>4 DEF Reported
<1>6. hooks' = hooks /\ \A d \in Calls \ {c} : SameCall(d)
  BY OtherCalls
<1>7. \A b \in Sessions : version'[b] \in Nat /\ version'[b] >= version[b]
  BY VersionsGrow
<1>. QED  BY <1>5, <1>6, <1>7, OtherReports

LEMMA FinishReports ==
  ASSUME HooksTypeOK, HooksOK, ReportOK, NEW c \in Calls, FinishTool(c)
  PROVE  ReportOK'
<1>1. /\ hooks' = hooks /\ by' = by /\ kind' = kind /\ gave' = gave /\ watch' = watch
      /\ ended' = ended /\ before' = before /\ after' = after /\ published' = published
      /\ place'[c] = "channel" /\ changed'[c] = (kind[c] = "later")
      /\ version' = [version EXCEPT ![by[c]] = IF kind[c] = "later" THEN @ + 1 ELSE @]
  BY DEF HooksTypeOK, FinishTool
<1>2. by[c] # None /\ by[c] \in Sessions /\ gave[c] # "result" /\ Reported(c)
  BY DEF HooksTypeOK, HooksOK, ReportOK, FinishTool
<1>3. version[by[c]] \in Nat /\ before[c] \in Nat /\ version \in [Sessions -> Nat]
  BY <1>2 DEF HooksTypeOK
<1>4. version'[by[c]] = IF kind[c] = "later" THEN version[by[c]] + 1 ELSE version[by[c]]
  BY <1>1, <1>2, <1>3
<1>5. /\ before[c] <= version'[by[c]]
      /\ kind[c] = "later" => before[c] < version'[by[c]]
  BY <1>2, <1>3, <1>4 DEF Reported
<1>6. Has("change")' = Has("change") /\ ChangeOutside' = ChangeOutside
  BY <1>1, SameOrder
<1>7. Reported(c)'
  BY <1>1, <1>2, <1>5, <1>6 DEF Reported
<1>. QED  BY <1>1, <1>7, OtherCalls, VersionsGrow, OtherReports

\* What the hooks do leaves the digest before the call and the version.
LEMMA HookReports ==
  ASSUME HooksTypeOK, HooksOK, ReportOK, NEW c \in Calls,
         Settle(c) \/ TimeOut(c) \/ ContextDone(c)
  PROVE  ReportOK'
<1>1. /\ hooks' = hooks /\ by' = by /\ kind' = kind /\ before' = before /\ version' = version
      /\ changed' = changed
  BY DEF Settle, ReadResult, StartWatch, FinishWatch, TakeResult, DeliverOffloaded, TimeOut,
         ContextDone
<1>2. /\ Has("change")' = Has("change") /\ ChangeInside' = ChangeInside
      /\ ChangeOutside' = ChangeOutside
  BY <1>1, SameOrder
<1>3. Reported(c)
  BY DEF ReportOK
<1>4. hooks \in Orders
  BY DEF HooksTypeOK
<1>5. CASE ReadResult(c)
  <2>1. /\ place'[c] = "reply" /\ ended'[c] /\ ~Has("change")
        /\ UNCHANGED <<gave, watch, after, published>>
    BY <1>5 DEF ReadResult, EndCall, HooksTypeOK, Has
  <2>2. by[c] # None
    BY <1>5 DEF ReadResult, HooksOK
  <2>3. Reported(c)'
    BY <1>1, <1>2, <1>3, <2>1, <2>2 DEF Reported
  <2>. QED  BY <1>1, <2>3, OtherCalls, VersionsGrow, OtherReports
<1>6. CASE StartWatch(c)
  <2>1. /\ by[c] # None /\ by[c] \in Sessions /\ watch'[c] = "on" /\ after'[c] = version[by[c]]
        /\ ChangeInside \/ gave[c] \in {"result", "placeholder"}
        /\ UNCHANGED <<place, gave, ended, published>>
    BY <1>6 DEF StartWatch, HooksTypeOK
  <2>2. watch[c] = "none"
    BY <1>6 DEF StartWatch
  <2>3. Reported(c)'
    BY <1>1, <1>2, <1>3, <2>1, <2>2 DEF Reported, ChangeOutside
  <2>. QED  BY <1>1, <2>3, OtherCalls, VersionsGrow, OtherReports
<1>7. CASE FinishWatch(c)
  <2>1. /\ watch[c] = "on" /\ watch'[c] = "off" /\ UNCHANGED <<gave, after>>
        /\ by[c] # None
    BY <1>7 DEF FinishWatch, HooksTypeOK, HooksOK
  <2>2. before[c] # after[c] => "state_updated" \in published'[c]
    BY <1>7 DEF FinishWatch, Publish, HooksTypeOK
  <2>3. Reported(c)'
    BY <1>1, <1>2, <1>3, <2>1, <2>2 DEF Reported
  <2>. QED  BY <1>1, <2>3, OtherCalls, VersionsGrow, OtherReports
<1>8. CASE TakeResult(c)
  <2>1. /\ gave[c] = "none" /\ gave'[c] = "result" /\ UNCHANGED <<watch, after, published>>
        /\ Collected(c) /\ place'[c] \in {place[c], "reply"}
        /\ ended'[c] = ended[c] \/ ~ChangeOutside
    BY <1>8 DEF TakeResult, Give, EndCall, HooksTypeOK
  <2>2. by[c] # None
    BY <2>1 DEF HooksOK, Collected
  <2>3. ChangeOutside => watch[c] = "none"
    BY <1>3, <2>1 DEF Reported
  <2>4. ~ChangeOutside /\ Has("change") => watch[c] = "off"
    BY <1>3, <2>1 DEF Reported, ChangeOutside, Collected
  <2>5. Reported(c)'
    BY <1>1, <1>2, <1>3, <2>1, <2>2, <2>3, <2>4 DEF Reported
  <2>. QED  BY <1>1, <2>5, OtherCalls, VersionsGrow, OtherReports
<1>9. CASE DeliverOffloaded(c)
  <2>1. place'[c] = "sink" /\ UNCHANGED <<gave, watch, ended, after, published>>
    BY <1>9 DEF DeliverOffloaded, HooksTypeOK
  <2>2. Reported(c)'
    BY <1>1, <1>2, <1>3, <2>1 DEF Reported
  <2>. QED  BY <1>1, <2>2, OtherCalls, VersionsGrow, OtherReports
<1>10. CASE TimeOut(c)
  <2>1. /\ gave[c] = "none" /\ gave'[c] = "placeholder" /\ by[c] # None
        /\ UNCHANGED <<place, watch, after, published>>
    BY <1>10 DEF TimeOut, Give, HooksTypeOK
  <2>2. Reported(c)'
    BY <1>1, <1>2, <1>3, <2>1 DEF Reported
  <2>. QED  BY <1>1, <2>2, OtherCalls, VersionsGrow, OtherReports
<1>11. CASE ContextDone(c)
  <2>1. /\ gave[c] = "none" /\ gave'[c] = "error" /\ by[c] # None
        /\ UNCHANGED <<place, watch>>
        /\ ~ChangeOutside => UNCHANGED <<after, published>>
    BY <1>11 DEF ContextDone, Give, HooksTypeOK
  <2>2. ChangeOutside => watch[c] = "none"
    BY <1>3, <2>1 DEF Reported
  <2>3. Reported(c)'
    BY <1>1, <1>2, <1>3, <2>1, <2>2 DEF Reported
  <2>. QED  BY <1>1, <2>3, OtherCalls, VersionsGrow, OtherReports
<1>. QED  BY <1>5, <1>6, <1>7, <1>8, <1>9, <1>10, <1>11 DEF Settle

LEMMA ReportsStep ==
  ASSUME IInv, ReportOK, [Next]_vars
  PROVE  ReportOK'
<1>. USE DEF IInv, TypeOK
<1>1. ASSUME NEW c \in Calls, NEW s \in Sessions, Start(c, s)
      PROVE  ReportOK'
  <2>1. KindOf(script[c]) \in Kind
    BY DEF KindOf, Kind
  <2>. QED  BY <1>1, <2>1, StartReports DEF Start
<1>2. ASSUME UNCHANGED hookVars
      PROVE  ReportOK'
  <2>1. /\ Has("change")' = Has("change") /\ ChangeOutside' = ChangeOutside
        /\ UNCHANGED <<by, kind, place, gave, watch, ended, version, before, after, changed,
                       published>>
    BY <1>2, SameOrder DEF hookVars
  <2>. QED  BY <2>1 DEF ReportOK, Reported
<1>3. ASSUME NEW c \in Calls, Handle(c)
      PROVE  ReportOK'
  <2>1. FinishTool(c) \/ UNCHANGED hookVars
    BY <1>3 DEF Handle, HandleAgentCreate
  <2>. QED  BY <1>2, <2>1, FinishReports
<1>4. ASSUME NEW c \in Calls, Hook(c)
      PROVE  ReportOK'
  BY <1>4, HookReports DEF Hook
<1>5. ASSUME NEW d \in drains, Drain(d)
      PROVE  ReportOK'
  BY <1>2, <1>5 DEF Drain
<1>. QED  BY <1>1, <1>2, <1>3, <1>4, <1>5 DEF Next, vars

LEMMA ReportsInit == Init => ReportOK
BY DEF Init, InitHooks, ReportOK, Reported

\* A change a tool has made is published when the call has ended, unless
\* StateChange took its digest too early or ToolOffload went on without the tool.
THEOREM ChangesAreReported == Spec => []ChangeReported
<1>1. IInv /\ ReportOK => ChangeReported
  <2>. SUFFICES ASSUME IInv, ReportOK, NEW c \in Calls, ended[c], changed[c], Has("change"),
                       gave[c] \notin {"placeholder", "error"}, "state_updated" \notin published[c]
                PROVE  kind[c] = "later" /\ ~(ChangeOutside /\ gave[c] = "result")
    BY DEF ChangeReported
  <2>1. watch[c] = "off" /\ before[c] = after[c] /\ kind[c] # "team"
    BY DEF ReportOK, Reported
  <2>2. before[c] \in Nat /\ kind[c] \in Kind
    BY DEF IInv, TypeOK, HooksTypeOK
  <2>3. ~(before[c] < after[c])
    BY <2>1, <2>2
  <2>. QED  BY <2>1, <2>2, <2>3 DEF ReportOK, Reported, Kind
<1>. QED  BY InitInv, StepInv, ReportsInit, ReportsStep, <1>1, PTL DEF Spec

-------------------------------------------------------------------------------
(* The names in a team *)

\* One reply waits for one call at a time, or for several of TeamSay; a call it
\* no longer waits for has been handled or left behind.
SerialOK ==
  /\ \A c, d \in Calls :
       c # d /\ by[c] # None /\ by[c] = by[d] /\ ~ended[c] /\ ~ended[d] =>
         script[c].name = "TeamSay" /\ script[d].name = "TeamSay"
  /\ \A c \in Calls : ended[c] => place[c] \notin {"none", "tool"} \/ LeftBehind(c)

\* Only workers of calls that were left behind have the name n in team t.
OnlyLeftBehind(t, n) ==
  \A s \in RosterSet(t) : participants[s] = n => s \in Calls /\ LeftBehind(s)

\* A creation is for a team that was made by a call whose handler has ended and
\* that the caller leads, if it still exists; none but calls left behind have
\* taken the name since it was checked, unless the creation was left behind.
CreationOK(c) ==
  LET t == creating[c].team IN
  /\ by[t] # None /\ place[t] # "tool"
  /\ teams[t] # None => /\ teams[t].leader = by[c]
                        /\ LeftBehind(c) \/ OnlyLeftBehind(t, creating[c].name)

NamesOK == \A c \in Calls : creating[c] # None => CreationOK(c)

\* NamesUnique, of the members instead of their positions.
MembersDiffer ==
  \A t \in Calls : teams[t] # None =>
    \A r, s \in RosterSet(t) : r # s /\ participants[r] = participants[s] =>
      \E k \in {r, s} : k \in Calls /\ LeftBehind(k)

NamesInv == SerialOK /\ NamesOK /\ MembersDiffer

\* Whoever is in no team is on no roster.
LEMMA RosterApart ==
  ASSUME TeamTypeOK, MembershipAgrees, NEW s \in Sessions, sessionTeams[s] = None,
         NEW t \in Calls, teams[t] # None
  PROVE  RosterSet(t) \subseteq Sessions \ {s}
<1>1. RosterSet(t) \subseteq Sessions
  BY RosterSessions DEF TeamTypeOK
<1>2. \A r \in RosterSet(t) : sessionTeams[r] = t
  BY DEF MembershipAgrees
<1>. QED  BY <1>1, <1>2

\* What was left behind stays so, and what was handled stays handled.
LEMMA HookSerial ==
  ASSUME HooksTypeOK, HooksOK, ReportOK, NEW c \in Calls,
         Settle(c) \/ TimeOut(c) \/ ContextDone(c)
  PROVE  /\ by' = by
         /\ \A d \in Calls \ {c} : SameCall(d)
         /\ ended[c] => ended'[c]
         /\ LeftBehind(c) => LeftBehind(c)'
         /\ place[c] \notin {"none", "tool"} => place'[c] \notin {"none", "tool"}
         /\ place[c] # "tool" => place'[c] # "tool"
         /\ ended'[c] /\ ~ended[c] => place'[c] \notin {"none", "tool"} \/ LeftBehind(c)'
<1>1. by' = by /\ \A d \in Calls \ {c} : SameCall(d)
  BY OtherCalls DEF Settle, ReadResult, StartWatch, FinishWatch, TakeResult, DeliverOffloaded,
                    TimeOut, ContextDone
<1>. USE DEF HooksTypeOK, LeftBehind
<1>2. CASE ReadResult(c)
  BY <1>1, <1>2 DEF ReadResult, EndCall
<1>3. CASE StartWatch(c)
  BY <1>1, <1>3 DEF StartWatch
<1>4. CASE FinishWatch(c)
  <2>1. /\ gave' = gave
        /\ \/ place'[c] = "passed" /\ ended' = ended
           \/ gave[c] = "placeholder" /\ place' = place /\ EndCall(c)
           \/ place'[c] = "reply" /\ EndCall(c)
    BY <1>4 DEF FinishWatch
  <2>. QED  BY <1>1, <2>1 DEF EndCall
<1>5. CASE TakeResult(c)
  <2>1. /\ gave[c] = "none"
        /\ place'[c] = "reply" \/ (place' = place /\ ended'[c] = FALSE)
        /\ ended'[c] \/ ended' = ended
    BY <1>5 DEF TakeResult, Give, EndCall
  <2>. QED  BY <1>1, <2>1
<1>6. CASE DeliverOffloaded(c)
  BY <1>1, <1>6 DEF DeliverOffloaded
<1>7. CASE TimeOut(c)
  BY <1>1, <1>7 DEF TimeOut, Give, EndCall
<1>8. CASE ContextDone(c)
  BY <1>1, <1>8 DEF ContextDone, Give, EndCall
<1>. QED  BY <1>2, <1>3, <1>4, <1>5, <1>6, <1>7, <1>8 DEF Settle

LEMMA SerialStep ==
  ASSUME IInv, ReportOK, SerialOK, [Next]_vars
  PROVE  SerialOK'
<1>. USE DEF IInv, TypeOK
<1>1. ASSUME NEW c \in Calls, NEW s \in Sessions, Start(c, s)
      PROVE  SerialOK'
  <2>1. /\ by[c] = None /\ ~ended[c] /\ UNCHANGED <<script, ended, gave>>
        /\ by'[c] = s /\ \A d \in Calls \ {c} : by'[d] = by[d] /\ place'[d] = place[d]
        /\ FlushBefore(c, s)
    BY <1>1 DEF Start, StartTool, setting, HooksTypeOK, ReportOK, Reported
  <2>2. \A d, e \in Calls :
          d # e /\ by'[d] # None /\ by'[d] = by'[e] /\ ~ended'[d] /\ ~ended'[e] =>
            script'[d].name = "TeamSay" /\ script'[e].name = "TeamSay"
    <3>. SUFFICES ASSUME NEW d \in Calls, NEW e \in Calls, d # e, by'[d] # None,
                         by'[d] = by'[e], ~ended[d], ~ended[e]
                  PROVE  script[d].name = "TeamSay" /\ script[e].name = "TeamSay"
      BY <2>1
    <3>1. CASE d # c /\ e # c
      BY <2>1, <3>1 DEF SerialOK
    <3>2. CASE d = c \/ e = c
      BY <2>1, <3>2 DEF FlushBefore, Awaited
    <3>. QED  BY <3>1, <3>2
  <2>3. \A d \in Calls : ended'[d] => place'[d] \notin {"none", "tool"} \/ LeftBehind(d)'
    BY <2>1 DEF SerialOK, LeftBehind
  <2>. QED  BY <2>2, <2>3 DEF SerialOK
<1>2. ASSUME NEW c \in Calls, Handle(c)
      PROVE  SerialOK'
  <2>1. /\ UNCHANGED <<script, by, ended, gave>>
        /\ place' = place \/ place' = [place EXCEPT ![c] = "channel"]
    BY <1>2 DEF Handle, HandleAgentCreate, FinishTool, hookVars, setting
  <2>. QED  BY <2>1, SMTT(60) DEF SerialOK, LeftBehind, HooksTypeOK
<1>3. ASSUME NEW c \in Calls, Hook(c)
      PROVE  SerialOK'
  <2>1. /\ script' = script /\ by' = by
        /\ \A d \in Calls \ {c} : SameCall(d)
        /\ ended[c] => ended'[c]
        /\ LeftBehind(c) => LeftBehind(c)'
        /\ place[c] \notin {"none", "tool"} => place'[c] \notin {"none", "tool"}
        /\ ended'[c] /\ ~ended[c] => place'[c] \notin {"none", "tool"} \/ LeftBehind(c)'
    BY <1>3, HookSerial DEF Hook, setting
  <2>. QED  BY <2>1 DEF SerialOK, SameCall, LeftBehind
<1>4. CASE UNCHANGED <<script, by, ended, place, gave>>
  BY <1>4 DEF SerialOK, LeftBehind
<1>5. ASSUME NEW d \in drains, Drain(d)
      PROVE  SerialOK'
  BY <1>4, <1>5 DEF Drain, setting, hookVars
<1>6. CASE UNCHANGED vars
  BY <1>4, <1>6 DEF vars, setting, hookVars
<1>. QED  BY <1>1, <1>2, <1>3, <1>5, <1>6 DEF Next

-------------------------------------------------------------------------------
\* What the calls have done and have in hand, they keep.
CallsKeep ==
  \A d \in Calls :
    /\ LeftBehind(d) => LeftBehind(d)'
    /\ by[d] # None => by'[d] = by[d]
    /\ by[d] # None /\ place[d] # "tool" => place'[d] # "tool"

\* Team t is gone, or its roster and the names in it are the same.
TeamStays(t) ==
  teams'[t] # None =>
    teams'[t] = teams[t] /\ \A s \in RosterSet(t) : participants'[s] = participants[s]

\* The creation of c is over, or is for the same team and name.
CreationStays(c) ==
  creating'[c] # None =>
    /\ creating[c] # None
    /\ creating'[c].team = creating[c].team /\ creating'[c].name = creating[c].name

LEMMA CreationKeeps ==
  ASSUME TypeOK, CreatesInTool, CallsKeep, NEW c \in Calls, creating'[c] # None,
         CreationOK(c), CreationStays(c), TeamStays(creating[c].team)
  PROVE  CreationOK(c)'
<1>1. /\ creating[c] # None /\ creating[c] \in Creation /\ by'[c] = by[c]
      /\ creating'[c].team = creating[c].team /\ creating'[c].name = creating[c].name
  BY DEF CreationStays, CallsKeep, CreatesInTool, TypeOK, TeamTypeOK
<1>2. PICK t \in Calls, n \in Names : t = creating[c].team /\ n = creating[c].name
  BY <1>1 DEF Creation
<1>3. /\ by[t] # None /\ place[t] # "tool"
      /\ teams[t] # None => teams[t].leader = by[c] /\ (LeftBehind(c) \/ OnlyLeftBehind(t, n))
  BY <1>2 DEF CreationOK
<1>4. ASSUME teams'[t] # None
      PROVE  /\ teams'[t].leader = by'[c]
             /\ LeftBehind(c)' \/ OnlyLeftBehind(t, n)'
  <2>1. /\ teams'[t] = teams[t] /\ RosterSet(t)' = RosterSet(t)
        /\ \A s \in RosterSet(t) : participants'[s] = participants[s]
    BY <1>2, <1>4, SameRoster DEF TeamStays
  <2>2. OnlyLeftBehind(t, n) => OnlyLeftBehind(t, n)'
    BY <2>1 DEF OnlyLeftBehind, CallsKeep, LeftBehind
  <2>. QED  BY <1>1, <1>3, <1>4, <2>1, <2>2 DEF CallsKeep
<1>5. by'[t] # None /\ place'[t] # "tool"
  BY <1>3 DEF CallsKeep
<1>6. creating'[c].team = t /\ creating'[c].name = n
  BY <1>1, <1>2
<1>. QED  BY <1>4, <1>5, <1>6 DEF CreationOK, OnlyLeftBehind

\* The members of a team that stays still differ.
LEMMA TeamKeeps ==
  ASSUME MembersDiffer, CallsKeep, NEW t \in Calls, TeamStays(t), teams'[t] # None,
         NEW r \in RosterSet(t)', NEW s \in RosterSet(t)',
         r # s, participants'[r] = participants'[s]
  PROVE  \E k \in {r, s} : k \in Calls /\ LeftBehind(k)'
<1>1. /\ teams[t] # None /\ r \in RosterSet(t) /\ s \in RosterSet(t)
      /\ participants[r] = participants[s]
  BY SameRoster DEF TeamStays
<1>2. PICK k \in {r, s} : k \in Calls /\ LeftBehind(k)
  BY <1>1 DEF MembersDiffer
<1>. QED  BY <1>2 DEF CallsKeep, LeftBehind

LEMMA NothingNewKeeps ==
  ASSUME TypeOK, CreatesInTool, NamesOK, MembersDiffer, CallsKeep,
         \A t \in Calls : TeamStays(t), \A c \in Calls : CreationStays(c)
  PROVE  NamesOK' /\ MembersDiffer'
<1>1. ASSUME NEW c \in Calls, creating'[c] # None
      PROVE  CreationOK(c)'
  <2>1. creating[c] # None /\ creating[c] \in Creation
    BY <1>1 DEF CreationStays, TypeOK, TeamTypeOK
  <2>2. creating[c].team \in Calls
    BY <2>1 DEF Creation
  <2>. QED  BY <1>1, <2>1, <2>2, CreationKeeps DEF NamesOK
<1>. QED  BY <1>1, TeamKeeps DEF NamesOK, MembersDiffer

LEMMA CheckNameNames ==
  ASSUME IInv, NamesOK, MembersDiffer, CallsKeep, by' = by,
         NEW c \in Calls, NEW s \in Sessions, NEW n \in Names, by[c] = s, s # None,
         CheckName(c, s, n)
  PROVE  NamesOK' /\ MembersDiffer'
<1>. USE DEF IInv, TypeOK
<1>1. UNCHANGED <<participants, teams>> /\ \A t \in Calls : TeamStays(t)
  BY DEF CheckName, members, TeamStays
<1>2. \A d \in Calls \ {c} : CreationStays(d)
  BY OtherCreations DEF CreationStays
<1>3. CASE creating'[c] = None
  BY <1>1, <1>2, <1>3, NothingNewKeeps DEF CreationStays
<1>4. CASE creating'[c] # None
  <2>1. PICK t \in Calls : /\ t = LedTeam(s) /\ teams[t] # None /\ teams[t].leader = s
                           /\ ~NameTaken(t, n)
                           /\ creating'[c] = [step |-> "build", team |-> t, name |-> n]
    <3>1. LedTeam(s) # None /\ ~NameTaken(LedTeam(s), n)
      BY <1>4 DEF CheckName, TeamTypeOK
    <3>2. creating'[c] = [step |-> "build", team |-> LedTeam(s), name |-> n]
      BY <3>1 DEF CheckName, TeamTypeOK
    <3>. QED  BY <3>1, <3>2, LedTeamType
  <2>2. by[t] # None /\ place[t] # "tool"
    BY <2>1 DEF NotYet
  <2>3. /\ by'[t] # None /\ place'[t] # "tool"
        /\ \A r \in RosterSet(t)' : participants'[r] # n
    BY <1>1, <2>1, <2>2, SameRoster DEF CallsKeep, NameTaken
  <2>4. CreationOK(c)'
    BY <1>1, <2>1, <2>3 DEF CreationOK, OnlyLeftBehind
  <2>5. ASSUME NEW d \in Calls \ {c}, creating'[d] # None
        PROVE  CreationOK(d)'
    <3>1. creating[d] # None /\ creating[d].team \in Calls
      BY <1>2, <2>5 DEF CreationStays, TeamTypeOK, Creation
    <3>. QED  BY <1>1, <1>2, <2>5, <3>1, CreationKeeps DEF NamesOK
  <2>. QED  BY <1>1, <2>4, <2>5, TeamKeeps DEF NamesOK, MembersDiffer
<1>. QED  BY <1>3, <1>4

LEMMA CreateTeamNames ==
  ASSUME IInv, NamesOK, MembersDiffer, CallsKeep,
         NEW c \in Calls, NEW s \in Leaders, teams[c] = None, place[c] = "tool",
         CreateTeam(c, s)
  PROVE  NamesOK' /\ MembersDiffer'
<1>. USE DEF IInv, TypeOK
<1>1. UNCHANGED <<participants, creating>>
  BY DEF CreateTeam
<1>2. \A d \in Calls : CreationStays(d)
  BY <1>1 DEF CreationStays
<1>3. CASE teams' = teams
  BY <1>1, <1>2, <1>3, NothingNewKeeps DEF TeamStays
<1>4. CASE teams' = [teams EXCEPT ![c] = [leader |-> s, ids |-> <<>>]]
  <2>1. teams'[c] = [leader |-> s, ids |-> <<>>] /\ \A t \in Calls \ {c} : TeamStays(t)
    BY <1>1, <1>4 DEF TeamTypeOK, TeamStays
  <2>2. RosterSet(c)' = {s}
    BY <2>1 DEF RosterSet
  <2>3. ASSUME NEW d \in Calls, creating'[d] # None
        PROVE  CreationOK(d)'
    <3>1. creating[d] # None /\ creating[d].team \in Calls /\ CreationOK(d)
      BY <1>2, <2>3, ZenonT(60) DEF CreationStays, TeamTypeOK, Creation, NamesOK
    <3>2. creating[d].team # c
      BY <3>1 DEF CreationOK
    <3>. QED  BY <1>2, <2>1, <2>3, <3>1, <3>2, CreationKeeps
  <2>4. ASSUME NEW t \in Calls, teams'[t] # None,
               NEW r \in RosterSet(t)', NEW q \in RosterSet(t)',
               r # q, participants'[r] = participants'[q]
        PROVE  \E k \in {r, q} : k \in Calls /\ LeftBehind(k)'
    <3>1. t # c
      BY <2>2, <2>4
    <3>. QED  BY <2>1, <2>4, <3>1, TeamKeeps
  <2>. QED  BY <2>3, <2>4 DEF NamesOK, MembersDiffer
<1>. QED  BY <1>3, <1>4 DEF CreateTeam

\* Of two creations for one leader at the same time one was left behind.
LEMMA SecondLeftBehind ==
  ASSUME IInv, SerialOK, NEW c \in Calls, NEW d \in Calls \ {c},
         creating[c] # None, creating[d] # None, by[c] = by[d]
  PROVE  LeftBehind(c) \/ LeftBehind(d)
<1>1. /\ by[c] # None /\ place[c] = "tool" /\ script[c].name = "AgentCreate"
      /\ place[d] = "tool"
  BY DEF IInv, CreatesInTool
<1>2. ended[c] \/ ended[d]
  BY <1>1 DEF SerialOK
<1>. QED  BY <1>1, <1>2 DEF SerialOK

\* What Join does to the rosters.
LEMMA JoinRosters ==
  ASSUME TeamInv, NEW c \in Calls, sessionTeams[c] = None, Join(c),
         NEW t \in Calls, NEW n \in Names, creating[c].team = t, creating[c].name = n,
         teams[t] # None
  PROVE  /\ participants'[c] = n /\ teams'[t] # None /\ teams'[t].leader = teams[t].leader
         /\ RosterSet(t)' = RosterSet(t) \cup {c}
         /\ \A s \in RosterSet(t) : participants'[s] = participants[s]
         /\ \A u \in Calls \ {t} : TeamStays(u)
<1>1. c \in Sessions /\ TeamTypeOK'
  BY CreationSteps DEF TeamInv, Sessions
<1>2. /\ participants' = [participants EXCEPT ![c] = n]
      /\ teams' = [teams EXCEPT ![t] = [teams[t] EXCEPT !.ids = Append(@, c)]]
  BY DEF Join
<1>3. \A u \in Calls : teams[u] # None => RosterSet(u) \subseteq Sessions \ {c}
  BY <1>1, RosterApart DEF TeamInv
<1>4. participants'[c] = n /\ \A s \in Sessions \ {c} : participants'[s] = participants[s]
  BY <1>1, <1>2 DEF TeamInv, TeamTypeOK
<1>5. \A u \in Calls \ {t} : TeamStays(u)
  BY <1>2, <1>3, <1>4 DEF TeamInv, TeamTypeOK, TeamStays
<1>6. teams[t] \in Record /\ teams'[t] = [teams[t] EXCEPT !.ids = Append(@, c)]
  BY <1>2 DEF TeamInv, TeamTypeOK
<1>7. teams'[t] # None
  <2>1. teams'[t] \in Record
    BY <1>6, RecordType
  <2>. QED  BY <2>1
<1>8. teams[t].ids \in Seq(Calls) /\ teams'[t].leader = teams[t].leader
      /\ teams'[t].ids = Append(teams[t].ids, c)
  BY <1>6 DEF Record
<1>. QED  BY <1>3, <1>4, <1>5, <1>7, <1>8, RosterAppends, ZenonT(60)

LEMMA JoinNames ==
  ASSUME IInv, SerialOK, NamesOK, MembersDiffer, CallsKeep, NEW c \in Calls, Join(c)
  PROVE  NamesOK' /\ MembersDiffer'
<1>. USE DEF IInv, TypeOK
<1>1. PICK t \in Calls, n \in Names : t = creating[c].team /\ n = creating[c].name
  BY CreationSteps DEF Creation
<1>2. creating[c] # None /\ creating'[c] = None /\ \A d \in Calls \ {c} : creating'[d] = creating[d]
  BY OtherCreations DEF Join, TeamTypeOK
<1>3. \A d \in Calls : CreationStays(d)
  BY <1>2 DEF CreationStays
<1>4. CASE teams[t] = None
  <2>1. participants' = participants /\ teams' = teams
    BY <1>1, <1>4 DEF Join, members
  <2>. QED  BY <1>3, <2>1, NothingNewKeeps DEF TeamStays
<1>5. CASE teams[t] # None
  <2>1. sessionTeams[c] = None /\ TeamInv
    BY <1>2 DEF CreatesInTool, NotYet, TeamInv
  <2>2. /\ participants'[c] = n /\ teams'[t] # None /\ teams'[t].leader = teams[t].leader
        /\ RosterSet(t)' = RosterSet(t) \cup {c}
        /\ \A s \in RosterSet(t) : participants'[s] = participants[s]
        /\ \A u \in Calls \ {t} : TeamStays(u)
    BY <1>1, <1>5, <2>1, JoinRosters, SMTT(60)
  <2>3. /\ by[t] # None /\ place[t] # "tool" /\ teams[t].leader = by[c]
        /\ LeftBehind(c) \/ OnlyLeftBehind(t, n)
    BY <1>1, <1>2, <1>5 DEF NamesOK, CreationOK
  <2>4. ASSUME NEW d \in Calls, creating'[d] # None
        PROVE  CreationOK(d)'
    <3>1. d # c /\ creating'[d] = creating[d] /\ creating[d] \in Creation /\ CreationOK(d)
      BY <1>2, <2>4 DEF TeamTypeOK, NamesOK
    <3>2. PICK u \in Calls, m \in Names : creating[d].team = u /\ creating[d].name = m
      BY <3>1 DEF Creation
    <3>3. CASE u # t
      BY <1>3, <2>2, <2>4, <3>1, <3>2, <3>3, CreationKeeps
    <3>4. CASE u = t
      <4>1. teams[t].leader = by[d] /\ (LeftBehind(d) \/ OnlyLeftBehind(t, m))
        BY <1>5, <3>1, <3>2, <3>4 DEF CreationOK
      <4>2. LeftBehind(c) \/ LeftBehind(d)
        BY <1>2, <2>3, <2>4, <3>1, <4>1, SecondLeftBehind
      <4>3. by'[t] # None /\ place'[t] # "tool" /\ by'[d] = by[d]
        BY <2>3, <2>4, <3>1 DEF CallsKeep, CreatesInTool
      <4>4. LeftBehind(d)' \/ OnlyLeftBehind(t, m)'
        <5>1. CASE LeftBehind(d)
          BY <5>1 DEF CallsKeep
        <5>2. CASE LeftBehind(c) /\ OnlyLeftBehind(t, m)
          BY <2>2, <5>2 DEF OnlyLeftBehind, CallsKeep, LeftBehind
        <5>. QED  BY <4>1, <4>2, <5>1, <5>2
      <4>. QED  BY <2>2, <3>1, <3>2, <3>4, <4>1, <4>3, <4>4 DEF CreationOK, OnlyLeftBehind
    <3>. QED  BY <3>3, <3>4
  <2>5. ASSUME NEW u \in Calls, teams'[u] # None,
               NEW r \in RosterSet(u)', NEW q \in RosterSet(u)',
               r # q, participants'[r] = participants'[q]
        PROVE  \E k \in {r, q} : k \in Calls /\ LeftBehind(k)'
    <3>1. CASE u # t
      BY <2>2, <2>5, <3>1, TeamKeeps
    <3>2. CASE u = t /\ c \notin {r, q}
      <4>1. r \in RosterSet(t) /\ q \in RosterSet(t) /\ participants[r] = participants[q]
        BY <2>2, <2>5, <3>2
      <4>2. PICK k \in {r, q} : k \in Calls /\ LeftBehind(k)
        BY <1>5, <2>5, <4>1 DEF MembersDiffer
      <4>. QED  BY <4>2 DEF CallsKeep, LeftBehind
    <3>3. CASE u = t /\ c \in {r, q}
      <4>1. PICK x \in {r, q} : x \in RosterSet(t) /\ participants[x] = n
        BY <2>2, <2>5, <3>3
      <4>2. PICK k \in {r, q} : k \in Calls /\ LeftBehind(k)
        BY <2>3, <3>3, <4>1 DEF OnlyLeftBehind
      <4>. QED  BY <4>2 DEF CallsKeep, LeftBehind
    <3>. QED  BY <3>1, <3>2, <3>3
  <2>. QED  BY <2>4, <2>5 DEF NamesOK, MembersDiffer
<1>. QED  BY <1>4, <1>5

LEMMA HandleNames ==
  ASSUME IInv, SerialOK, NamesOK, MembersDiffer, NEW c \in Calls, Handle(c)
  PROVE  NamesOK' /\ MembersDiffer'
<1>. USE DEF IInv, TypeOK
<1>1. by[c] # None /\ by[c] \in Sessions /\ sessionTeams[c] = None /\ teams[c] = None
      /\ place[c] = "tool"
  <2>1. place[c] = "tool" BY DEF Handle
  <2>2. by[c] # None BY <2>1 DEF HooksOK
  <2>3. by[c] \in Sessions BY <2>2 DEF HooksTypeOK
  <2>. QED  BY <2>1, <2>2, <2>3 DEF NotYet
<1>2. c \in DOMAIN script /\ script[c] \in Tools /\ HasTool(by[c], script[c])
  BY <1>1, ScriptType DEF CallerRole
<1>3. /\ by' = by /\ gave' = gave
      /\ place' = place \/ place' = [place EXCEPT ![c] = "channel"]
  BY DEF Handle, HandleAgentCreate, FinishTool, hookVars
<1>4. CallsKeep
  BY <1>3 DEF CallsKeep, LeftBehind, HooksTypeOK
<1>5. CASE script[c].name = "AgentCreate" /\ HandleAgentCreate(c)
  <2>1. CASE CheckName(c, by[c], script[c].arg)
    <3>1. script[c].arg \in Names
      BY <1>2, <1>5, ToolArg
    <3>. QED  BY <1>1, <1>3, <1>4, <2>1, <3>1, CheckNameNames
  <2>2. CASE BuildWorker(c) \/ RegisterWorker(c)
    <3>1. teams' = teams /\ \A s \in Sessions \ {c} : participants'[s] = participants[s]
      BY <2>2 DEF BuildWorker, RegisterWorker, TeamTypeOK
    <3>2. \A t \in Calls : teams[t] # None => RosterSet(t) \subseteq Sessions \ {c}
      BY <1>1, RosterApart DEF Sessions
    <3>3. \A t \in Calls : TeamStays(t)
      BY <3>1, <3>2 DEF TeamStays
    <3>4. creating[c] \in Creation
      BY <2>2, CreationSteps
    <3>5. \A d \in Calls \ {c} : creating'[d] = creating[d]
      BY <2>2, OtherCreations
    <3>6. CreationStays(c)
      <4>1. PICK r \in {[creating[c] EXCEPT !.step = "register"],
                        [creating[c] EXCEPT !.step = "join"], None} :
              creating' = [creating EXCEPT ![c] = r]
        BY <2>2 DEF BuildWorker, RegisterWorker
      <4>2. creating'[c] = r
        BY <4>1 DEF TeamTypeOK
      <4>3. r # None => r.team = creating[c].team /\ r.name = creating[c].name
        BY <3>4, <4>1 DEF Creation
      <4>. QED  BY <3>4, <4>2, <4>3 DEF CreationStays
    <3>7. \A d \in Calls : CreationStays(d)
      BY <3>5, <3>6 DEF CreationStays
    <3>. QED  BY <1>4, <3>3, <3>7, NothingNewKeeps
  <2>3. CASE Join(c)
    BY <1>4, <2>3, JoinNames
  <2>. QED  BY <1>5, <2>1, <2>2, <2>3 DEF HandleAgentCreate
<1>6. CASE script[c].name = "TeamCreate" /\ CreateTeam(c, by[c])
  <2>1. by[c] \in Leaders
    BY <1>2, <1>6 DEF HasTool
  <2>. QED  BY <1>1, <1>4, <1>6, <2>1, CreateTeamNames
<1>7. CASE DeleteTeam(by[c])
  <2>1. creating' = creating
    BY <1>7 DEF DeleteTeam
  <2>2. ASSUME NEW t \in Calls
        PROVE  TeamStays(t)
    <3>1. CASE LedTeam(by[c]) = None
      BY <1>7, <3>1 DEF DeleteTeam, members, TeamStays
    <3>2. CASE LedTeam(by[c]) # None
      <4>1. PICK u \in Calls : u = LedTeam(by[c]) /\ teams[u] # None
        <5>1. LedTeam(by[c]) \in Calls /\ teams[LedTeam(by[c])] \in Record
          BY <1>1, <3>2, LedTeamType
        <5>. QED  BY <5>1
      <4>2. /\ teams' = [teams EXCEPT ![u] = None]
            /\ \A r \in Sessions : r \notin RosterSet(u) => participants'[r] = participants[r]
        BY <1>7, <3>2, <4>1 DEF DeleteTeam
      <4>3. ASSUME t # u, teams[t] # None, NEW s \in RosterSet(t)
            PROVE  participants'[s] = participants[s]
        <5>1. s \in Sessions
          BY <4>3, RosterSessions DEF TeamTypeOK
        <5>2. s \notin RosterSet(u)
          BY <4>1, <4>3 DEF MembershipAgrees
        <5>. QED  BY <4>2, <5>1, <5>2
      <4>. QED  BY <4>1, <4>2, <4>3 DEF TeamStays, TeamTypeOK
    <3>. QED  BY <3>1, <3>2
  <2>. QED  BY <1>4, <2>1, <2>2, NothingNewKeeps DEF CreationStays
<1>8. CASE UNCHANGED <<participants, teams, creating>>
  BY <1>4, <1>8, NothingNewKeeps DEF TeamStays, CreationStays
<1>. QED
  BY <1>5, <1>6, <1>7, <1>8 DEF Handle, Say, teamVars, members

LEMMA NamesStep ==
  ASSUME IInv, ReportOK, NamesInv, [Next]_vars
  PROVE  NamesInv'
<1>. USE DEF IInv, TypeOK, NamesInv
<1>1. SerialOK'
  BY SerialStep
<1>2. ASSUME CallsKeep, UNCHANGED <<participants, teams, creating>>
      PROVE  NamesOK' /\ MembersDiffer'
  BY <1>2, NothingNewKeeps DEF TeamStays, CreationStays
<1>3. ASSUME NEW c \in Calls, NEW s \in Sessions, Start(c, s)
      PROVE  NamesOK' /\ MembersDiffer'
  <2>1. CallsKeep
    BY <1>3, SMTT(60) DEF Start, StartTool, CallsKeep, LeftBehind, HooksTypeOK
  <2>. QED  BY <1>2, <1>3, <2>1 DEF Start, teamVars, members
<1>4. ASSUME NEW c \in Calls, Handle(c)
      PROVE  NamesOK' /\ MembersDiffer'
  BY <1>4, HandleNames
<1>5. ASSUME NEW c \in Calls, Hook(c)
      PROVE  NamesOK' /\ MembersDiffer'
  <2>1. CallsKeep
    BY <1>5, HookSerial, SMTT(60) DEF Hook, CallsKeep, SameCall, LeftBehind
  <2>. QED  BY <1>2, <1>5, <2>1 DEF Hook, teamVars, members
<1>6. ASSUME UNCHANGED <<by, place, gave>>
      PROVE  CallsKeep
  BY <1>6, SMTT(60) DEF CallsKeep, LeftBehind
<1>7. ASSUME NEW d \in drains, Drain(d)
      PROVE  NamesOK' /\ MembersDiffer'
  BY <1>2, <1>6, <1>7 DEF Drain, hookVars, TakeMail, ObserveMail, members
<1>8. CASE UNCHANGED vars
  <2>1. UNCHANGED <<by, place, gave, participants, teams, creating>>
    BY <1>8 DEF vars, hookVars, teamVars, members
  <2>. QED  BY <1>1, <1>2, <1>6, <2>1
<1>. QED  BY <1>1, <1>3, <1>4, <1>5, <1>7, <1>8 DEF Next

LEMMA NamesInit == Init => NamesInv
BY DEF Init, InitHooks, InitTeam, NamesInv, SerialOK, NamesOK, MembersDiffer

\* Two positions of a roster hold two sessions.
LEMMA RosterDiffers ==
  ASSUME IInv, NEW t \in Calls, teams[t] # None,
         NEW i \in DOMAIN Roster(t), NEW j \in DOMAIN Roster(t), i < j
  PROVE  Roster(t)[i] # Roster(t)[j]
<1>1. PICK s, ids : s = teams[t].leader /\ ids = teams[t].ids /\ s \in Leaders /\ ids \in Seq(Calls)
  BY DEF IInv, TypeOK, TeamTypeOK, Record
<1>2. \A k, l \in DOMAIN ids : ids[k] = ids[l] => k = l
  BY <1>1 DEF IInv, MembershipAgrees
<1>3. /\ DOMAIN Roster(t) = 1..Len(ids) + 1 /\ DOMAIN ids = 1..Len(ids) /\ Len(ids) \in Nat
      /\ Roster(t)[1] = s /\ \A k \in 1..Len(ids) : Roster(t)[k + 1] = ids[k] /\ ids[k] \in Calls
  <2>1. Roster(t) = <<s>> \o ids
    BY <1>1 DEF Roster
  <2>. QED  BY <1>1, <2>1, SMTT(60)
<1>4. j - 1 \in 1..Len(ids) /\ Roster(t)[j] = ids[j - 1]
  BY <1>3
<1>5. CASE i = 1
  BY <1>1, <1>3, <1>4, <1>5
<1>6. CASE i # 1
  <2>1. i - 1 \in 1..Len(ids) /\ Roster(t)[i] = ids[i - 1] /\ i - 1 # j - 1
    BY <1>3, <1>6
  <2>. QED  BY <1>2, <1>3, <1>4, <2>1
<1>. QED  BY <1>5, <1>6

\* Two of a team have one name only if ToolOffload, or the end of the context,
\* let the reply go on while the call that creates one of them was running.
THEOREM NamesAreUnique == Spec => []NamesUnique
<1>1. IInv /\ NamesInv => NamesUnique
  <2>. SUFFICES ASSUME IInv, MembersDiffer, NEW t \in Calls, teams[t] # None,
                       NEW i \in DOMAIN Roster(t), NEW j \in DOMAIN Roster(t), i < j,
                       participants[Roster(t)[i]] = participants[Roster(t)[j]]
                PROVE  \E k \in {i, j} : Roster(t)[k] \in Calls /\ LeftBehind(Roster(t)[k])
    BY DEF NamesUnique, NamesInv
  <2>1. PICK r, s \in RosterSet(t) : r = Roster(t)[i] /\ s = Roster(t)[j] /\ r # s
    BY RosterRange, RosterDiffers DEF IInv, TypeOK, TeamTypeOK
  <2>. QED  BY <2>1 DEF MembersDiffer
<1>. QED
  BY InitInv, StepInv, ReportsInit, ReportsStep, NamesInit, NamesStep, <1>1, PTL DEF Spec

-------------------------------------------------------------------------------
(* What becomes of the mail *)

\* Nothing was ever sent to the worker of c.
NoMail(c) ==
  /\ sent[c] = 0 /\ inbox[c] = <<>> /\ heard[c] = <<>>
  /\ \A d \in Drains : drained[d] # None => drained[d].session # c

NoMailYet == \A c \in Calls : by[c] = None \/ place[c] = "tool" => NoMail(c)

\* Two drains of one session at once have made it unsure.
OneDrain ==
  \A d, e \in Drains :
    d # e /\ drained[d] # None /\ drained[e] # None /\ drained[d].session = drained[e].session =>
      drained[d].session \in unsure

MailInv == NoMailYet /\ OneDrain /\ MailKept

\* All that was sent to s is heard, in hand or in the inbox, in order.
Told(s) == heard[s] \o InHand(s) \o inbox[s] = [i \in 1..sent[s] |-> i]

\* What a handler may do to the mail of s.
Quiet(s)     == inbox'[s] = inbox[s] /\ sent'[s] = sent[s]
Delivered(s) == inbox'[s] = Append(inbox[s], sent[s] + 1) /\ sent'[s] = sent[s] + 1
Forgotten(s) == participants'[s] = None /\ inbox'[s] = <<>> /\ sent'[s] = sent[s]

LEMMA InHandIs ==
  ASSUME TeamTypeOK, NEW s \in Sessions
  PROVE  /\ InHand(s) \in Seq(Nat)
         /\ Draining(s) = {} => InHand(s) = <<>>
         /\ \A d \in Drains : Draining(s) = {d} => InHand(s) = drained[d].messages
<1>1. InHand(s) = IF Draining(s) = {} THEN <<>>
                  ELSE drained[CHOOSE d \in Draining(s) : TRUE].messages
  BY DEF InHand
<1>2. \A d \in Draining(s) : drained[d].messages \in Seq(Nat)
  BY DEF Draining, TeamTypeOK, Batch
<1>3. Draining(s) # {} => (CHOOSE d \in Draining(s) : TRUE) \in Draining(s)
  OBVIOUS
<1>4. InHand(s) \in Seq(Nat)
  BY <1>1, <1>2, <1>3
<1>. QED  BY <1>1, <1>3, <1>4

LEMMA SameHand ==
  ASSUME NEW s, Draining(s)' = Draining(s), \A d \in Draining(s) : drained'[d] = drained[d]
  PROVE  InHand(s)' = InHand(s)
<1>1. (CHOOSE d \in Draining(s) : TRUE) \in Draining(s) \/ Draining(s) = {}
  OBVIOUS
<1>. QED  BY <1>1 DEF InHand

LEMMA NothingTold ==
  ASSUME TeamTypeOK, NEW c \in Calls, NoMail(c)
  PROVE  Told(c)
<1>1. c \in Sessions /\ Draining(c) = {}
  BY DEF Sessions, NoMail, Draining
<1>2. heard[c] = <<>> /\ InHand(c) = <<>> /\ inbox[c] = <<>> /\ sent[c] = 0
  BY <1>1, InHandIs DEF NoMail
<1>3. [i \in 1..0 |-> i] = <<>>
  OBVIOUS
<1>4. <<>> \o <<>> \o <<>> = <<>>
  OBVIOUS
<1>. QED  BY <1>2, <1>3, <1>4 DEF Told

\* The numbers up to n, and the next.
LEMMA OneMore ==
  ASSUME NEW n \in Nat
  PROVE  [i \in 1..n + 1 |-> i] = Append([i \in 1..n |-> i], n + 1)
<1>1. [i \in 1..n |-> i] \in Seq(Nat) /\ Len([i \in 1..n |-> i]) = n
  OBVIOUS
<1>. QED  BY <1>1

LEMMA ConcatAssociativeNat ==
  ASSUME NEW b \in Seq(Nat), NEW q \in Seq(Nat), NEW r \in Seq(Nat)
  PROVE  (b \o q) \o r = b \o (q \o r)
BY ConcatAssociative, SMTT(60)

LEMMA DeliveryTells ==
  ASSUME TeamTypeOK, NEW s \in Sessions, heard' = heard, drained' = drained,
         Told(s), Delivered(s)
  PROVE  Told(s)'
<1>1. InHand(s)' = InHand(s) /\ heard[s] \in Seq(Nat) /\ InHand(s) \in Seq(Nat)
      /\ inbox[s] \in Seq(Nat) /\ sent[s] \in Nat
  BY InHandIs, SameHand DEF Draining, TeamTypeOK
<1>2. PICK b \in Seq(Nat), q \in Seq(Nat), n \in Nat :
        b = heard[s] \o InHand(s) /\ q = inbox[s] /\ n = sent[s] + 1
  <2>1. heard[s] \o InHand(s) \in Seq(Nat) /\ sent[s] + 1 \in Nat
    BY <1>1
  <2>. QED  BY <1>1, <2>1
<1>3. b \o Append(q, n) = Append(b \o q, n)
  <2>1. b \o q \in Seq(Nat) /\ <<n>> \in Seq(Nat)
    OBVIOUS
  <2>2. Append(q, n) = q \o <<n>> /\ Append(b \o q, n) = (b \o q) \o <<n>>
    BY <2>1, AppendIsConcat, ZenonT(60)
  <2>3. (b \o q) \o <<n>> = b \o (q \o <<n>>)
    BY <2>1, ConcatAssociativeNat, SMTT(60)
  <2>. QED  BY <2>2, <2>3
<1>4. b \o q = [i \in 1..sent[s] |-> i]
  BY <1>2 DEF Told
<1>5. b \o Append(q, n) = [i \in 1..sent[s] + 1 |-> i]
  BY <1>1, <1>2, <1>3, <1>4, OneMore
<1>. QED  BY <1>1, <1>2, <1>5 DEF Told, Delivered

\* A step that takes no mail keeps it, where nobody is registered anew but
\* workers to whom nothing was sent.
LEMMA MailMoves ==
  ASSUME TeamTypeOK, MailInv, UNCHANGED reading,
         \A s \in Sessions : participants'[s] # None =>
           participants[s] # None \/ (s \in Calls /\ NoMail(s)),
         \A s \in Sessions : Quiet(s) \/ Delivered(s) \/ Forgotten(s),
         \A c \in Calls : by'[c] = None \/ place'[c] = "tool" =>
           (by[c] = None \/ place[c] = "tool") /\ (Quiet(c) \/ Forgotten(c))
  PROVE  MailInv'
<1>1. UNCHANGED <<drained, heard, unsure>>
  BY DEF reading
<1>2. OneDrain'
  BY <1>1 DEF MailInv, OneDrain
<1>3. NoMailYet'
  <2>. SUFFICES ASSUME NEW c \in Calls, by'[c] = None \/ place'[c] = "tool"
                PROVE  NoMail(c)'
    BY DEF NoMailYet
  <2>1. NoMail(c) /\ (Quiet(c) \/ Forgotten(c))
    BY DEF MailInv, NoMailYet
  <2>. QED  BY <1>1, <2>1 DEF NoMail, Quiet, Forgotten
<1>4. MailKept'
  <2>. SUFFICES ASSUME NEW s \in Sessions, participants'[s] # None, s \notin unsure
                PROVE  Told(s)'
    BY <1>1 DEF MailKept, Told
  <2>1. Told(s)
    BY NothingTold DEF MailInv, MailKept, Told
  <2>2. CASE Quiet(s)
    <3>1. InHand(s)' = InHand(s)
      BY <1>1, SameHand DEF Draining
    <3>. QED  BY <1>1, <2>1, <2>2, <3>1 DEF Told, Quiet
  <2>3. CASE Delivered(s)
    BY <1>1, <2>1, <2>3, DeliveryTells
  <2>. QED  BY <2>2, <2>3 DEF Forgotten
<1>. QED  BY <1>2, <1>3, <1>4 DEF MailInv

LEMMA TakeKeeps ==
  ASSUME TeamTypeOK, MailInv, UNCHANGED <<by, place>>, NEW d \in Drains, NEW s \in Sessions,
         TakeMail(d, s)
  PROVE  MailInv'
<1>1. /\ drained[d] = None /\ inbox[s] # <<>>
      /\ UNCHANGED <<participants, sent, heard>>
  BY DEF TakeMail, members
<1>2. /\ drained'[d] # None /\ drained'[d].session = s /\ drained'[d].messages = inbox[s]
      /\ \A e \in Drains \ {d} : drained'[e] = drained[e]
  <2>1. [session |-> s, messages |-> inbox[s]] \in Batch
    BY DEF TeamTypeOK, Batch
  <2>2. drained' = [drained EXCEPT ![d] = [session |-> s, messages |-> inbox[s]]]
    BY DEF TakeMail
  <2>. QED  BY <2>1, <2>2 DEF TeamTypeOK
<1>3. inbox'[s] = <<>> /\ \A r \in Sessions \ {s} : inbox'[r] = inbox[r]
  BY DEF TakeMail, TeamTypeOK
<1>4. /\ unsure \subseteq unsure'
      /\ Draining(s) # {} => s \in unsure'
  BY DEF TakeMail, Draining
<1>5. OneDrain'
  <2>. SUFFICES ASSUME NEW e \in Drains, NEW f \in Drains, e # f, drained'[e] # None,
                       drained'[f] # None, drained'[e].session = drained'[f].session
                PROVE  drained'[e].session \in unsure'
    BY DEF OneDrain
  <2>1. CASE d \in {e, f}
    <3>1. \E g \in Drains : g # d /\ drained[g] # None /\ drained[g].session = s
      BY <1>2, <2>1
    <3>. QED  BY <1>2, <1>4, <2>1, <3>1 DEF Draining
  <2>2. CASE d \notin {e, f}
    BY <1>2, <1>4, <2>2 DEF MailInv, OneDrain
  <2>. QED  BY <2>1, <2>2
<1>6. NoMailYet'
  <2>. SUFFICES ASSUME NEW c \in Calls, by[c] = None \/ place[c] = "tool"
                PROVE  NoMail(c)'
    BY DEF NoMailYet
  <2>1. NoMail(c) /\ c # s /\ c \in Sessions
    BY <1>1 DEF MailInv, NoMailYet, NoMail, Sessions
  <2>. QED  BY <1>1, <1>2, <1>3, <2>1 DEF NoMail
<1>7. MailKept'
  <2>. SUFFICES ASSUME NEW r \in Sessions, participants[r] # None, r \notin unsure'
                PROVE  Told(r)'
    BY <1>1 DEF MailKept, Told
  <2>1. Told(r)
    BY <1>4 DEF MailInv, MailKept, Told
  <2>2. CASE r # s
    <3>1. Draining(r)' = Draining(r) /\ \A e \in Draining(r) : drained'[e] = drained[e]
      BY <1>1, <1>2, <2>2 DEF Draining
    <3>. QED  BY <1>1, <1>3, <2>1, <2>2, <3>1, SameHand DEF Told
  <2>3. CASE r = s
    <3>1. Draining(s) = {} /\ Draining(s)' = {d}
      BY <1>2, <1>4, <2>3 DEF Draining
    <3>2. InHand(s) = <<>> /\ InHand(s)' = drained'[d].messages
      BY <3>1 DEF InHand
    <3>3. InHand(s)' = inbox[s]
      BY <1>2, <3>2
    <3>4. heard[s] \in Seq(Nat) /\ inbox[s] \in Seq(Nat)
      BY DEF TeamTypeOK
    <3>5. (heard[s] \o inbox[s]) \o <<>> = (heard[s] \o <<>>) \o inbox[s]
      BY <3>4, ConcatProperties, ConcatEmptySeq
    <3>. QED  BY <1>1, <1>3, <2>1, <2>3, <3>2, <3>3, <3>5 DEF Told
  <2>. QED  BY <2>2, <2>3
<1>. QED  BY <1>5, <1>6, <1>7 DEF MailInv

LEMMA ObserveKeeps ==
  ASSUME TeamTypeOK, MailInv, UNCHANGED <<by, place>>, NEW d \in Drains, ObserveMail(d)
  PROVE  MailInv'
<1>1. PICK s \in Sessions, m \in Seq(Nat) :
        s = drained[d].session /\ m = drained[d].messages /\ drained[d] # None
  BY DEF TeamTypeOK, ObserveMail, Batch
<1>2. UNCHANGED <<participants, sent, inbox>>
  BY DEF ObserveMail, members, mail
<1>3. drained'[d] = None /\ \A e \in Drains \ {d} : drained'[e] = drained[e]
  BY SMTT(60) DEF ObserveMail, TeamTypeOK
<1>4. PICK k \in 0..Len(m) : /\ heard' = [heard EXCEPT ![s] = heard[s] \o SubSeq(m, 1, k)]
                             /\ unsure' = IF k < Len(m) THEN unsure \cup {s} ELSE unsure
  BY <1>1 DEF ObserveMail
<1>5. unsure \subseteq unsure' /\ \A r \in Sessions \ {s} : heard'[r] = heard[r]
  BY <1>4 DEF TeamTypeOK
<1>6. OneDrain'
  <2>1. \A e, f \in Drains :
          e # f /\ drained'[e] # None /\ drained'[f] # None
          /\ drained'[e].session = drained'[f].session => e # d /\ f # d
    BY <1>3
  <2>. QED  BY <1>3, <1>5, <2>1 DEF MailInv, OneDrain
<1>7. NoMailYet'
  <2>. SUFFICES ASSUME NEW c \in Calls, by[c] = None \/ place[c] = "tool"
                PROVE  NoMail(c)'
    BY DEF NoMailYet
  <2>1. NoMail(c) /\ c # s /\ c \in Sessions
    BY <1>1 DEF MailInv, NoMailYet, NoMail, Sessions
  <2>. QED  BY <1>2, <1>3, <1>5, <2>1 DEF NoMail
<1>8. MailKept'
  <2>. SUFFICES ASSUME NEW r \in Sessions, participants[r] # None, r \notin unsure'
                PROVE  Told(r)'
    BY <1>2 DEF MailKept, Told
  <2>1. Told(r) /\ r \notin unsure
    BY <1>5 DEF MailInv, MailKept, Told
  <2>2. CASE r # s
    <3>1. Draining(r)' = Draining(r) /\ \A e \in Draining(r) : drained'[e] = drained[e]
      BY <1>1, <1>3, <2>2 DEF Draining
    <3>. QED  BY <1>2, <1>5, <2>1, <2>2, <3>1, SameHand DEF Told
  <2>3. CASE r = s
    <3>1. k = Len(m)
      <4>1. ~(k < Len(m))
        BY <1>4, <2>3
      <4>. QED  BY <4>1
    <3>2. Draining(s) = {d} /\ Draining(s)' = {}
      BY <1>1, <1>3, <2>1, <2>3 DEF Draining, MailInv, OneDrain
    <3>3. InHand(s) = m /\ InHand(s)' = <<>>
      BY <1>1, <3>2 DEF InHand
    <3>4. heard[s] \in Seq(Nat) /\ SubSeq(m, 1, k) = m
      BY <3>1, SubSeqFull DEF TeamTypeOK
    <3>5. heard'[s] = heard[s] \o m
      BY <1>4, <3>4 DEF TeamTypeOK
    <3>6. heard'[s] \o <<>> = heard[s] \o m
      <4>1. heard[s] \o m \in Seq(Nat)
        BY <3>4
      <4>. QED  BY <3>5, <4>1, ConcatEmptySeq
    <3>. QED  BY <1>2, <2>1, <2>3, <3>3, <3>6 DEF Told
  <2>. QED  BY <2>2, <2>3
<1>. QED  BY <1>6, <1>7, <1>8 DEF MailInv

LEMMA DeliverMoves ==
  ASSUME TeamTypeOK, NEW S, Deliver(S)
  PROVE  \A s \in Sessions : (s \in S => Delivered(s)) /\ (s \notin S => Quiet(s))
BY DEF Deliver, Delivered, Quiet

\* A message is sent to members of a team: none of them is yet to come.
LEMMA SayMoves ==
  ASSUME IInv, NEW s \in Sessions, NEW n, Say(s, n)
  PROVE  /\ \A r \in Sessions : Quiet(r) \/ Delivered(r)
         /\ \A c \in Calls : sessionTeams[c] = None => Quiet(c)
<1>. USE DEF IInv, TypeOK
<1>1. CASE UNCHANGED mail
  BY <1>1 DEF mail, Quiet, Sessions
<1>2. ASSUME NEW t \in Calls, teams[t] # None, NEW S \in SUBSET RosterSet(t), Deliver(S)
      PROVE  /\ \A r \in Sessions : Quiet(r) \/ Delivered(r)
             /\ \A c \in Calls : sessionTeams[c] = None => Quiet(c)
  <2>1. ASSUME NEW c \in Calls, sessionTeams[c] = None
        PROVE  c \notin S
    BY <1>2, <2>1 DEF MembershipAgrees
  <2>. QED  BY <1>2, <2>1, DeliverMoves DEF Sessions
<1>3. CASE ~UNCHANGED mail
  <2>1. PICK t : t = CurrentTeam(s) /\ t # None
                 /\ \/ Deliver(RosterSet(t) \ {s})
                    \/ \E i \in DOMAIN Roster(t) : Deliver({Roster(t)[i]} \ {s})
    BY <1>3 DEF Say
  <2>2. t \in Calls /\ teams[t] # None /\ teams[t] \in Record
    BY <2>1 DEF CurrentTeam, TeamTypeOK
  <2>3. CASE Deliver(RosterSet(t) \ {s})
    BY <1>2, <2>2, <2>3
  <2>4. CASE \E i \in DOMAIN Roster(t) : Deliver({Roster(t)[i]} \ {s})
    <3>1. PICK i \in DOMAIN Roster(t) : Deliver({Roster(t)[i]} \ {s})
      BY <2>4
    <3>2. {Roster(t)[i]} \ {s} \in SUBSET RosterSet(t)
      BY <2>2, RosterRange
    <3>. QED  BY <1>2, <2>2, <3>1, <3>2
  <2>. QED  BY <2>1, <2>3, <2>4
<1>. QED  BY <1>1, <1>3

LEMMA HandleMail ==
  ASSUME IInv, MailInv, NEW c \in Calls, Handle(c)
  PROVE  MailInv'
<1>. USE DEF IInv, TypeOK
<1>1. /\ by[c] # None /\ by[c] \in Sessions /\ place[c] = "tool" /\ c \in Sessions
      /\ NoMail(c)
  BY DEF Handle, HooksOK, HooksTypeOK, Sessions, MailInv, NoMailYet
<1>2. /\ by' = by
      /\ place' = place \/ place' = [place EXCEPT ![c] = "channel"]
      /\ FinishTool(c) \/ creating'[c] # None
  BY DEF Handle, HandleAgentCreate, FinishTool, hookVars
<1>3. \A d \in Calls : by'[d] = None \/ place'[d] = "tool" =>
        /\ by[d] = None \/ place[d] = "tool"
        /\ d = c => creating'[c] # None
  BY <1>1, <1>2 DEF HooksTypeOK, FinishTool
<1>4. ASSUME UNCHANGED <<mail, reading>>,
             \A s \in Sessions : participants'[s] # None => participants[s] # None \/ s = c
      PROVE  MailInv'
  <2>1. \A s \in Sessions : Quiet(s)
    BY <1>4 DEF mail, Quiet
  <2>. QED  BY <1>1, <1>3, <1>4, <2>1, MailMoves DEF Sessions
<1>5. CASE \/ CreateTeam(c, by[c]) \/ CheckName(c, by[c], script[c].arg) \/ UNCHANGED teamVars
  BY <1>4, <1>5 DEF CreateTeam, CheckName, teamVars, members
<1>6. CASE BuildWorker(c) \/ RegisterWorker(c)
  <2>1. \/ participants' = participants
        \/ participants' = [participants EXCEPT ![c] = creating[c].name]
    BY <1>6 DEF BuildWorker, RegisterWorker
  <2>. QED  BY <1>4, <1>6, <2>1 DEF BuildWorker, RegisterWorker, TeamTypeOK
<1>7. CASE Join(c)
  <2>1. UNCHANGED reading /\ creating'[c] = None
    BY <1>7 DEF Join, TeamTypeOK
  <2>2. CASE UNCHANGED <<members, mail>>
    BY <1>4, <2>1, <2>2 DEF members
  <2>3. CASE Deliver({c}) /\ participants' = [participants EXCEPT ![c] = creating[c].name]
    <3>1. \A s \in Sessions : participants'[s] # None => participants[s] # None \/ s = c
      BY <2>3 DEF TeamTypeOK
    <3>2. \A s \in Sessions : (s = c => Delivered(s)) /\ (s # c => Quiet(s))
      BY <2>3, DeliverMoves
    <3>3. \A d \in Calls : by'[d] = None \/ place'[d] = "tool" =>
            (by[d] = None \/ place[d] = "tool") /\ Quiet(d)
      BY <1>3, <2>1, <3>2 DEF Sessions
    <3>. QED  BY <1>1, <2>1, <3>1, <3>2, <3>3, MailMoves
  <2>. QED  BY <1>7, <2>2, <2>3 DEF Join
<1>8. CASE Say(by[c], script[c].arg)
  <2>1. participants' = participants /\ UNCHANGED reading
    BY <1>8 DEF Say, members
  <2>2. /\ \A r \in Sessions : Quiet(r) \/ Delivered(r)
        /\ \A d \in Calls : sessionTeams[d] = None => Quiet(d)
    BY <1>1, <1>8, SayMoves
  <2>3. \A d \in Calls : by'[d] = None \/ place'[d] = "tool" =>
          (by[d] = None \/ place[d] = "tool") /\ Quiet(d)
    BY <1>3, <2>2 DEF NotYet
  <2>. QED  BY <2>1, <2>2, <2>3, MailMoves
<1>9. CASE DeleteTeam(by[c])
  <2>1. CASE UNCHANGED <<members, inbox>>
    BY <1>4, <1>9, <2>1 DEF DeleteTeam, members, mail
  <2>2. CASE ~UNCHANGED <<members, inbox>>
    <3>1. PICK ids :
            /\ participants' = [r \in Sessions |-> IF r \in ids THEN None ELSE participants[r]]
            /\ inbox' = [r \in Sessions |-> IF r \in ids THEN <<>> ELSE inbox[r]]
      BY <1>9, <2>2 DEF DeleteTeam
    <3>2. sent' = sent /\ UNCHANGED reading
      BY <1>9 DEF DeleteTeam
    <3>3. \A r \in Sessions : Quiet(r) \/ Forgotten(r)
      BY <3>1, <3>2 DEF Quiet, Forgotten
    <3>4. \A r \in Sessions : participants'[r] # None => participants[r] # None
      BY <3>1
    <3>. QED  BY <1>3, <3>2, <3>3, <3>4, MailMoves DEF Sessions
  <2>. QED  BY <2>1, <2>2
<1>. QED
  BY <1>5, <1>6, <1>7, <1>8, <1>9 DEF Handle, HandleAgentCreate

LEMMA MailStep ==
  ASSUME IInv, MailInv, [Next]_vars
  PROVE  MailInv'
<1>. USE DEF IInv, TypeOK
<1>1. ASSUME UNCHANGED teamVars,
             \A c \in Calls :
               by'[c] = None \/ place'[c] = "tool" => by[c] = None \/ place[c] = "tool"
      PROVE  MailInv'
  <2>1. UNCHANGED <<participants, mail, reading>> /\ \A s \in Sessions : Quiet(s)
    BY <1>1 DEF teamVars, members, mail, Quiet
  <2>. QED  BY <1>1, <2>1, MailMoves DEF Sessions
<1>2. ASSUME NEW c \in Calls, NEW s \in Sessions, Start(c, s)
      PROVE  MailInv'
  BY <1>1, <1>2 DEF Start, StartTool, HooksTypeOK
<1>3. ASSUME NEW c \in Calls, Handle(c)
      PROVE  MailInv'
  BY <1>3, HandleMail
<1>4. ASSUME NEW c \in Calls, Hook(c)
      PROVE  MailInv'
  BY <1>1, <1>4, HookStep DEF Hook, HooksOnly
<1>5. ASSUME NEW d \in drains, Drain(d)
      PROVE  MailInv'
  BY <1>5, TakeKeeps, ObserveKeeps DEF Drain, hookVars
<1>6. CASE UNCHANGED vars
  BY <1>1, <1>6 DEF vars, hookVars
<1>. QED  BY <1>2, <1>3, <1>4, <1>5, <1>6 DEF Next

LEMMA MailInit == Init => MailInv
<1>. SUFFICES ASSUME Init
              PROVE  MailInv
  OBVIOUS
<1>1. InitTeam /\ TypeOK
  BY InitInv DEF Init, IInv
<1>2. NoMailYet /\ OneDrain
  BY <1>1 DEF InitTeam, NoMailYet, NoMail, OneDrain, Sessions
<1>3. MailKept
  <2>. SUFFICES ASSUME NEW s \in Sessions
                PROVE  Told(s)
    BY DEF MailKept, Told
  <2>1. Draining(s) = {} /\ heard[s] = <<>> /\ inbox[s] = <<>> /\ sent[s] = 0
    BY <1>1 DEF InitTeam, Draining
  <2>2. InHand(s) = <<>>
    BY <2>1 DEF InHand
  <2>3. [i \in 1..0 |-> i] = <<>> /\ <<>> \o <<>> \o <<>> = <<>>
    OBVIOUS
  <2>. QED  BY <2>1, <2>2, <2>3 DEF Told
<1>. QED  BY <1>2, <1>3 DEF MailInv

\* Every message to a registered session is heard, in hand or in its inbox, in
\* the order of the deliveries and once, whatever handlers and drains overlap,
\* unless an Observe failed or two drains of the session did.
THEOREM MailIsKept == Spec => []MailKept
<1>1. MailInv => MailKept
  BY DEF MailInv
<1>. QED  BY InitInv, StepInv, MailInit, MailStep, <1>1, PTL DEF Spec

==============================================================================
