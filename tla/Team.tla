---------------------------------- MODULE Team ----------------------------------
(***************************************************************************)
(* team.Manager: the membership and the inboxes of the agent teams of one  *)
(* process, all behind one mutex.  Every method is one action, but for     *)
(* AgentCreate, which gives the mutex up while the worker is built, and    *)
(* DrainInbox, which clears the inbox under the mutex of the Manager and   *)
(* lets the agent observe the messages under its own.                      *)
(*                                                                         *)
(* A message is its number among those delivered to its session.           *)
(***************************************************************************)
EXTENDS ToolCalls, Sequences

CONSTANTS
  Names,       \* names of agents
  LeaderName,  \* the name of the leaders
  Drains       \* goroutines that call DrainInbox

ASSUME NamesAssumption == LeaderName \in Names /\ None \notin Names

VARIABLES
  participants,  \* the name each session is registered under, or None
  teams,         \* the record of each team, or None
  sessionTeams,  \* the team each session is in, or None
  inbox,         \* the messages of each session that wait
  sent,          \* how many messages each session was ever sent
  creating,      \* the AgentCreate of each call, or None
  built,         \* the workers built so far
  drained,       \* what each DrainInbox has taken and not observed, or None
  heard,         \* the messages each agent has observed
  unsure         \* sessions an Observe failed for, or two drains at once took from

members  == <<participants, teams, sessionTeams>>
mail     == <<inbox, sent>>
reading  == <<drained, heard, unsure>>
teamVars == <<members, mail, creating, built, reading>>

\* What createAgent keeps across its three sections.
Creation == [step: {"build", "register", "join"}, team: Calls, name: Names]
Record   == [leader: Leaders, ids: Seq(Calls)]
Batch    == [session: Sessions, messages: Seq(Nat)]

ASSUME NoneAssumption == None \notin Creation \cup Record \cup Batch

InitTeam ==
  /\ participants = [s \in Sessions |-> IF s \in Leaders THEN LeaderName ELSE None]
  /\ teams = [t \in Calls |-> None]
  /\ sessionTeams = [s \in Sessions |-> None]
  /\ inbox = [s \in Sessions |-> <<>>]
  /\ sent = [s \in Sessions |-> 0]
  /\ creating = [c \in Calls |-> None]
  /\ built = {}
  /\ drained = [d \in Drains |-> None]
  /\ heard = [s \in Sessions |-> <<>>]
  /\ unsure = {}

-------------------------------------------------------------------------------
\* The team of s, as currentTeamLocked finds it, or None.
CurrentTeam(s) ==
  IF participants[s] # None /\ sessionTeams[s] # None /\ teams[sessionTeams[s]] # None
    THEN sessionTeams[s] ELSE None

\* The team s leads, as leaderTeamLocked finds it, or None.
LedTeam(s) ==
  LET t == CurrentTeam(s) IN IF t # None /\ teams[t].leader = s THEN t ELSE None

\* The sessions of team t in the order memberByNameLocked goes through them.
Roster(t) == <<teams[t].leader>> \o teams[t].ids

RosterSet(t) == {teams[t].leader} \cup {teams[t].ids[i] : i \in DOMAIN teams[t].ids}

\* A registered session of team t has the name n.
NameTaken(t, n) == \E s \in RosterSet(t) : participants[s] = n

\* memberByNameLocked finds the i-th of team t for the name n: the first one.
FoundByName(t, n, i) ==
  /\ participants[Roster(t)[i]] = n
  /\ \A j \in DOMAIN Roster(t) : participants[Roster(t)[j]] = n => i <= j

\* deliverLocked to each of the sessions S.
Deliver(S) ==
  /\ inbox' = [s \in Sessions |-> IF s \in S THEN Append(inbox[s], sent[s] + 1) ELSE inbox[s]]
  /\ sent' = [s \in Sessions |-> IF s \in S THEN sent[s] + 1 ELSE sent[s]]

\* TeamCreate, called by session s.
CreateTeam(c, s) ==
  /\ IF participants[s] # None /\ sessionTeams[s] = None
       THEN /\ teams' = [teams EXCEPT ![c] = [leader |-> s, ids |-> <<>>]]
            /\ sessionTeams' = [sessionTeams EXCEPT ![s] = c]
       ELSE UNCHANGED <<teams, sessionTeams>>
  /\ UNCHANGED <<participants, mail, creating, built, reading>>

\* AgentCreate, first section: the caller leads a team, and the name is free.
CheckName(c, s, n) ==
  /\ creating' = [creating EXCEPT ![c] =
       IF LedTeam(s) # None /\ ~NameTaken(LedTeam(s), n)
         THEN [step |-> "build", team |-> LedTeam(s), name |-> n]
         ELSE None]
  /\ UNCHANGED <<members, mail, built, reading>>

\* The factory builds a worker of a session of its own, without the mutex.  The
\* default one registers it at once (WithTeam); NewAgent may fail after that.
BuildWorker(c) ==
  /\ creating[c] # None /\ creating[c].step = "build"
  /\ \/ /\ creating' = [creating EXCEPT ![c] = None]
        /\ UNCHANGED <<participants, built>>
     \/ \E registers, succeeds \in BOOLEAN :
          /\ registers \/ succeeds
          /\ built' = built \cup {c}
          /\ participants' = IF registers
               THEN [participants EXCEPT ![c] = creating[c].name] ELSE participants
          /\ creating' = [creating EXCEPT ![c] =
               IF succeeds THEN [@ EXCEPT !.step = "register"] ELSE None]
  /\ UNCHANGED <<teams, sessionTeams, mail, reading>>

\* RegisterAgent, under a section of its own.
RegisterWorker(c) ==
  /\ creating[c] # None /\ creating[c].step = "register"
  /\ participants' = [participants EXCEPT ![c] = creating[c].name]
  /\ creating' = [creating EXCEPT ![c].step = "join"]
  /\ UNCHANGED <<teams, sessionTeams, mail, built, reading>>

\* Mutant: the last section trusts the first: the team is still there.
JoinUnchecked(c) ==
  /\ creating[c] # None /\ creating[c].step = "join"
  /\ creating' = [creating EXCEPT ![c] = None]
  /\ LET t == creating[c].team IN
       /\ participants' = [participants EXCEPT ![c] = creating[c].name]
       /\ teams' = IF teams[t] = None THEN teams ELSE [teams EXCEPT ![t].ids = Append(@, c)]
       /\ sessionTeams' = [sessionTeams EXCEPT ![c] = t]
       /\ Deliver({c})
  /\ UNCHANGED <<built, reading>>

\* AgentCreate, last section: the worker joins and is sent the prompt, if the
\* team still exists.
Join(c) ==
  /\ creating[c] # None /\ creating[c].step = "join"
  /\ creating' = [creating EXCEPT ![c] = None]
  /\ LET t == creating[c].team IN
       IF teams[t] = None
         THEN UNCHANGED <<members, mail>>
         ELSE /\ participants' = [participants EXCEPT ![c] = creating[c].name]
              /\ teams' = [teams EXCEPT ![t].ids = Append(@, c)]
              /\ sessionTeams' = [sessionTeams EXCEPT ![c] = t]
              /\ Deliver({c})
  /\ UNCHANGED <<built, reading>>

\* TeamSay of session s to the name n, or to all the others (None).
Say(s, n) ==
  /\ LET t == CurrentTeam(s) IN
     \/ ~(t # None /\ (n = None \/ NameTaken(t, n))) /\ UNCHANGED mail
     \/ t # None /\ n = None /\ Deliver(RosterSet(t) \ {s})
     \/ /\ t # None /\ n # None
        /\ \E i \in DOMAIN Roster(t) : FoundByName(t, n, i) /\ Deliver({Roster(t)[i]} \ {s})
  /\ UNCHANGED <<members, creating, built, reading>>

\* TeamDelete of session s: the members are forgotten, with their mail.
DeleteTeam(s) ==
  /\ LET t == LedTeam(s) IN
       IF t = None
         THEN UNCHANGED <<members, inbox>>
         ELSE LET ids == RosterSet(t) \ {s} IN
              /\ participants' = [r \in Sessions |-> IF r \in ids THEN None ELSE participants[r]]
              /\ inbox' = [r \in Sessions |-> IF r \in ids THEN <<>> ELSE inbox[r]]
              /\ sessionTeams' = [r \in Sessions |->
                                    IF r \in ids \cup {s} THEN None ELSE sessionTeams[r]]
              /\ teams' = [teams EXCEPT ![t] = None]
  /\ UNCHANGED <<sent, creating, built, reading>>

\* Mutant: the inbox is cleared only by the next delivery.
TakeCopy(d, s) ==
  /\ drained[d] = None /\ inbox[s] # <<>>
  /\ drained' = [drained EXCEPT ![d] = [session |-> s, messages |-> inbox[s]]]
  /\ UNCHANGED <<members, mail, creating, built, heard, unsure>>

\* DrainInbox of the agent of session s, first half: PendingMessages.
TakeMail(d, s) ==
  /\ drained[d] = None /\ inbox[s] # <<>>
  /\ drained' = [drained EXCEPT ![d] = [session |-> s, messages |-> inbox[s]]]
  /\ inbox' = [inbox EXCEPT ![s] = <<>>]
  /\ unsure' = IF \E e \in Drains : drained[e] # None /\ drained[e].session = s
                 THEN unsure \cup {s} ELSE unsure
  /\ UNCHANGED <<members, sent, creating, built, heard>>

\* DrainInbox, second half: Agent.Observe appends the first k messages to the
\* context, and fails before the next.
ObserveMail(d) ==
  /\ drained[d] # None
  /\ LET s == drained[d].session  m == drained[d].messages IN
     \E k \in 0..Len(m) :
       /\ heard' = [heard EXCEPT ![s] = @ \o SubSeq(m, 1, k)]
       /\ unsure' = IF k < Len(m) THEN unsure \cup {s} ELSE unsure
  /\ drained' = [drained EXCEPT ![d] = None]
  /\ UNCHANGED <<members, mail, creating, built>>

-------------------------------------------------------------------------------
TeamTypeOK ==
  /\ participants \in [Sessions -> Names \cup {None}]
  /\ teams \in [Calls -> Record \cup {None}]
  /\ sessionTeams \in [Sessions -> Calls \cup {None}]
  /\ inbox \in [Sessions -> Seq(Nat)]
  /\ sent \in [Sessions -> Nat]
  /\ creating \in [Calls -> Creation \cup {None}]
  /\ built \subseteq Calls
  /\ drained \in [Drains -> Batch \cup {None}]
  /\ heard \in [Sessions -> Seq(Nat)]
  /\ unsure \subseteq Sessions

\* sessionTeams and the records of the teams tell the same story: a session is
\* in the team that lists it, once, and in no other, and is registered
\* (createTeam, createAgent, deleteTeam).  So "team no longer exists" of
\* currentTeamLocked and the nil participant of createAgent never happen.
MembershipAgrees ==
  /\ \A s \in Sessions, t \in Calls : sessionTeams[s] = t => teams[t] # None /\ s \in RosterSet(t)
  /\ \A t \in Calls : teams[t] # None =>
       /\ \A s \in RosterSet(t) : sessionTeams[s] = t /\ participants[s] # None
       /\ \A i, j \in DOMAIN teams[t].ids : teams[t].ids[i] = teams[t].ids[j] => i = j
  /\ \A c \in Calls : creating[c] # None /\ creating[c].step = "join" =>
       participants[c] # None

\* Mail waits only for sessions that PendingAgents can find an agent for.
MailHasReader == \A s \in Sessions : inbox[s] # <<>> => participants[s] # None

\* Teams, sessions, agents and inboxes agree after every step of every operation,
\* however creations, deletions, messages and drains overlap (Manager.mu, given up
\* by createAgent between its checks and the join).
TeamsAgree == MembershipAgrees /\ MailHasReader

\* The drains of session s that have taken its mail and not observed it yet.
Draining(s) == {d \in Drains : drained[d] # None /\ drained[d].session = s}

\* The messages of s that a DrainInbox has taken, if just one has.
InHand(s) == IF Draining(s) = {} THEN <<>> ELSE drained[CHOOSE d \in Draining(s) : TRUE].messages

\* What a registered session was sent, it has heard, is about to hear or can
\* still drain, in the order of the deliveries, each message once; unless an
\* Observe failed or two drains of the session overlapped (DrainInbox).
MailKept ==
  \A s \in Sessions : participants[s] # None /\ s \notin unsure =>
    heard[s] \o InHand(s) \o inbox[s] = [i \in 1..sent[s] |-> i]

==============================================================================
