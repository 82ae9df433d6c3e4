-------------------------------- MODULE TeamCalls --------------------------------
(***************************************************************************)
(* Agents whose replies call the team tools through the acting hooks: Team *)
(* composed with ActingHooks.  The tools of one reply run one after the    *)
(* other, for TeamSay alone is concurrency-safe; a call that ToolOffload   *)
(* or the end of its context left behind goes on beside the next ones.     *)
(***************************************************************************)
EXTENDS Team, ActingHooks

CONSTANT Settings   \* how agent and application are set up: the hooks, the tools
                    \* the models ask for, in that order, and the drains

VARIABLES
  script,   \* script[c] is the tool of call c, with its argument
  drains    \* the goroutines that call DrainInbox

setting == <<script, drains>>

vars == <<teamVars, setting, hookVars>>

Tools == [name: {"TeamCreate", "TeamDelete", "Update", "Function"}, arg: {None}]
           \cup [name: {"AgentCreate"}, arg: Names]
           \cup [name: {"TeamSay"}, arg: Names \cup {None}]

ASSUME SettingsAssumption ==
  Settings \subseteq [hooks: Orders, script: Seq(Tools), drains: SUBSET Drains]

KindOf(tl) == CASE tl.name = "Update"   -> "now"
                [] tl.name = "Function" -> "later"
                [] OTHER                -> "team"

\* Toolkit(role): the workers have TeamSay, the leaders all the team tools.
HasTool(s, tl) == s \in Leaders \/ tl.name \in {"TeamSay", "Update", "Function"}

\* The agent of session s exists.
Alive(s) == s \in Leaders \/ s \in built

\* Mutant: the team tools are all declared concurrency-safe.
FlushNever(c, s) == TRUE

\* A call is made while the reply waits for no other, or, in one batch, for
\* others of TeamSay: the other tools of the script are declared not
\* concurrency-safe, and no stream of the agent is abandoned.
FlushBefore(c, s) ==
  \A d \in Calls : Awaited(s, d) => script[c].name = "TeamSay" /\ script[d].name = "TeamSay"

\* The reply of s calls a tool.
Start(c, s) ==
  /\ c \in DOMAIN script /\ \A d \in Calls : d < c => by[d] # None
  /\ Alive(s) /\ HasTool(s, script[c])
  /\ FlushBefore(c, s)
  /\ StartTool(c, s, KindOf(script[c]))
  /\ UNCHANGED <<setting, teamVars>>

\* AgentCreate gives the mutex up twice: its handler ends with the step after
\* which nothing is left to create.
HandleAgentCreate(c) ==
  /\ IF creating[c] = None THEN CheckName(c, by[c], script[c].arg)
     ELSE BuildWorker(c) \/ RegisterWorker(c) \/ Join(c)
  /\ IF creating'[c] = None THEN FinishTool(c) ELSE UNCHANGED hookVars

\* The goroutine of a function tool runs the handler of c.
Handle(c) ==
  /\ place[c] = "tool"
  /\ UNCHANGED setting
  /\ \/ script[c].name = "AgentCreate" /\ HandleAgentCreate(c)
     \/ /\ FinishTool(c)
        /\ \/ script[c].name = "TeamCreate" /\ CreateTeam(c, by[c])
           \/ script[c].name = "TeamDelete" /\ DeleteTeam(by[c])
           \/ script[c].name = "TeamSay" /\ Say(by[c], script[c].arg)
           \/ script[c].name = "Function" /\ UNCHANGED teamVars

\* DrainInbox, by the application; Observe waits for the reply of the agent.
Drain(d) ==
  /\ \/ \E s \in Sessions : Alive(s) /\ TakeMail(d, s)
     \/ ObserveMail(d) /\ \A c \in Calls : ~Awaited(drained[d].session, c)
  /\ UNCHANGED <<setting, hookVars>>

\* The hooks of c go on, its timer fires, or its context ends.
Hook(c) ==
  /\ Settle(c) \/ TimeOut(c) \/ ContextDone(c)
  /\ UNCHANGED <<setting, teamVars>>

Init ==
  \E x \in Settings : /\ InitTeam /\ InitHooks(x.hooks)
                      /\ script = x.script /\ drains = x.drains

Next ==
  \/ \E c \in Calls :
       \/ \E s \in Sessions : Start(c, s)
       \/ Handle(c)
       \/ Hook(c)
  \/ \E d \in drains : Drain(d)

Spec == Init /\ [][Next]_vars

\* Handlers and factories return, and goroutines are scheduled.
Fairness == \A c \in Calls :
  /\ WF_vars(Handle(c))
  /\ WF_vars(Settle(c) /\ UNCHANGED <<setting, teamVars>>)

FairSpec == Spec /\ Fairness

-------------------------------------------------------------------------------
TypeOK == TeamTypeOK /\ HooksTypeOK /\ drains \subseteq Drains /\ script \in Seq(Tools)

\* ToolOffload, or the end of its context, let the reply go on without call c.
LeftBehind(c) == gave[c] \in {"placeholder", "error"}

\* Two of a team have one name only if the call that created one of them was
\* left behind: the tools are serial, so the name is checked and taken before
\* the next creation (IsConcurrencySafe of the team tools, ensureUniqueNameLocked).
NamesUnique ==
  \A t \in Calls : teams[t] # None =>
    \A i, j \in DOMAIN Roster(t) :
      i < j /\ participants[Roster(t)[i]] = participants[Roster(t)[j]] =>
        \E k \in {i, j} : Roster(t)[k] \in Calls /\ LeftBehind(Roster(t)[k])

==============================================================================
