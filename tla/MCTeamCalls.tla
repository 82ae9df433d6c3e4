------------------------------- MODULE MCTeamCalls -------------------------------
EXTENDS TeamCalls

T(n, a) == [name |-> n, arg |-> a]
Create   == T("TeamCreate", None)
Agent    == T("AgentCreate", "b")
SayAll   == T("TeamSay", None)
SayTo(n) == T("TeamSay", n)
Delete   == T("TeamDelete", None)
Change   == T("Function", None)
Update   == T("Update", None)

S(h, r, d) == [hooks |-> h, script |-> r, drains |-> d]

Some ==
  \* creations and a deletion that overlap because one was left behind
  {S(<<"offload">>, r, {}) : r \in {<<Create, Agent, Agent, SayAll>>,
                                   <<Create, Agent, Delete, Create>>}}
  \* messages and drains, the deletion of a team with mail
  \cup {S(<<>>, r, Drains) : r \in {<<Create, Agent, SayAll, SayTo("a")>>,
                                   <<Create, Agent, Agent, SayTo("b")>>,
                                   <<Create, Agent, SayTo("b"), Delete>>}}
  \* what StateChange reports, wherever it is registered
  \cup {S(h, r, {}) : h \in {<<"change">>, <<"change", "offload">>, <<"offload", "change">>},
                     r \in {<<Change, Update>>, <<Create, Agent, Change>>}}
==============================================================================
