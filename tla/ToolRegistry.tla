---------------------------- MODULE ToolRegistry ----------------------------
(***************************************************************************)
(* ToolRegistryService, McpClient and the tool calls of workflows: which    *)
(* tools exist, and which of an MCP server they stand for.                 *)
(*                                                                         *)
(* Two files: the registry, which administrators and synchronizations      *)
(* write, and what synchronizations found.  Both are written in place, and *)
(* a file that cannot be read is an empty one.  A tool of a server is      *)
(* named after both, so that two may have one name.  A client starts a     *)
(* process of the server for each session.                                 *)
(***************************************************************************)
EXTENDS Integers

CONSTANTS
  Server, Tool,   \* of MCP
  Name,           \* in the registry
  FullName(_, _), \* the name of a server's tool
  MaxSessions,    \* bound of the model: sessions with servers
  None

Link == [server : Server, tool : Tool]

\* guarded: for administrators only, and after an approval.
Entry == [guarded : BOOLEAN, link : Link \cup {None}]

Task == {"sync", "call"}

ToolRegistryConstants ==
    /\ MaxSessions \in Nat
    /\ \A s \in Server, t \in Tool : FullName(s, t) \in Name
    /\ None \notin Link \cup Entry

VARIABLES
  registry,    \* [Name -> its entry or None]
  discovered,  \* the names in the other file: their entries are guarded and have no link
  configured,  \* servers in the configuration of providers: on or off
  session,     \* [Task -> its session with a server]
  opened,      \* names that an administrator made available, last of all
  stated,      \* links that administrators gave names
  listed,      \* tools that servers listed
  gone,        \* names that an administrator deleted, last of all
  begun        \* sessions

vars == <<registry, discovered, configured, session, opened, stated, listed, gone, begun>>

\* A session's server, the tools it is about, and whether a tool that is called had
\* been deleted.
Quiet == [at |-> "none", server |-> None, tools |-> {}, deleted |-> FALSE]

TypeOK ==
    /\ registry \in [Name -> Entry \cup {None}]
    /\ discovered \cup opened \cup gone \subseteq Name
    /\ configured \in [Server -> {"absent", "off", "on"}]
    /\ \A x \in Task :
          /\ session[x].at \in {"none", "start", "initialize", "ask", "stop", "abort", "register"}
          /\ session[x].at # "none" => session[x].server \in Server /\ session[x].tools \subseteq Tool
    /\ stated \subseteq Name \X Link /\ listed \subseteq Link
    /\ begun \in 0 .. MaxSessions

Nothing == [n \in Name |-> None]

Init ==
    /\ registry = Nothing /\ discovered = {}
    /\ configured \in [Server -> {"absent", "off", "on"}]
    /\ session = [x \in Task |-> Quiet]
    /\ opened = {} /\ stated = {} /\ listed = {} /\ gone = {} /\ begun = 0

Found == [guarded |-> TRUE, link |-> None]

\* get_tool.
Get(n) == IF registry[n] # None THEN registry[n] ELSE IF n \in discovered THEN Found ELSE None

\* A write of the registry: one that fails leaves a file that nothing can read.
Save(new) == registry' = new \/ registry' = Nothing

Opened(names) == opened' = {n \in names : registry'[n] # None}

----------------------------------------------------------------------------
(* Requests of the administrator. *)

Put(n) ==
    /\ \E e \in Entry :
          /\ Save([registry EXCEPT ![n] = e])
          /\ Opened(IF e.guarded THEN opened \ {n} ELSE opened \cup {n})
          /\ stated' = stated \cup ({<<n, e.link>>} \cap (Name \X Link))
    /\ gone' = gone \ {n}
    /\ UNCHANGED <<discovered, configured, session, listed, begun>>

\* A name that is only in the other file is not found.
Delete(n) ==
    /\ registry[n] # None
    /\ Save([registry EXCEPT ![n] = None])
    /\ Opened(opened)
    /\ gone' = gone \cup {n}
    /\ UNCHANGED <<discovered, configured, session, stated, listed, begun>>

Configure(s) ==
    /\ \E value \in {"absent", "off", "on"} : configured' = [configured EXCEPT ![s] = value]
    /\ UNCHANGED <<registry, discovered, session, opened, stated, listed, gone, begun>>

----------------------------------------------------------------------------
(* Sessions of McpClient. *)

To(x, at) == session' = [session EXCEPT ![x].at = at]

Rest == UNCHANGED <<registry, discovered, configured, opened, stated, gone>>

End(x) == session' = [session EXCEPT ![x] = Quiet]

\* start: __aexit__ is only for a session that was initialized.
StartProcess(x) ==
    /\ session[x].at = "start"
    /\ To(x, "initialize") \/ End(x)
    /\ Rest /\ UNCHANGED <<listed, begun>>

Initialize(x) ==
    /\ session[x].at = "initialize"
    /\ To(x, "ask") \/ End(x)
    /\ Rest /\ UNCHANGED <<listed, begun>>

\* list_tools: a page, and perhaps another after it.
AskTools ==
    /\ session["sync"].at = "ask"
    /\ \E page \in SUBSET Tool, at \in {"ask", "stop"} :
          /\ session' = [session EXCEPT !["sync"].at = at, !["sync"].tools = @ \cup page]
          /\ listed' = listed \cup [server : {session["sync"].server}, tool : page]
    /\ Rest /\ UNCHANGED begun

\* An answer to call_tool, an error, or the end of the process.
AskFails(x) ==
    /\ session[x].at = "ask" /\ To(x, "abort")
    /\ Rest /\ UNCHANGED <<listed, begun>>

\* stop terminates the process.
Stop(x) ==
    /\ \/ session[x].at = "abort" /\ End(x)
       \/ session[x].at = "stop" /\ To(x, "register")
    /\ Rest /\ UNCHANGED <<listed, begun>>

Begin(x, s, tools, deleted) ==
    /\ session[x].at = "none" /\ begun < MaxSessions /\ begun' = begun + 1
    /\ session' = [session EXCEPT ![x] =
                     [at |-> "start", server |-> s, tools |-> tools, deleted |-> deleted]]
    /\ Rest /\ UNCHANGED listed

\* The server must be on; what it is configured to be is not asked again.
Sync(s) == configured[s] = "on" /\ Begin("sync", s, {}, FALSE)

\* A name without a link is not executed; the server need not be on.
CallTool(n) ==
    /\ Get(n) # None /\ Get(n).link # None
    /\ LET link == Get(n).link
       IN  /\ configured[link.server] # "absent"
           /\ Begin("call", link.server, {link.tool}, n \in gone)

\* report_tool and upsert_tool for each tool, up to a write that fails or a death.
Register ==
    LET s == session["sync"].server
        names == {FullName(s, t) : t \in session["sync"].tools}
        toolOf(n) == CHOOSE t \in session["sync"].tools : FullName(s, t) = n
        with(done) == [n \in Name |-> IF n \in done
                         THEN [Found EXCEPT !.link = [server |-> s, tool |-> toolOf(n)]]
                         ELSE registry[n]]
    IN  /\ session["sync"].at = "register" /\ End("sync")
        /\ \E done \in SUBSET names :
              /\ \/ done = names /\ discovered' = discovered \cup names /\ registry' = with(done)
                 \/ done # names /\ discovered' = {} /\ registry' = with(done)
                 \/ \E n \in names \ done :
                       discovered' = discovered \cup done \cup {n} /\ Save(with(done))
              /\ Opened(opened \ done)
              /\ gone' = gone \ done
        /\ UNCHANGED <<configured, stated, listed, begun>>

\* The server dies and starts again.
Die ==
    /\ session' = [x \in Task |-> Quiet]
    /\ Rest /\ UNCHANGED <<listed, begun>>

Next ==
    \/ \E n \in Name : Put(n) \/ Delete(n) \/ CallTool(n)
    \/ \E s \in Server : Configure(s) \/ Sync(s)
    \/ \E x \in Task : StartProcess(x) \/ Initialize(x) \/ AskFails(x) \/ Stop(x)
    \/ AskTools \/ Register \/ Die

Spec == Init /\ [][Next]_vars

----------------------------------------------------------------------------

\* A tool is available to others than administrators only while the last to write it
\* was an administrator who made it so; it stands for a tool that its server listed
\* under that name or that an administrator stated; and none is called that an
\* administrator deleted and nothing has registered since.
ToolsAreKnown ==
    /\ \A n \in Name : Get(n) # None =>
          /\ Get(n).guarded \/ n \in opened
          /\ Get(n).link # None =>
                \/ <<n, Get(n).link>> \in stated
                \/ Get(n).link \in listed /\ FullName(Get(n).link.server, Get(n).link.tool) = n
    /\ session["call"].at # "none" => ~session["call"].deleted

=============================================================================
