------------------------------- MODULE BoardTools -------------------------------
(***************************************************************************)
(* The tools of the board and what each takes, as three programs have it:  *)
(* the forms by which a person calls them in the place of an engine        *)
(* (packages/agent/src/plugins/board-tools.ts), the proxy that engines     *)
(* call (packages/agent/src/mcp-proxy.ts) and the handlers that serve the  *)
(* calls of both (packages/board/src/mcp/create-server.ts).                *)
(*                                                                         *)
(* A value is its shape: what the three of them tell apart.  A member of an*)
(* enumeration has the name of the enumeration for its shape.              *)
(***************************************************************************)
EXTENDS Naturals, Sequences

Enums ==
  {"THREAD_STATES", "THREAD_TYPES", "PROPOSAL_TARGETS", "SHARED_ARTIFACT_KINDS",
   "CONSENSUS_TYPES", "ENGINE_DIVERSITY", "POST_TYPES", "DECLARATION_KINDS",
   "MEMORY_LAYERS", "template kind", "format", "visibility"}

\* Strings, and the other values of JSON: lists of strings, with or without any,
\* of { project_id, summary }, and of anything else.
Strings == {"empty", "text", "uuid", "url"} \cup Enums
Shapes ==
  Strings \cup {"bool", "list", "empty list", "object", "summaries", "array", "number"}

(* What a handler or the proxy declares of an argument. *)
Arg(shapes) == [shapes |-> shapes, optional |-> FALSE]
AnyText == Arg(Strings)
Text == Arg(Strings \ {"empty"})
Uuid == Arg({"uuid"})
Url == Arg({"url"})
Bool == Arg({"bool"})
OneOf(enum) == Arg({enum})
Texts == Arg({"list"})
Object == Arg({"object"})
Summaries == Arg({"summaries", "empty list"})
Optional(arg) == [arg EXCEPT !.optional = TRUE]

\* z.object(...).parse: the arguments that are refused.  What is not declared is
\* dropped.
Refused(schema, args) ==
  {a \in DOMAIN schema :
     IF a \in DOMAIN args THEN args[a] \notin schema[a].shapes ELSE ~schema[a].optional}

(* The fields of a form, in the order in which they are asked for. *)
Required(name, kind) == [name |-> name, kind |-> kind, required |-> TRUE]
Voluntary(name, kind) == [name |-> name, kind |-> kind, required |-> FALSE]

\* The entries of two tables (the operator @@ of TLC is unknown to provers).
Both(f, g) == [x \in DOMAIN f \cup DOMAIN g |-> IF x \in DOMAIN f THEN f[x] ELSE g[x]]

-----------------------------------------------------------------------------
(* BOARD_TOOLS. *)

SessionForms ==
  [get_briefing |-> <<>>,
   use_project |-> <<Required("project_id", "uuid")>>,
   set_goals |-> <<Required("goals", "string[]")>>,
   complete_goal |-> <<Required("goal_id", "uuid")>>]

ReadingForms ==
  [search_threads |->
     <<Voluntary("project_id", "uuid"), Voluntary("textQuery", "string"),
     Voluntary("state", "THREAD_STATES"), Voluntary("type", "THREAD_TYPES"),
     Voluntary("target", "PROPOSAL_TARGETS"),
     Voluntary("sharedArtifactKind", "SHARED_ARTIFACT_KINDS")>>,
   search_decisions |->
     <<Voluntary("project_id", "uuid"), Voluntary("onlyActiveBinding", "boolean"),
     Voluntary("sharedArtifactKind", "SHARED_ARTIFACT_KINDS")>>,
   list_system_templates |-> <<Voluntary("kind", "template kind")>>,
   list_shared_artifacts |->
     <<Voluntary("project_id", "uuid"), Voluntary("kind", "SHARED_ARTIFACT_KINDS")>>,
   read_thread |-> <<Required("thread_id", "uuid")>>]

CreationForm ==
  [create_thread |->
     <<Required("type", "THREAD_TYPES"), Required("title", "string"),
     Required("trigger", "string"), Required("duplicateSearchQuery", "string"),
     Voluntary("consensusType", "CONSENSUS_TYPES"),
     Voluntary("engineDiversity", "ENGINE_DIVERSITY"),
     Voluntary("humanRequired", "boolean"), Voluntary("target", "PROPOSAL_TARGETS"),
     Voluntary("sharedArtifactKind", "SHARED_ARTIFACT_KINDS"),
     Voluntary("conflictCitationsChecked", "boolean"),
     Voluntary("parentThreadId", "uuid"), Voluntary("project_id", "uuid")>>]

DecisionForms ==
  [add_proposal |-> <<Required("thread_id", "uuid"), Required("content", "string")>>,
   post |->
     <<Required("thread_id", "uuid"), Required("type", "POST_TYPES"),
     Required("body", "string"), Voluntary("rationale", "string"),
     Voluntary("blocking", "boolean"), Voluntary("proposal_version_id", "uuid")>>,
   declare |->
     <<Required("thread_id", "uuid"), Required("kind", "DECLARATION_KINDS"),
     Voluntary("payload", "json")>>]

WorkForms ==
  [claim_work |-> <<Required("thread_id", "uuid"), Required("paths", "string[]")>>,
   release_work |-> <<Required("claim_id", "uuid")>>,
   list_work_claims |-> <<Voluntary("project_id", "uuid")>>]

MemoryForms ==
  [write_memory |->
     <<Required("body", "string"), Voluntary("supersede_id", "uuid"),
     Voluntary("layer", "MEMORY_LAYERS")>>,
   write_note |->
     <<Voluntary("note_id", "uuid"), Required("title", "string"),
     Required("body", "string"), Required("format", "format"),
     Voluntary("visibility", "visibility"), Voluntary("project_id", "uuid")>>,
   search_notes |-> <<Voluntary("textQuery", "string"), Voluntary("project_id", "uuid")>>,
   read_note |-> <<Required("note_id", "uuid")>>,
   comment_note |-> <<Required("note_id", "uuid"), Required("body", "string")>>]

ClosingForms ==
  [link_pull_request |-> <<Required("thread_id", "uuid"), Required("url", "url")>>,
   end_session |-> <<Required("handover", "string"), Voluntary("projects", "json")>>]

BOARD_TOOLS ==
  Both(Both(SessionForms, ReadingForms),
       Both(Both(CreationForm, DecisionForms), Both(WorkForms, Both(MemoryForms, ClosingForms))))

-----------------------------------------------------------------------------
(* createProxyMcpServer. *)

ProxyReading ==
  [get_briefing |-> <<>>,
   use_project |-> [project_id |-> Uuid],
   set_goals |-> [goals |-> Texts],
   complete_goal |-> [goal_id |-> Uuid],
   search_threads |->
     [project_id |-> Optional(Uuid), textQuery |-> Optional(AnyText),
      state |-> Optional(OneOf("THREAD_STATES")), type |-> Optional(OneOf("THREAD_TYPES")),
      target |-> Optional(OneOf("PROPOSAL_TARGETS")),
      sharedArtifactKind |-> Optional(OneOf("SHARED_ARTIFACT_KINDS"))],
   search_decisions |->
     [project_id |-> Optional(Uuid), onlyActiveBinding |-> Optional(Bool),
      sharedArtifactKind |-> Optional(OneOf("SHARED_ARTIFACT_KINDS"))],
   list_system_templates |-> [kind |-> Optional(OneOf("template kind"))],
   list_shared_artifacts |->
     [project_id |-> Optional(Uuid), kind |-> Optional(OneOf("SHARED_ARTIFACT_KINDS"))],
   read_thread |-> [thread_id |-> Uuid]]

ProxyDeciding ==
  [create_thread |->
     [type |-> OneOf("THREAD_TYPES"), title |-> Text, trigger |-> Text,
      duplicateSearchQuery |-> Text,
      consensusType |-> Optional(OneOf("CONSENSUS_TYPES")),
      humanRequired |-> Optional(Bool), target |-> Optional(OneOf("PROPOSAL_TARGETS")),
      sharedArtifactKind |-> Optional(OneOf("SHARED_ARTIFACT_KINDS")),
      conflictCitationsChecked |-> Optional(Bool), parentThreadId |-> Optional(Uuid),
      engineDiversity |-> Optional(OneOf("ENGINE_DIVERSITY")),
      project_id |-> Optional(Uuid)],
   add_proposal |-> [thread_id |-> Uuid, content |-> Text],
   post |->
     [thread_id |-> Uuid, type |-> OneOf("POST_TYPES"), body |-> Text,
      rationale |-> Optional(AnyText), blocking |-> Optional(Bool),
      proposal_version_id |-> Optional(Uuid)],
   declare |->
     [thread_id |-> Uuid, kind |-> OneOf("DECLARATION_KINDS"),
      payload |-> Optional(Object)]]

ProxyWorking ==
  [claim_work |-> [thread_id |-> Uuid, paths |-> Texts],
   release_work |-> [claim_id |-> Uuid],
   list_work_claims |-> [project_id |-> Optional(Uuid)],
   write_memory |->
     [body |-> Text, supersede_id |-> Optional(Uuid),
      layer |-> Optional(OneOf("MEMORY_LAYERS"))],
   write_note |->
     [note_id |-> Optional(Uuid), title |-> Text, body |-> Text,
      format |-> OneOf("format"), visibility |-> Optional(OneOf("visibility")),
      project_id |-> Optional(Uuid)],
   search_notes |-> [textQuery |-> Optional(AnyText), project_id |-> Optional(Uuid)],
   read_note |-> [note_id |-> Uuid],
   comment_note |-> [note_id |-> Uuid, body |-> Text],
   link_pull_request |-> [thread_id |-> Uuid, url |-> Url],
   end_session |-> [handover |-> AnyText, projects |-> Optional(Summaries)]]

MCP_PROXY_TOOLS == Both(ProxyReading, Both(ProxyDeciding, ProxyWorking))

-----------------------------------------------------------------------------
(* The handlers of createBoardToolRuntime. *)

ServedSession ==
  [get_briefing |-> <<>>,
   use_project |-> [project_id |-> Uuid],
   set_goals |-> [goals |-> Texts],
   complete_goal |-> [goal_id |-> Uuid]]

ServedReading ==
  [search_threads |->
     [project_id |-> Optional(Uuid), textQuery |-> Optional(AnyText),
      state |-> Optional(OneOf("THREAD_STATES")), type |-> Optional(OneOf("THREAD_TYPES")),
      target |-> Optional(OneOf("PROPOSAL_TARGETS")),
      sharedArtifactKind |-> Optional(OneOf("SHARED_ARTIFACT_KINDS"))],
   search_decisions |->
     [project_id |-> Optional(Uuid), onlyActiveBinding |-> Optional(Bool),
      sharedArtifactKind |-> Optional(OneOf("SHARED_ARTIFACT_KINDS"))],
   list_system_templates |-> [kind |-> Optional(OneOf("template kind"))],
   list_shared_artifacts |->
     [project_id |-> Optional(Uuid), kind |-> Optional(OneOf("SHARED_ARTIFACT_KINDS"))],
   read_thread |-> [thread_id |-> Uuid]]

ServedDeciding ==
  [create_thread |->
     [type |-> OneOf("THREAD_TYPES"), title |-> Text, trigger |-> Text,
      duplicateSearchQuery |-> Text,
      consensusType |-> Optional(OneOf("CONSENSUS_TYPES")),
      humanRequired |-> Optional(Bool), target |-> Optional(OneOf("PROPOSAL_TARGETS")),
      sharedArtifactKind |-> Optional(OneOf("SHARED_ARTIFACT_KINDS")),
      conflictCitationsChecked |-> Optional(Bool), parentThreadId |-> Optional(Uuid),
      engineDiversity |-> Optional(OneOf("ENGINE_DIVERSITY")),
      project_id |-> Optional(Uuid)],
   add_proposal |-> [thread_id |-> Uuid, content |-> Text],
   post |->
     [thread_id |-> Uuid, type |-> OneOf("POST_TYPES"), body |-> Text,
      rationale |-> Optional(AnyText), blocking |-> Optional(Bool),
      proposal_version_id |-> Optional(Uuid)],
   declare |->
     [thread_id |-> Uuid, kind |-> OneOf("DECLARATION_KINDS"),
      payload |-> Optional(Object)]]

ServedWork ==
  [link_pull_request |-> [thread_id |-> Uuid, url |-> Url],
   claim_work |-> [thread_id |-> Uuid, paths |-> Texts],
   release_work |-> [claim_id |-> Uuid],
   list_work_claims |-> [project_id |-> Optional(Uuid)]]

ServedMemory ==
  [write_memory |->
     [body |-> Text, supersede_id |-> Optional(Uuid),
      layer |-> Optional(OneOf("MEMORY_LAYERS"))],
   write_note |->
     [note_id |-> Optional(Uuid), title |-> Text, body |-> Text,
      format |-> OneOf("format"), visibility |-> Optional(OneOf("visibility")),
      project_id |-> Optional(Uuid)],
   search_notes |-> [textQuery |-> Optional(AnyText), project_id |-> Optional(Uuid)],
   read_note |-> [note_id |-> Uuid],
   comment_note |-> [note_id |-> Uuid, body |-> Text]]

\* Mutated form: the summaries of the projects are not optional.
ServedClosingWithSummaries ==
  [end_session |-> [handover |-> Text, projects |-> Summaries]]

\* An empty handover passes the parser and is refused right after it.
ServedClosing ==
  [end_session |-> [handover |-> Text, projects |-> Optional(Summaries)]]

handlers ==
  Both(Both(ServedSession, ServedReading),
       Both(Both(ServedDeciding, ServedWork), Both(ServedMemory, ServedClosing)))
=============================================================================
