------------------------------- MODULE ToolForms -------------------------------
(***************************************************************************)
(* How the arguments of a tool call come together: asked for one by one in *)
(* a terminal, where Escape goes one step back, filled in on the page of   *)
(* the console, or given by an engine through the proxy                    *)
(* (packages/agent/src/plugins: board-tools.ts, interactive-fake.ts,       *)
(* fake-console-page.ts; packages/agent/src/mcp-proxy.ts).                 *)
(***************************************************************************)
EXTENDS BoardTools, SequencesExt

CONSTANT MaxItems  \* bound: lines typed into a list

ASSUME FormConstants == MaxItems \in Nat \ {0}

\* by: how the call is made, "person" before that is known; at: the field that is
\* asked for, or what is done instead; args: what is to be sent; items: the lines
\* of the list being typed; answers: what the person answered, in order, fields
\* he went back over forgotten; hints: lastThreadId is known, and how many goals
\* are open.
VARIABLE form

Choosing(hints) ==
  [by |-> "person", tool |-> "none", at |-> "choose", args |-> <<>>, items |-> 0,
   answers |-> <<>>, hints |-> hints]

FormsInit == form = Choosing([thread |-> FALSE, goals |-> 0])

Fields == BOARD_TOOLS[form.tool]
Asks == form.at = "fields"
Field == Fields[Len(form.answers) + 1]
Asking == Asks /\ Len(form.answers) < Len(Fields)

\* fields = [] calls the tool at once.
Begun(by, tool, at) ==
  [form EXCEPT !.by = by, !.tool = tool,
               !.at = IF BOARD_TOOLS[tool] = <<>> THEN "sent" ELSE at]

-----------------------------------------------------------------------------
(* In the terminal: promptToolArgs. *)

\* parseRunCommand: a tool alone, or with all its arguments in JSON.
ChooseTool ==
  /\ form.at = "choose"
  /\ \E tool \in DOMAIN BOARD_TOOLS :
       \/ form' = Begun("terminal", tool, "bulk")
       \/ form' = [form EXCEPT !.by = "json", !.tool = tool, !.at = "sent"]

\* The line before the fields: empty for one field after the other, all arguments
\* in JSON; Escape, or a line that is no object, ends in the choice of a tool.
Bulk ==
  /\ form.by = "terminal" /\ form.at = "bulk"
  /\ \/ form' = [form EXCEPT !.at = "fields"]
     \/ form' = [form EXCEPT !.by = "json", !.at = "sent"]
     \/ form' = Choosing(form.hints)

\* parseFieldValue: what a line that is not refused is read as.
ReadAs(kind) ==
  CASE kind = "string" -> {"text"}
    [] kind = "boolean" -> {"bool"}
    [] kind = "json" -> {"object", "summaries", "empty list", "array"}
    [] OTHER -> {kind}

\* emptyFallback: Enter alone names the latest thread, or the only open goal.
Fallback(field) ==
  \/ field.name = "thread_id" /\ form.hints.thread
  \/ field.name = "goal_id" /\ form.hints.goals = 1

\* What the line for a field that is no list can amount to.
AnswersTo(field) ==
  IF field.kind = "string[]" THEN {}
  ELSE ReadAs(field.kind)
       \cup (IF field.required \/ Fallback(field) THEN {} ELSE {"none"})

\* assignArg, after the answer to the field.
WithArg(args, name, value) ==
  [a \in DOMAIN args \cup {name} |-> IF a = name THEN value ELSE args[a]]

Answered(answer) ==
  [form EXCEPT !.answers = Append(@, answer), !.items = 0,
               !.args = IF answer = "none" THEN @ ELSE WithArg(@, Field.name, answer)]

AnswerField ==
  /\ form.by = "terminal" /\ Asking
  /\ \E answer \in AnswersTo(Field) : form' = Answered(answer)

\* promptStringArray: lines until an empty one; Escape takes the last one back.
TypeLine ==
  /\ form.by = "terminal" /\ Asking /\ Field.kind = "string[]"
  /\ \/ form.items < MaxItems /\ form' = [form EXCEPT !.items = @ + 1]
     \/ form.items > 0 /\ form' = [form EXCEPT !.items = @ - 1]
     \/ form.items > 0 /\ form' = Answered("list")

\* Mutated form: the field that was gone back to keeps its value.
BackKeepingTheValue ==
  /\ form.by = "terminal" /\ Asking /\ form.items = 0
  /\ form' =
       IF form.answers = <<>>
       THEN [form EXCEPT !.at = "bulk", !.args = <<>>]
       ELSE [form EXCEPT !.answers = Front(@)]

\* Escape: one field back, whose value is deleted; from the first, all of them.
Back ==
  /\ form.by = "terminal" /\ Asking /\ form.items = 0
  /\ form' =
       IF form.answers = <<>>
       THEN [form EXCEPT !.at = "bulk", !.args = <<>>]
       ELSE LET previous == Fields[Len(form.answers)].name IN
            [form EXCEPT !.answers = Front(@),
                         !.args = [a \in DOMAIN @ \ {previous} |-> @[a]]]

SendForm ==
  /\ form.by = "terminal" /\ Asks /\ ~Asking
  /\ form' = [form EXCEPT !.at = "sent"]

-----------------------------------------------------------------------------
(* On the page: showForm and collectArgs. *)

OpenForm ==
  /\ form.at = "choose"
  /\ \E tool \in DOMAIN BOARD_TOOLS : form' = Begun("page", tool, "fields")

\* What an input gives (renderField, parseFieldValue of the page).  Neither the
\* form of an id or an address is looked at, nor what kind of value a JSON text is.
Inputs(field) ==
  IF field.name = "goal_id" /\ form.hints.goals > 0 THEN {"uuid"} ELSE
  CASE field.kind = "boolean" -> {"bool"}
    [] field.kind \in Enums ->
         {field.kind} \cup (IF field.required THEN {} ELSE {"none"})
    [] field.kind = "string[]" -> {"list", "none"}
    [] field.kind = "string" -> {"text", "none"}
    [] field.kind = "json" -> ReadAs("json") \cup {"text", "number", "none"}
    [] OTHER -> {"text", field.kind, "none"}

Fill ==
  /\ form.by = "page" /\ Asking
  /\ \E value \in Inputs(Field) : form' = Answered(value)

\* The call: a required field that is empty stops it, and is filled in again.
Collect ==
  /\ form.by = "page" /\ Asks /\ ~Asking
  /\ form' =
       IF \A f \in ToSet(Fields) : f.required => f.name \in DOMAIN form.args
       THEN [form EXCEPT !.at = "sent"]
       ELSE [form EXCEPT !.answers = <<>>, !.args = <<>>]

\* Escape or the list of tools: hideForm.
HideForm ==
  /\ form.by = "page" /\ Asks
  /\ form' = Choosing(form.hints)

-----------------------------------------------------------------------------
(* Through the proxy, and the answer. *)

\* The arguments that the schema accepts: the usual shape of each but one, with
\* or without those that are optional.
Accepted(schema) ==
  LET usual(a) == CHOOSE s \in schema[a].shapes : TRUE
      musts == {a \in DOMAIN schema : ~schema[a].optional}
  IN {[a \in given |-> usual(a)] : given \in {musts, DOMAIN schema}}
     \cup UNION {{[a \in musts \cup {b} |-> IF a = b THEN s ELSE usual(a)] :
                    s \in schema[b].shapes} : b \in DOMAIN schema}

PassOn ==
  /\ form.at = "choose"
  /\ \E tool \in DOMAIN MCP_PROXY_TOOLS : \E args \in Accepted(MCP_PROXY_TOOLS[tool]) :
       form' = [form EXCEPT !.by = "proxy", !.tool = tool, !.at = "sent", !.args = args]

\* applyToolSideEffects, after an answer; one that is an error brings nothing new.
Hints(tool) ==
  CASE tool = "set_goals" -> [thread : {form.hints.thread}, goals : 1..2]
    [] tool = "complete_goal" /\ form.hints.goals > 0 ->
         {form.hints, [form.hints EXCEPT !.goals = @ - 1]}
    [] tool = "create_thread" -> {[form.hints EXCEPT !.thread = TRUE]}
    [] OTHER -> {form.hints}

AnswerCall ==
  /\ form.at = "sent"
  /\ \E hints \in {form.hints} \cup Hints(form.tool) : form' = Choosing(hints)

FormsNext ==
  \/ ChooseTool \/ Bulk \/ AnswerField \/ TypeLine \/ Back \/ SendForm
  \/ OpenForm \/ Fill \/ Collect \/ HideForm
  \/ PassOn \/ AnswerCall

-----------------------------------------------------------------------------
(* Properties. *)

KindOf(a) == (CHOOSE f \in ToSet(Fields) : f.name = a).kind

\* What is left for the board to look at, whoever formed the call.
Unread ==
  [terminal |-> {"json"}, page |-> {"uuid", "url", "json"}, proxy |-> {}]

\* The three tables of tools agree: a handler knows every argument that a form or
\* the proxy lets through, and refuses it for its shape only where the form does
\* not look at the value, or for a handover that the proxy lets be empty.
FormsFit ==
  form.at = "sent" /\ form.by # "json" =>
    /\ DOMAIN form.args \subseteq DOMAIN handlers[form.tool]
    /\ \A a \in Refused(handlers[form.tool], form.args) :
         /\ a \in DOMAIN form.args
         /\ KindOf(a) \in Unread[form.by] \/ (form.by = "proxy" /\ a = "handover")

\* What is sent is what the person answered last, however often he went back:
\* nothing that he skipped the second time is left over from the first
\* (promptToolArgs).
SentAsAnswered ==
  form.by \in {"terminal", "page"} =>
    LET given == {k \in DOMAIN form.answers : form.answers[k] # "none"} IN
    /\ DOMAIN form.args = {Fields[k].name : k \in given}
    /\ \A k \in given : form.args[Fields[k].name] = form.answers[k]
=============================================================================
