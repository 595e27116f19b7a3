-------------------------------- MODULE Tools --------------------------------
(***************************************************************************)
(* The tools the agent offers (tools/registry.py, tools/builtin.py): how a *)
(* call of the LLM is dispatched, which paths a tool may look at, and what *)
(* the tools answer that show a part of something: lines of a file,        *)
(* matches of a search, commits. They keep no state; the one that does,    *)
(* retrieve_similar_cases, has a module of its own, KnowledgeBase.         *)
(*                                                                         *)
(* An answer is an error for the LLM to read, or a result. Uncaught is an  *)
(* exception that leaves execute_tool, and ends the run (AgentLoop,        *)
(* ExecuteToolsRaises).                                                    *)
(***************************************************************************)
EXTENDS Integers, Sequences

Error == [kind |-> "error"]
Uncaught == [kind |-> "raised"]
Result(value) == [kind |-> "result", value |-> value]

Larger(m, n) == IF m > n THEN m ELSE n
Lesser(m, n) == IF m < n THEN m ELSE n

---------------------------------------------------------------------------
(* Dispatch.                                                               *)

\* TOOL_REGISTRY: the parameters of each tool, as its schema and its executor have them.
Spec(required, optional) == [required |-> required, optional |-> optional]

Registry ==
    [grep_codebase          |-> Spec({"pattern"}, {"path", "max_results"}),
     read_file              |-> Spec({"path"}, {"start_line", "end_line", "max_lines"}),
     list_directory         |-> Spec({}, {"path", "recursive"}),
     git_blame              |-> Spec({"path", "start_line", "end_line"}, {}),
     search_logs            |-> Spec({"pattern", "log_dir"}, {"max_results"}),
     git_log                |-> Spec({}, {"path", "limit"}),
     find_test_history      |-> Spec({"test_id"}, {"limit"}),
     get_environment_info   |-> Spec({}, {"scope"}),
     retrieve_similar_cases |-> Spec({"error_signature"}, {"top_k"})]

\* get_openai_tools_schema: what complete is called with as tools.
Schema == {[name |-> name, parameters |-> Registry[name]] : name \in DOMAIN Registry}

Accepts(spec, names) ==
    spec.required \subseteq names /\ names \subseteq spec.required \cup spec.optional

(***************************************************************************)
(* The call of a tool. arguments: the text of the call as JSON, which may  *)
(* be broken ("broken"), an object ("object", with the names it has) or    *)
(* something else ("other"); the empty text counts as {}. body is how the  *)
(* executor ends, where "mistyped" is a TypeError, of the unpacking or of  *)
(* an argument of a wrong type. It and the broken text are answers.        *)
(***************************************************************************)
ExecuteTool(name, arguments, body) ==
    IF name \notin DOMAIN Registry THEN Error
    ELSE IF arguments.form = "other" \/ ~ Accepts(Registry[name], arguments.names) THEN Error
    ELSE IF body.kind = "mistyped" THEN Error
    ELSE body

ToolCall(name, arguments, body) ==
    IF arguments.form = "broken" THEN Error ELSE ExecuteTool(name, arguments, body)

---------------------------------------------------------------------------
(* Paths.                                                                  *)

(***************************************************************************)
(* _safe_resolve: what a path is resolved to, where env is                 *)
(* MACRO_LOGBOT_ENV and allowlist says whether there is one. Of a path:    *)
(* resolvedInside, its symlinks followed, and normalizedInside, they are   *)
(* not, the working directory; link: it or a parent of it is a symlink, or *)
(* that cannot be found out; secret; listed: under a prefix of the list.   *)
(***************************************************************************)
Environments == {"production", "staging", "poc", "dev"}

SafeResolve(env, allowlist, path) ==
    LET withinCwd == IF path.resolvedInside THEN "granted" ELSE "refused"
    IN  IF env \notin Environments THEN "raised"
        ELSE IF env # "poc" \/ ~ allowlist THEN withinCwd
        ELSE IF path.link THEN "refused"
        ELSE IF path.normalizedInside THEN "granted"
        ELSE IF path.secret THEN "refused"
        ELSE IF path.listed THEN "granted"
        ELSE withinCwd

\* Every tool with a path starts like this; kindOk is what it then requires of it.
Guarded(access, kindOk, answer) ==
    IF access = "raised" THEN Uncaught
    ELSE IF access = "refused" \/ ~ kindOk THEN Error
    ELSE answer

---------------------------------------------------------------------------
(* read_file and list_directory.                                           *)

\* s[from:to] of Python for from >= 0: a negative end counts from the back.
Slice(s, from, to) ==
    SubSeq(s, from + 1, IF to < 0 THEN Len(s) + to ELSE Lesser(to, Len(s)))

\* start_idx, and end_idx before the cut. No start_line, and no end_line, are 0 here, as
\* the code makes no difference between None and 0.
StartIdx(start) == Larger(0, IF start # 0 THEN start - 1 ELSE 0)
EndIdx(total, end) == Lesser(total, IF end # 0 THEN end ELSE total)

(***************************************************************************)
(* The lines asked for, at most maxLines of them, and which they are       *)
(* claimed to be (none: 0 and 0).                                          *)
(***************************************************************************)
Window(lines, start, end, maxLines) ==
    LET asked == Slice(lines, StartIdx(start), EndIdx(Len(lines), end))
        cut == Len(asked) > maxLines
        shown == IF cut THEN Slice(asked, 0, maxLines) ELSE asked
    IN  [content |-> shown,
         total |-> Len(lines),
         start |-> IF shown = <<>> THEN 0 ELSE StartIdx(start) + 1,
         end |-> IF shown = <<>> THEN 0
                 ELSE IF cut THEN StartIdx(start) + maxLines
                 ELSE EndIdx(Len(lines), end),
         truncated |-> cut]

\* The size is looked at before the window: a large file is refused whole.
ReadFile(access, file, start, end, maxLines) ==
    Guarded(access, file.isFile /\ ~ file.large /\ file.readable,
            Result(Window(file.lines, start, end, maxLines)))

\* All entries without a hidden part, of any depth if recursive.
ListDirectory(access, directory, recursive) ==
    Guarded(access, directory.isDirectory /\ directory.readable,
            Result({e \in directory.entries : ~ e.hidden /\ (recursive \/ e.depth = 1)}))

---------------------------------------------------------------------------
(* The tools that run a program. ran: how subprocess.run ends, "done" with *)
(* the program's return code and the items its output parses to; "failed", *)
(* which is caught: not startable, or out of its 15 seconds; "garbled": an *)
(* output that is not UTF-8, or an argument no program can be given.       *)

\* The loop over the output: an item is kept, then the limit looked at, so a limit below 1
\* still lets one through.
Capped(items, limit) ==
    [items |-> SubSeq(items, 1, Lesser(Len(items), Larger(1, limit))),
     truncated |-> Len(items) >= Larger(1, limit)]

Ran(ran, failed, result) ==
    IF ran.end = "garbled" THEN Uncaught
    ELSE IF ran.end = "failed" \/ failed THEN Error
    ELSE Result(result)

\* grep returns 1 when it finds nothing.
GrepCodebase(access, ran, limit) ==
    Guarded(access, TRUE, Ran(ran, ran.code >= 2, Capped(ran.items, limit)))

SearchLogs(access, isDirectory, ran, limit) ==
    Guarded(access, isDirectory, Ran(ran, ran.code >= 2, Capped(ran.items, limit)))

GitBlame(access, isFile, ran) ==
    Guarded(access, isFile, Ran(ran, ran.code # 0, ran.items))

\* git keeps to the limit; lines without a hash are skipped after it did. Without a path
\* there is nothing to guard.
GitLog(access, ran, limit) ==
    Guarded(access, TRUE,
            Ran(ran, ran.code # 0, [items |-> ran.items, truncated |-> Len(ran.items) >= limit]))

FindTestHistory(hasId) == IF hasId THEN Result(<<>>) ELSE Error
=============================================================================
