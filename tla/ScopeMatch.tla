----------------------------- MODULE ScopeMatch -----------------------------
(***************************************************************************)
(* internal/permission/match.go and canonical.go: the schema of each       *)
(* capability's scope, and whether what is attempted lies within the scope *)
(* of a grant; with the attempt that each tool of internal/mcp makes.      *)
(***************************************************************************)
EXTENDS Naturals, FiniteSets, TLC

CONSTANT None

(* A value of a scope or of an attempt, as JSON decodes it: a string (one  *)
(* of which may be a pattern or a time), a list of strings, a range or a   *)
(* number.                                                                 *)
String(s) == [is |-> "string", of |-> s]
List(items) == [is |-> "list", of |-> items]
Range(since, until) == [is |-> "range", of |-> <<since, until>>]
Number(n) == [is |-> "number", of |-> n]

(* asString, asStringList, asTime; the times of this model are "1" to "3". *)
AsList(v) == IF v.is = "list" THEN v.of ELSE {v.of}
Listed(v) == v.is \in {"list", "string"}
Times == [s \in {"1", "2", "3"} |-> CASE s = "1" -> 1 [] s = "2" -> 2 [] s = "3" -> 3]
IsTime(s) == s \in DOMAIN Times

(* globMatch: "*" stands for what has no "/", which here is all but "a/x". *)
GlobMatch(glob, s) == glob = s \/ (glob = "*" /\ s # "a/x") \/ (glob = "a/*" /\ s = "a/x")

HasPrefix(s, prefix) == prefix = s \/ (prefix = "a" /\ s = "a/x")

-----------------------------------------------------------------------------
(* The primitives.  What has not the type that a primitive wants is        *)
(* refused; a list may be a single string on the side of the attempt, and  *)
(* for globs on the side of the scope.                                     *)
MatchEquals(scope, attempt) == scope.is = "string" /\ attempt.is = "string" /\ scope.of = attempt.of

MatchGlobList(scope, attempt) ==
  Listed(scope) /\ attempt.is = "string" /\ \E g \in AsList(scope) : GlobMatch(g, attempt.of)

MatchPrefix(scope, attempt) ==
  scope.is = "string" /\ attempt.is = "string" /\ HasPrefix(attempt.of, scope.of)

(* Slip: an empty list of the scope is one without a constraint.           *)
IntersectUnlessEmpty(scope, attempt) ==
  scope.is = "list" /\ Listed(attempt) /\ (scope.of = {} \/ scope.of \intersect AsList(attempt) # {})

MatchSetIntersect(scope, attempt) ==
  scope.is = "list" /\ Listed(attempt) /\ scope.of \intersect AsList(attempt) # {}

MatchSetSubset(scope, attempt) == scope.is = "list" /\ Listed(attempt) /\ AsList(attempt) \subseteq scope.of

MatchSetExcludes(scope, attempt) ==
  scope.is = "list" /\ Listed(attempt) /\ scope.of \intersect AsList(attempt) = {}

(* A range's bounds count where they are there and parse; both are         *)
(* inclusive.  A scope that is not a range has no bounds.                  *)
Since(scope) == IF scope.is = "range" /\ IsTime(scope.of[1]) THEN Times[scope.of[1]] ELSE 0
Until(scope) == IF scope.is = "range" /\ IsTime(scope.of[2]) THEN Times[scope.of[2]] ELSE 4

MatchRangeIncludes(scope, attempt) ==
  attempt.is = "string" /\ IsTime(attempt.of) /\ Times[attempt.of] \in Since(scope) .. Until(scope)

MatchSenderGlob(scope, attempt) ==
  scope.is = "string" /\ attempt.is = "string" /\ GlobMatch(scope.of, attempt.of)

Primitive == {"equals", "glob_list", "prefix", "set_intersect", "set_subset", "set_excludes",
              "range_includes", "sender_glob"}

MatchValue(p, scope, attempt) ==
  CASE p = "equals" -> MatchEquals(scope, attempt)
    [] p = "glob_list" -> MatchGlobList(scope, attempt)
    [] p = "prefix" -> MatchPrefix(scope, attempt)
    [] p = "set_intersect" -> MatchSetIntersect(scope, attempt)
    [] p = "set_subset" -> MatchSetSubset(scope, attempt)
    [] p = "set_excludes" -> MatchSetExcludes(scope, attempt)
    [] p = "range_includes" -> MatchRangeIncludes(scope, attempt)
    [] p = "sender_glob" -> MatchSenderGlob(scope, attempt)
    [] OTHER -> FALSE

(* matchScope: schema, scope and attempt are functions of their fields.    *)
MatchScope(schema, scope, attempt) ==
  \A f \in DOMAIN schema \intersect DOMAIN scope :
    f \in DOMAIN attempt /\ MatchValue(schema[f], scope[f], attempt[f])

(* validateScope, when a grant is issued: no field that the schema lacks;  *)
(* the values are not looked at.                                           *)
ValidateScope(schema, scope) == DOMAIN scope \subseteq DOMAIN schema

-----------------------------------------------------------------------------
(* The capabilities that a new store is seeded with.                       *)
Entities == "entities" :> "set_intersect"
Included == "data_classes_included" :> "set_subset"
Excluded == "data_classes_excluded" :> "set_excludes"
TimeRange == "time_range" :> "range_includes"
Same(f) == f :> "equals"
Globs(f) == f :> "glob_list"
NoScope == [f \in {} |-> None]

InboundSchemas ==
  ("memory.read" :> (Entities @@ Included @@ Excluded))
  @@ ("memory.query" :> (Entities @@ TimeRange @@ Included @@ Excluded))
  @@ ("memory.write" :> (Entities @@ Included @@ Excluded))
  @@ ("files.read" :> (Globs("paths") @@ TimeRange @@ Included @@ Excluded))
  @@ ("audit.read" :> (TimeRange @@ ("event_types" :> "set_subset")))
  @@ ("email.read" :> (("sender" :> "sender_glob") @@ Same("folder") @@ TimeRange @@ Same("thread_id")))
  @@ ("calendar.read" :> (Same("tag") @@ TimeRange))
  @@ ("messages.read" :> (Same("channel") @@ TimeRange))
  @@ ("content.list" :> (Same("tag") @@ Same("type")))
  @@ ("content.read" :> (Same("tag") @@ Same("type") @@ Same("resource_id")))
  @@ ("content.metrics.write" :> Globs("subject_pattern"))
  @@ ("content.revenue.write" :> Globs("subject_pattern"))

OutboundSchemas ==
  ("email.send" :> (Globs("recipient_pattern") @@ Same("sender") @@ Same("reply_to_thread")))
  @@ ("email.draft" :> (Same("folder") @@ Same("reply_to_thread")))
  @@ ("calendar.write" :> (Same("tag") @@ Same("calendar_id") @@ Globs("attendee_domain")))
  @@ ("messages.send" :> (Same("channel") @@ Globs("recipient_pattern")))
  @@ ("files.write" :> (Globs("paths") @@ Included))
  @@ ("model.call" :> (("tasks" :> "set_subset") @@ ("forbidden_data_classes" :> "set_excludes")
                       @@ ("cost_ceiling_usd" :> "range_includes")))
  @@ ("credentials.read" :> NoScope) @@ ("credentials.write" :> NoScope)
  @@ ("external.http" :> (Globs("hosts") @@ ("methods" :> "set_subset")
                          @@ ("max_bytes" :> "range_includes") @@ ("cost_ceiling_usd" :> "range_includes")))

CanonicalSchemas == InboundSchemas @@ OutboundSchemas

(* The capability that each tool wants; scopeFor asks a tool for its       *)
(* projection of the arguments, and not one of them has any.               *)
ToolCapability ==
  ("audit.read" :> "audit.read") @@ ("credentials.set" :> "credentials.write")
  @@ ("credentials.get" :> "credentials.read")
  @@ ("credentials.delete" :> "credentials.write") @@ ("entities.list" :> "memory.read")
  @@ ("memory.query" :> "memory.read") @@ ("memory.show" :> "memory.read")
  @@ ("memory.upsert" :> "memory.write") @@ ("model.call" :> "model.call") @@ ("threads.list" :> "memory.read")

ScopeFor(tool) == NoScope

-----------------------------------------------------------------------------
(* Properties, of every input of a run.                                    *)

(* What a value of a scope narrows: a list that lets in has fewer members, *)
(* one that keeps out has more, and a range lies within.                   *)
NarrowerValue(p, v, w) ==
  \/ v = w
  \/ v.is = "list" /\ w.is = "list" /\ (IF p = "set_excludes" THEN w.of \subseteq v.of ELSE v.of \subseteq w.of)
  \/ v.is = "range" /\ w.is = "range" /\ Since(w) <= Since(v) /\ Until(v) <= Until(w)

Narrower(schema, scope, wide) ==
  \A f \in DOMAIN wide : f \in DOMAIN scope /\ NarrowerValue(schema[f], scope[f], wide[f])

(* A narrower grant never admits what a wider one refuses, whatever the    *)
(* primitive and however odd the values: what lets a user tighten a scope  *)
(* without thinking about the attempts.                                    *)
NarrowerAdmitsLess(schema, scope, wide, attempt) ==
  Narrower(schema, scope, wide) /\ MatchScope(schema, scope, attempt) => MatchScope(schema, wide, attempt)

(* A grant that is narrowed still serves the tool it is for: the calendar  *)
(* capsule writes its events under it (its README: the runtime "Grants     *)
(* `memory.write` (scoped to `calendar-event` entities)", and then "for    *)
(* each event: capsule calls memory.upsert").                              *)
ScopedGrantServes(tool, scope) ==
  LET schema == CanonicalSchemas[ToolCapability[tool]]
  IN ValidateScope(schema, scope) => MatchScope(schema, scope, ScopeFor(tool))
=============================================================================
