---------------------------- MODULE RoutePolicy ----------------------------
(***************************************************************************)
(* What a request may ask of the router and what becomes of it             *)
(* (app/routing/policy.py, app/routing/engine.py, _parse_router_opts in    *)
(* app/api/chat.py).                                                       *)
(*                                                                         *)
(* A model is known by the list it is on: "tier" for the model or a        *)
(* fallback of some tier, "listed" for the passthrough allowlist, "other"  *)
(* for neither, "" for none.                                               *)
(***************************************************************************)
EXTENDS Levels

\* A level that is no level, such as "L9".
BadLevel == 9

DirectiveLevel ==
    [model \in {"smart-router/L1", "smart-router/L2", "smart-router/L3", "smart-router/L4",
                "smart-router/L5"} |->
        CASE model = "smart-router/L1" -> 1 [] model = "smart-router/L2" -> 2
          [] model = "smart-router/L3" -> 3 [] model = "smart-router/L4" -> 4
          [] OTHER -> 5]

\* parse_model_directive: a slug with a vendor is a passthrough, all else "auto".
ModeOf(model) ==
    CASE model \in DOMAIN DirectiveLevel -> "level"
      [] model = "smart-router/classify-only" -> "classify_only"
      [] model = "smart-router/stateless" -> "stateless"
      [] model \in {"tier", "listed", "other"} -> "passthrough"
      [] OTHER -> "auto"

\* _parse_router_opts: the header's level and model replace the body's.
ForcedLevel(opts) == IF opts.headerLevel # NoLevel THEN opts.headerLevel ELSE opts.level
ForcedModel(opts) == IF opts.headerModel # "" THEN opts.headerModel ELSE opts.forceModel
BadOptions(opts) == BadLevel \in {opts.max, opts.min, opts.level, opts.headerLevel}

\* _get_allowed_models
AllowedModels == {"tier", "listed"}

PassthroughAllowed(model, routing) == routing.passthrough /\ model \in AllowedModels

Smaller(a, b) == IF a < b THEN a ELSE b
Larger(a, b) == IF a > b THEN a ELSE b

\* The global bounds of enforce_route_policy: the minimum after the maximum.
GlobalClamp(level, routing) ==
    LET capped == IF level > routing.globalMax THEN routing.globalMax ELSE level
    IN  IF capped < routing.globalMin THEN routing.globalMin ELSE capped

\* enforce_route_policy.  It sees the level a request forces, or the default.
Policy(opts, routing) ==
    LET forced == ForcedLevel(opts)
        wanted == IF forced # NoLevel THEN forced ELSE routing.default
        asked == Clamp(wanted, opts.max, opts.min)
        level == GlobalClamp(asked, routing)
        override == ForcedModel(opts) # "" /\ routing.overrides
    IN  [status |-> IF opts.max # NoLevel /\ opts.min # NoLevel /\ opts.min > opts.max THEN 422
                    ELSE IF override /\ ForcedModel(opts) \notin AllowedModels THEN 400
                    ELSE 200,
         level |-> level,
         clamped |-> asked > routing.globalMax
                       \/ Smaller(asked, routing.globalMax) < routing.globalMin,
         overridden |-> override]

Mut_ForcedByPolicy(opts, routing) ==      \* Mutant: only the request is looked at.
    ForcedLevel(opts)

\* What chat_completions goes on with: a clamped or overridden route is forced.
ForcedByPolicy(opts, routing) ==
    LET policy == Policy(opts, routing)
    IN  IF policy.clamped \/ policy.overridden THEN policy.level ELSE ForcedLevel(opts)

\* RoutingEngine.resolve: the request's bounds and the global ones, taken
\* together; the floors come last.
EngineResolve(level, max, min, routing) ==
    LET ceiling == IF max # NoLevel THEN Smaller(max, routing.globalMax) ELSE routing.globalMax
        floor == IF min # NoLevel THEN Larger(min, routing.globalMin) ELSE routing.globalMin
    IN  Larger(Smaller(level, ceiling), floor)
=============================================================================
