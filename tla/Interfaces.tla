------------------------------ MODULE Interfaces ------------------------------
(***************************************************************************)
(* What the console and the command line answer: how a request finds its   *)
(* handler, who may ask, and which status or exit code an outcome has.     *)
(*                                                                         *)
(* A request is [method, path, token, body]; a path is a sequence of       *)
(* segments.  The outcome of an operation is "none" or why it failed.      *)
(***************************************************************************)
EXTENDS Integers, Sequences, SequencesExt, FiniteSets

\* Exceptions by what is wrong: a KeyError, ValueError or NotImplementedError.
WrongRequest == {"no-Model", "no-train", "recipe", "backend", "no-data", "no-lake", "bad-row", "not-ready",
                 "remote-storage", "no-reason", "no-version"}

-----------------------------------------------------------------------------
(* Console *)

Matches(pattern, path) ==
  /\ Len(pattern) = Len(path)
  /\ \A i \in DOMAIN path : IF pattern[i] = "{}" THEN path[i] # "" ELSE path[i] = pattern[i]

Route(method, pattern, name) == [method |-> method, pattern |-> pattern, name |-> name]

Routes ==
  <<Route("GET", <<"api", "overview">>, "overview"),
    Route("GET", <<"api", "models", "{}", "versions">>, "versions"),
    Route("GET", <<"api", "models", "{}", "events">>, "events"),
    Route("POST", <<"api", "models", "{}", "promote">>, "promote"),
    Route("GET", <<"api", "report">>, "report"), Route("GET", <<"api", "jobs">>, "jobs"),
    Route("GET", <<"api", "jobs", "{}", "logs">>, "logs"),
    Route("POST", <<"api", "train">>, "train"), Route("GET", <<"api", "keys">>, "keys"),
    Route("POST", <<"api", "keys">>, "create"), Route("POST", <<"api", "keys", "{}", "revoke">>, "revoke"),
    Route("GET", <<"api", "usage">>, "usage"), Route("POST", <<"api", "chat">>, "chat")>>

\* The first route of the method that matches, in a set of at most one.
Found(req) ==
  LET fit == SelectSeq(Routes, LAMBDA r : r.method = req.method /\ Matches(r.pattern, req.path))
  IN IF fit = << >> THEN {} ELSE {fit[1]}

IsApi(req) == Len(req.path) > 1 /\ req.path[1] = "api"
Usable(cfg) == \E p \in cfg.platform : p.storage \in {"local", "file"}

\* The code before any handler runs, or 0.  To compare a token the console reads the
\* configuration and the master key.
Precheck(req, cfg) ==
  CASE req.path = <<"healthz">> -> 200
    [] req.path # <<"healthz">> /\ ~IsApi(req) -> IF req.method = "GET" THEN 200 ELSE 405
    [] IsApi(req) ->
         IF req.token = "none" THEN 401 ELSE IF ~Usable(cfg) THEN 500 ELSE IF req.token # "master" THEN 401
         ELSE IF req.method = "GET" THEN (IF Found(req) = {} THEN 404 ELSE 0)
         ELSE IF req.body.size > 1 THEN 413 ELSE IF req.body.type # "object" THEN 400
         ELSE IF Found(req) = {} THEN 404 ELSE 0

\* The code of a handler that only reads; known are the models, jobs and reports there are.
ReadCode(name, req, cfg, known) ==
  CASE name = "versions" -> IF req.path[3] \in DOMAIN cfg.models THEN 200 ELSE 404
    [] name = "logs"     -> IF ~req.body.lines THEN 500 ELSE IF req.path[3] \in known.jobs THEN 200 ELSE 404
    [] name = "report"   -> IF req.body.path \in known.reports THEN 200 ELSE 404
    [] name = "usage"    -> IF req.body.since THEN 200 ELSE 400
    [] OTHER -> 200

\* The playground asks the managed gateway, 0 when it does not answer, and passes its
\* errors on.
ChatCode(cfg, gateway) ==
  IF \E p \in cfg.platform : p.gateway.mode # "managed" THEN 400
  ELSE IF gateway = 0 THEN 502 ELSE gateway

TrainCode(problem)    == IF problem = "none" THEN 200 ELSE IF problem \in WrongRequest THEN 400 ELSE 500

\* Mutant: a key may have no name.
CreateUnnamed(name, budget) == IF budget = "text" THEN 500 ELSE 200

\* The console takes the blanks off a key's name; the command line keeps them.
Strip(name) == IF name = " " THEN "" ELSE name

CreateCode(name, budget) == IF Strip(name) = "" THEN 400 ELSE IF budget = "text" THEN 500 ELSE 200
RevokeCode(count)     == IF count = 0 THEN 404 ELSE 200

\* Mutant: the console does not ask for the reason of a forced promotion.
PromoteWithoutReason(problem) ==
  CASE problem \in {"none", "no-reason"} -> 200 [] problem = "not-passed" -> 409 [] OTHER -> 400

PromoteCode(problem)  == CASE problem = "none" -> 200 [] problem = "not-passed" -> 409 [] OTHER -> 400

-----------------------------------------------------------------------------
(* Command line: 0 ok, 1 error, 3 the gate did not pass *)

\* Commands load the file and stop at its errors.
LoadOk(cfg) == \A i \in cfg.issues : i.level # "error"
Exit(cfg, code) == IF LoadOk(cfg) THEN code ELSE 1
Failed(problem) == IF problem = "none" THEN 0 ELSE 1

ValidateExit(cfg)        == Exit(cfg, 0)
EvalExit(cfg, decision)  == Exit(cfg, IF decision = "pass" THEN 0 ELSE IF decision = "raised" THEN 1 ELSE 3)
TrainExit(cfg, problem)  == Exit(cfg, Failed(problem))
\* Without --detach the command follows its job to the end.
FollowExit(status, job)  == IF job = "failed" THEN 1 ELSE IF status = "passed" THEN 0 ELSE 3
CreateExit(cfg, name)    == Exit(cfg, IF name = "" THEN 1 ELSE 0)
RevokeExit(cfg, count)   == Exit(cfg, IF count = 0 THEN 1 ELSE 0)
\* The engine is restarted after the promotion: when that fails the version is live.
PromoteExit(cfg, problem, restart) ==
  Exit(cfg, IF problem = "not-passed" THEN 3 ELSE IF problem # "none" \/ restart = "failed" THEN 1 ELSE 0)
UsageExit(cfg, since)    == Exit(cfg, IF since THEN 0 ELSE 1)
InitExit(exists, force)  == IF exists /\ ~force THEN 1 ELSE 0
=============================================================================
