------------------------------- MODULE AdminAccess ------------------------------
(***************************************************************************)
(* A request to one admin path: the bearer token is looked up among the    *)
(* configured identities, the identity's role is compared with the one the *)
(* path needs, the request is counted (AdminRateLimiter), its parameters   *)
(* are validated, and only then the handler runs.  What stops it on the    *)
(* way, or what the handler raises, becomes the answer (errors.py).        *)
(*                                                                         *)
(* AdminRateLimiter counts the requests of one actor, whose label is       *)
(* Watched; those of another actor have a counter of their own, which may  *)
(* say anything.  "Mutant" marks a plausible bug in the definition that    *)
(* follows.                                                                *)
(***************************************************************************)
EXTENDS AdminRateLimiter, Sequences

CONSTANTS
  Tokens,    \* tokens of at least 24 characters
  Weak,      \* a shorter token
  NoToken,   \* no bearer token in the request, or none configured
  Garbled,   \* a token that is not ASCII
  Watched,   \* the actor label whose requests are counted here
  Cases      \* pairs of settings (identities, legacy token) and the access of the path

ASSUME TokensAssumption ==
  /\ {Weak, NoToken, Garbled} \cap Tokens = {}
  /\ "unsent" \notin Tokens \cup {NoToken, Garbled}

\* The record of an identity in the settings.
Identity == [label : STRING, token : Tokens \cup {Weak}, roles : SUBSET {"read", "write"}]

ASSUME CasesAssumption == \A case \in Cases : case[1].identities \in Seq(Identity)

VARIABLES
  config,   \* the settings the process has started with
  needs,    \* the access the path asks for: "read" or "write"
  token,    \* the token of a request, "unsent" before it
  answer,   \* the HTTP status of a request, 0 before it
  ran       \* requests whose handler has run

limiter == vars
access  == <<config, needs, token, answer, ran>>
accessVars == <<limiter, access>>

\* Settings that are not rejected: every identity has a label, a long token and
\* supported roles, and there is at least one way in.
Accepted(c) ==
  /\ \A i \in DOMAIN c.identities :
       LET id == c.identities[i]  IN
       id.label # "" /\ id.token \in Tokens /\ id.roles \in SUBSET {"read", "write"} \ {{}}
  /\ c.legacy \in Tokens \cup {NoToken}
  /\ c.identities # <<>> \/ c.legacy # NoToken

\* Mutant: the legacy token comes first.
IdentitiesLegacyFirst ==
  IF config.legacy = NoToken THEN config.identities
  ELSE <<[label |-> "legacy-admin", token |-> config.legacy, roles |-> {"read", "write"}]>>
         \o config.identities

\* The legacy token comes last, as an identity with both roles.
Identities ==
  IF config.legacy = NoToken THEN config.identities
  ELSE Append(config.identities,
              [label |-> "legacy-admin", token |-> config.legacy, roles |-> {"read", "write"}])

Matches(t) == {i \in DOMAIN Identities : Identities[i].token = t}

\* The identity with the token, if there is one: the first, so that a later one with
\* the same token is never used.
Identified(t) ==
  {Identities[i] : i \in {k \in Matches(t) : \A j \in Matches(t) : k <= j}}

HasAccess(id) ==
  IF needs = "read" THEN id.roles \cap {"read", "write"} # {} ELSE "write" \in id.roles

\* The statuses of errors.py and of FastAPI that a request may owe to what it met on
\* the way to the handler, or to a failed readiness probe ("unhealthy").  200 stands
\* for the others, 404, 409, 422, 500 and 502, too.
Status(outcome) ==
  CASE outcome = "unauthenticated" -> 401
    [] outcome = "unauthorized" -> 403
    [] outcome = "limited" -> 429
    [] outcome \in {"limiterDown", "unhealthy"} -> 503
    [] OTHER -> 200

\* What the handlers of read paths (a job, the readiness probes) and of write paths
\* (run-now, publish, unpublish) answer or raise.
Outcomes == {"answered"} \cup (IF needs = "read" THEN {"unhealthy"} ELSE {})

AccessInit ==
  /\ Init
  /\ \E case \in Cases : Accepted(case[1]) /\ config = case[1] /\ needs = case[2]
  /\ token = [p \in Requests |-> "unsent"]
  /\ answer = [p \in Requests |-> 0]
  /\ ran = {}

\* Request p arrives with token t.
Send(p, t) ==
  /\ token[p] = "unsent"
  /\ token' = [token EXCEPT ![p] = t]
  /\ UNCHANGED <<config, needs>>

Respond(p, outcome) == answer' = [answer EXCEPT ![p] = Status(outcome)]

\* require_admin_identity: no bearer token or an unknown one.  compare_digest raises
\* a TypeError for a token that is not ASCII.
Unauthenticated(p, t) ==
  /\ Send(p, t)
  /\ Identified(t) = {}
  /\ Respond(p, IF t = Garbled THEN "unexpected" ELSE "unauthenticated")
  /\ UNCHANGED <<limiter, ran>>

\* require_admin_read_role, require_admin_write_role.
Unauthorized(p, t, id) ==
  /\ Send(p, t)
  /\ ~HasAccess(id)
  /\ Respond(p, "unauthorized")
  /\ UNCHANGED <<limiter, ran>>

\* Mutant: the requests of an identity are counted before its role is looked at.
EnforceUnchecked(p, t, id) ==
  /\ Send(p, t)
  /\ id.label = Watched
  /\ Stamp(p)
  /\ UNCHANGED <<answer, ran>>

\* The limiter counts the request of the watched actor.
Enforce(p, t, id) ==
  /\ Send(p, t)
  /\ HasAccess(id)
  /\ id.label = Watched
  /\ Stamp(p)
  /\ UNCHANGED <<answer, ran>>

\* The HTTPException of enforce.
Deny(p) ==
  /\ pc[p] \in {"refused", "unavailable"}
  /\ answer[p] = 0
  /\ Respond(p, IF pc[p] = "refused" THEN "limited" ELSE "limiterDown")
  /\ UNCHANGED <<limiter, config, needs, token, ran>>

\* Parameters are validated after the dependencies; the handler runs or it does not.
Serve(p) ==
  \/ Respond(p, "invalid") /\ UNCHANGED ran
  \/ /\ \E o \in Outcomes : Respond(p, o)
     /\ ran' = ran \cup {p}

Handle(p) ==
  /\ pc[p] = "admitted"
  /\ answer[p] = 0
  /\ Serve(p)
  /\ UNCHANGED <<limiter, config, needs, token>>

\* Another actor's request: another counter, with any verdict.
Elsewhere(p, t, id) ==
  /\ Send(p, t)
  /\ HasAccess(id)
  /\ id.label # Watched
  /\ \/ Respond(p, "limited") /\ UNCHANGED ran
     \/ Respond(p, "limiterDown") /\ UNCHANGED ran
     \/ Serve(p)
  /\ UNCHANGED limiter

LimiterStep ==
  /\ \/ \E p \in Requests : Incr(p) \/ IncrError(p) \/ Expire(p) \/ ExpireError(p)
     \/ \E m \in Minutes : RedisForgets(m)
     \/ Tick
  /\ UNCHANGED access

AccessNext ==
  \/ \E p \in Requests, t \in Tokens \cup {NoToken, Garbled} :
       \/ Unauthenticated(p, t)
       \/ \E id \in Identified(t) :
            Unauthorized(p, t, id) \/ Enforce(p, t, id) \/ Elsewhere(p, t, id)
  \/ \E p \in Requests : Deny(p) \/ Handle(p)
  \/ LimiterStep

AccessSpec == AccessInit /\ [][AccessNext]_accessVars

-----------------------------------------------------------------------------
(* Properties *)

\* Who the settings say token t is, apart from how a request finds it: the first
\* identity they list with it, and the administrator of the legacy token, with both
\* roles, only if they list none.
Granted(t) ==
  LET listed == {i \in DOMAIN config.identities : config.identities[i].token = t}
  IN  {config.identities[i] : i \in {k \in listed : \A j \in listed : k <= j}}
        \cup {[label |-> "legacy-admin", token |-> x, roles |-> {"read", "write"}] :
                x \in {y \in {t} : listed = {} /\ y = config.legacy /\ y # NoToken}}

\* The settings give the token of p the access the path needs, and the watched label.
Entitled(p) == \E id \in Granted(token[p]) : id.label = Watched /\ HasAccess(id)

\* A request is refused only after more than Limit requests of its own minute that
\* might use the path: no token without the role, of the same actor or of nobody,
\* uses up the budget of those who have it, and neither does what was counted in
\* another minute.
RefusedByEntitled ==
  \A p \in Requests : pc[p] = "refused" =>
    Cardinality({q \in Requests :
                   bucket[q] = bucket[p] /\ current[q] > 0 /\ Entitled(q)}) > Limit

\* An answer tells what has happened: after 401 and 403 the request was not counted,
\* after them, 429 and, on a write path, 503 the handler has not run, and it never
\* runs for a token that the settings do not give the role: a legacy token that is
\* listed with fewer roles has no more than those.
AnswersTellEffects ==
  \A p \in Requests :
    /\ answer[p] \in {401, 403} => current[p] = 0
    /\ answer[p] \in {401, 403, 429} => p \notin ran
    /\ answer[p] = 503 /\ needs = "write" => p \notin ran
    /\ p \in ran => \E id \in Granted(token[p]) : needs = "read" \/ "write" \in id.roles
=============================================================================
