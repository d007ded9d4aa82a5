--------------------------- MODULE YahooSession ---------------------------
(***************************************************************************)
(* yahoo_auth.py: how a fetcher gets the cookie and the crumb that Yahoo's *)
(* quote endpoint asks for.  The cookies are in the one session of Home    *)
(* Assistant, shared by all fetchers; each fetcher keeps a crumb of its    *)
(* own, which is good for the cookies it was issued with.  Each await is a *)
(* step, and fetches of different fetchers interleave.                     *)
(*                                                                         *)
(* The server is modelled from what the code expects of it: a crumb goes   *)
(* with the cookies of one visit, which may expire.                        *)
(***************************************************************************)
EXTENDS Naturals

CONSTANTS Fetchers,   \* the instances of YahooCrumbFetcher
          MaxVisits,  \* bound on the cookies that the server hands out
          None

ASSUME MaxVisitsAssumption == MaxVisits \in Nat

VARIABLES jar,    \* the cookies of the shared session: the number of the
                  \* visit that set them, or 0
          alive,  \* the server still honours them
          crumb,  \* per fetcher: the visit its crumb goes with, or None
          fetch   \* per fetcher: how far its fetch is, or how it ended

\* History, per fetcher: the cookies were replaced or have expired since it
\* asked for them again, after a 401.
VARIABLE disturbed

session == <<jar, alive, crumb, fetch, disturbed>>

Visits == 0 .. MaxVisits

\* The two steps of _authenticate, before the request and before its repetition.
Running == {"cookie", "crumb", "request", "cookie again", "crumb again", "retry"}

\* "denied" is the second 401, "failed" any other exception.
Ended == {"answered", "denied", "failed"}

SessionInit ==
  /\ jar = 0 /\ alive = FALSE
  /\ crumb = [f \in Fetchers |-> None]
  /\ fetch = [f \in Fetchers |-> "idle"]
  /\ disturbed = [f \in Fetchers |-> FALSE]

----------------------------------------------------------------------------
\* fetch: a crumb that is cached is used, without a step in between.
Ask(f) ==
  /\ fetch' = [fetch EXCEPT ![f] = IF crumb[f] = None THEN "cookie" ELSE "request"]
  /\ UNCHANGED <<jar, alive, crumb, disturbed>>

\* The caller has the answer or the exception.
Took(f) ==
  /\ fetch' = [fetch EXCEPT ![f] = "idle"]
  /\ disturbed' = [disturbed EXCEPT ![f] = FALSE]
  /\ UNCHANGED <<jar, alive, crumb>>

\* The service and the set-up dialog make a fetcher for each search, and drop it.
TookAndDropped(f) ==
  /\ fetch' = [fetch EXCEPT ![f] = "idle"]
  /\ disturbed' = [disturbed EXCEPT ![f] = FALSE]
  /\ crumb' = [crumb EXCEPT ![f] = None]
  /\ UNCHANGED <<jar, alive>>

\* The fetchers that use cookies which they asked for again.
Again == {f \in Fetchers : fetch[f] \in {"crumb again", "retry"}}

Goes(f, stage) == fetch' = [fetch EXCEPT ![f] = stage]

\* _authenticate, step 1: cookies land in the jar, those of a new visit or the
\* ones that are there already.  The status is not looked at.
Cookie(f) ==
  /\ fetch[f] \in {"cookie", "cookie again"}
  /\ Goes(f, IF fetch[f] = "cookie" THEN "crumb" ELSE "crumb again")
  /\ \/ /\ jar < MaxVisits
        /\ jar' = jar + 1 /\ alive' = TRUE
        /\ disturbed' = [g \in Fetchers |-> g # f /\ (g \in Again \/ disturbed[g])]
     \/ alive /\ UNCHANGED <<jar, alive, disturbed>>
  /\ UNCHANGED crumb

\* A crumb that is not cached when it is the second one.
CrumbOnce(f) ==
  /\ fetch[f] \in {"crumb", "crumb again"} /\ alive
  /\ crumb' = IF fetch[f] = "crumb" THEN [crumb EXCEPT ![f] = jar] ELSE crumb
  /\ Goes(f, IF fetch[f] = "crumb" THEN "request" ELSE "retry")
  /\ UNCHANGED <<jar, alive, disturbed>>

\* Step 2: a crumb for those cookies, which is cached.
Crumb(f) ==
  /\ fetch[f] \in {"crumb", "crumb again"} /\ alive
  /\ crumb' = [crumb EXCEPT ![f] = jar]
  /\ Goes(f, IF fetch[f] = "crumb" THEN "request" ELSE "retry")
  /\ UNCHANGED <<jar, alive, disturbed>>

Accepted(f) == crumb[f] = jar /\ alive

\* The quote request: an answer, or a 401 and another authentication.
Request(f) ==
  /\ fetch[f] = "request"
  /\ Goes(f, IF Accepted(f) THEN "answered" ELSE "cookie again")
  /\ UNCHANGED <<jar, alive, crumb, disturbed>>

\* Its repetition: another 401 is an error.
Retry(f) ==
  /\ fetch[f] = "retry"
  /\ Goes(f, IF Accepted(f) THEN "answered" ELSE "denied")
  /\ UNCHANGED <<jar, alive, crumb, disturbed>>

\* No connection, another status, no crumb (YahooAuthError), no JSON: the crumb
\* stays as it is, also if it was refused.
Breaks(f) ==
  /\ fetch[f] \in Running
  /\ Goes(f, "failed")
  /\ UNCHANGED <<jar, alive, crumb, disturbed>>

\* The server no longer honours the cookies.
Expire ==
  /\ alive /\ alive' = FALSE
  /\ disturbed' = [f \in Fetchers |-> f \in Again \/ disturbed[f]]
  /\ UNCHANGED <<jar, crumb, fetch>>

SessionNext ==
  \/ \E f \in Fetchers : Cookie(f) \/ Crumb(f) \/ Request(f) \/ Retry(f) \/ Breaks(f)
  \/ Expire

----------------------------------------------------------------------------
SessionTypeOK ==
  /\ jar \in Visits /\ alive \in BOOLEAN
  /\ crumb \in [Fetchers -> Visits \union {None}]
  /\ fetch \in [Fetchers -> {"idle"} \union Running \union Ended]
  /\ disturbed \in [Fetchers -> BOOLEAN]

\* A fetch is refused twice only if, after it asked for cookies again, another
\* fetcher's visit replaced them or the server let them expire: one repetition
\* is enough against a crumb that is merely out of date.
DeniedOnlyIfDisturbed == \A f \in Fetchers : fetch[f] = "denied" => disturbed[f]
=============================================================================
