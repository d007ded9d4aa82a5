------------------------- MODULE MarketRefresh_proofs -------------------------
(***************************************************************************)
(* Proofs about MarketRefresh for any portfolios, answers of Yahoo and     *)
(* points in time: what the shared session does to a fetch, and that what  *)
(* is shown is of one reading and adds up.                                 *)
(***************************************************************************)
EXTENDS MarketRefresh, Sums_proofs

----------------------------------------------------------------------------
(* The session *)

\* A fetch that nobody disturbed since it asked for cookies again finds those
\* honoured, and its second crumb goes with them.
Undisturbed ==
  \A f \in Fetchers :
    ~disturbed[f] => /\ fetch[f] \in {"crumb again", "retry"} => alive
                     /\ fetch[f] = "retry" => crumb[f] = jar
                     /\ fetch[f] # "denied"

SessionInv == SessionTypeOK /\ Undisturbed

LEMMA SessionInitInv == SessionInit => SessionInv
<1> SUFFICES ASSUME SessionInit PROVE SessionTypeOK /\ Undisturbed
  BY DEF SessionInv
<1>1. SessionTypeOK
  <2>1. jar \in Visits /\ alive \in BOOLEAN
    <3>1. 0 \in Visits
      BY MaxVisitsAssumption DEF Visits
    <3> QED
      BY <3>1, Zenon DEF SessionInit
  <2>2. crumb \in [Fetchers -> Visits \union {None}]
    BY DEF SessionInit
  <2>3. fetch \in [Fetchers -> {"idle"} \union Running \union Ended]
    BY DEF SessionInit
  <2>4. disturbed \in [Fetchers -> BOOLEAN]
    BY DEF SessionInit
  <2> QED
    BY <2>1, <2>2, <2>3, <2>4 DEF SessionTypeOK
<1>2. Undisturbed
  BY DEF SessionInit, Undisturbed
<1> QED
  BY <1>1, <1>2

\* Each step of the session, and what the callers of a fetch do to it.
SessionStep ==
  \/ SessionNext
  \/ \E f \in Fetchers : fetch[f] # "denied" /\ Ask(f)
  \/ \E f \in Fetchers : Took(f) \/ TookAndDropped(f)
  \/ UNCHANGED session

\* A visit that is allowed is one more.
LEMMA AnotherVisit == \A j \in Visits : j < MaxVisits => j + 1 \in Visits
BY MaxVisitsAssumption DEF Visits

LEMMA SessionTypeNext == SessionTypeOK /\ SessionStep => SessionTypeOK'
<1> SUFFICES ASSUME SessionTypeOK, SessionStep PROVE SessionTypeOK'
  OBVIOUS
<1> USE DEF SessionTypeOK, Visits, Running, Ended
<1>1. ASSUME NEW f \in Fetchers, Cookie(f) PROVE SessionTypeOK'
  <2>1. jar' \in Visits /\ crumb' = crumb
    <3>1. crumb' = crumb /\ ((jar' = jar + 1 /\ jar < MaxVisits) \/ jar' = jar)
      BY <1>1, Zenon DEF Cookie
    <3>2. \A j \in Visits : j < MaxVisits => j + 1 \in Visits
      BY AnotherVisit
    <3>3. jar \in Visits
      BY Zenon
    <3> QED
      BY <3>1, <3>2, <3>3, Zenon
  <2>a. alive' \in BOOLEAN
    <3>1. alive' = TRUE \/ alive' = alive
      BY <1>1 DEF Cookie
    <3> QED
      BY <3>1, Zenon
  <2>2. fetch' \in [Fetchers -> {"idle"} \union Running \union Ended]
    BY <1>1 DEF Cookie, Goes
  <2>3. disturbed' \in [Fetchers -> BOOLEAN]
    <3>1. [g \in Fetchers |-> g # f /\ (g \in Again \/ disturbed[g])] \in [Fetchers -> BOOLEAN]
      OBVIOUS
    <3> QED
      BY <1>1, <3>1 DEF Cookie
  <2> QED
    BY <2>1, <2>a, <2>2, <2>3
<1>2. ASSUME NEW f \in Fetchers, Crumb(f) PROVE SessionTypeOK'
  BY <1>2 DEF Crumb, Goes
<1>3. ASSUME NEW f \in Fetchers, Request(f) PROVE SessionTypeOK'
  BY <1>3 DEF Request, Goes
<1>4. ASSUME NEW f \in Fetchers, Retry(f) PROVE SessionTypeOK'
  BY <1>4 DEF Retry, Goes
<1>5. ASSUME NEW f \in Fetchers, Breaks(f) PROVE SessionTypeOK'
  BY <1>5 DEF Breaks, Goes
<1>6. CASE Expire
  BY <1>6 DEF Expire, Again
<1>7. ASSUME NEW f \in Fetchers, Ask(f) PROVE SessionTypeOK'
  BY <1>7 DEF Ask
<1>8. ASSUME NEW f \in Fetchers, Took(f) PROVE SessionTypeOK'
  BY <1>8 DEF Took
<1>9. ASSUME NEW f \in Fetchers, TookAndDropped(f) PROVE SessionTypeOK'
  BY <1>9 DEF TookAndDropped
<1>10. CASE UNCHANGED session
  BY <1>10 DEF session
<1> QED
  BY <1>1, <1>2, <1>3, <1>4, <1>5, <1>6, <1>7, <1>8, <1>9, <1>10 DEF SessionStep, SessionNext

LEMMA SessionNextInv == SessionInv /\ SessionStep => SessionInv'
<1> SUFFICES ASSUME SessionInv, SessionStep PROVE Undisturbed'
  BY SessionTypeNext DEF SessionInv
<1> USE DEF Undisturbed
<1>0. SessionTypeOK /\ Undisturbed /\ SessionTypeOK'
  BY SessionTypeNext DEF SessionInv
<1>1. ASSUME NEW f \in Fetchers, Cookie(f) PROVE Undisturbed'
  <2> SUFFICES ASSUME NEW g \in Fetchers, ~disturbed'[g]
               PROVE  /\ fetch'[g] \in {"crumb again", "retry"} => alive'
                      /\ fetch'[g] = "retry" => crumb'[g] = jar'
                      /\ fetch'[g] # "denied"
    OBVIOUS
  <2>1. /\ crumb' = crumb /\ (g # f => fetch'[g] = fetch[g])
        /\ fetch'[f] \in {"crumb", "crumb again"}
    BY <1>0, <1>1 DEF Cookie, Goes, SessionTypeOK
  <2>a. alive'
    <3>1. CASE alive' = TRUE
      BY <3>1, Zenon
    <3>2. CASE alive /\ alive' = alive
      BY <3>2, Zenon
    <3> QED
      BY <1>1, <3>1, <3>2, Zenon DEF Cookie
  <2>2. CASE g = f
    BY <2>1, <2>a, <2>2
  <2>3. CASE g # f /\ jar' = jar /\ disturbed' = disturbed /\ alive' = alive
    BY <1>0, <2>1, <2>3
  <2>4. CASE g # f /\ disturbed' = [h \in Fetchers |-> h # f /\ (h \in Again \/ disturbed[h])]
    <3>1. g \notin Again /\ ~disturbed[g]
      BY <2>4
    <3>2. fetch[g] \notin {"crumb again", "retry"} /\ fetch[g] # "denied"
      BY <1>0, <3>1 DEF Again
    <3> QED
      BY <2>1, <2>a, <2>4, <3>2
  <2> QED
    BY <1>1, <2>2, <2>3, <2>4 DEF Cookie
<1>2. ASSUME NEW f \in Fetchers, Crumb(f) PROVE Undisturbed'
  BY <1>0, <1>2 DEF Crumb, Goes, SessionTypeOK
<1>3. ASSUME NEW f \in Fetchers, Request(f) PROVE Undisturbed'
  BY <1>0, <1>3 DEF Request, Goes, SessionTypeOK
<1>4. ASSUME NEW f \in Fetchers, Retry(f) PROVE Undisturbed'
  BY <1>0, <1>4 DEF Retry, Goes, Accepted, SessionTypeOK
<1>5. ASSUME NEW f \in Fetchers, Breaks(f) PROVE Undisturbed'
  BY <1>0, <1>5 DEF Breaks, Goes, SessionTypeOK
<1>6. CASE Expire
  <2> SUFFICES ASSUME NEW g \in Fetchers, ~disturbed'[g]
               PROVE  fetch'[g] \notin {"crumb again", "retry", "denied"}
    OBVIOUS
  <2>1. g \notin Again /\ ~disturbed[g] /\ fetch' = fetch
    BY <1>6 DEF Expire
  <2> QED
    BY <1>0, <2>1 DEF Again
<1>7. ASSUME NEW f \in Fetchers, Ask(f) PROVE Undisturbed'
  BY <1>0, <1>7 DEF Ask, SessionTypeOK
<1>8. ASSUME NEW f \in Fetchers, Took(f) PROVE Undisturbed'
  BY <1>0, <1>8 DEF Took, SessionTypeOK
<1>9. ASSUME NEW f \in Fetchers, TookAndDropped(f) PROVE Undisturbed'
  BY <1>0, <1>9 DEF TookAndDropped, SessionTypeOK
<1>10. CASE UNCHANGED session
  BY <1>0, <1>10 DEF session
<1> QED
  BY <1>1, <1>2, <1>3, <1>4, <1>5, <1>6, <1>7, <1>8, <1>9, <1>10 DEF SessionStep, SessionNext

\* Refreshes and searches use the session so and no other way.
LEMMA NextIsSessionStep == [Next]_vars => SessionStep
<1> SUFFICES ASSUME [Next]_vars PROVE SessionStep
  OBVIOUS
<1> USE FetchersAssumption DEF SessionStep
<1>1. CASE Edit
  BY <1>1 DEF Edit
<1>2. CASE Begin
  BY <1>2 DEF Begin
<1>3. CASE FetchFailed
  BY <1>3 DEF FetchFailed
<1>4. CASE TakeQuotes
  BY <1>4 DEF TakeQuotes
<1>5. CASE TakeRates
  BY <1>5 DEF TakeRates
<1>6. CASE NeedsNoRates
  BY <1>6 DEF NeedsNoRates
<1>7. CASE StartSearch
  BY <1>7 DEF StartSearch
<1>8. CASE EndSearch
  BY <1>8 DEF EndSearch
<1>9. CASE SessionNext
  BY <1>9
<1>10. CASE UNCHANGED vars
  BY <1>10 DEF vars
<1> QED
  BY <1>1, <1>2, <1>3, <1>4, <1>5, <1>6, <1>7, <1>8, <1>9, <1>10 DEF Next

\* A fetch is refused twice only if another fetcher's visit or the server's
\* expiry came in between (yahoo_auth.py:95-112).
THEOREM DeniedIfDisturbed == Spec => []DeniedOnlyIfDisturbed
<1>1. Init => SessionInv
  BY SessionInitInv DEF Init
<1>2. SessionInv /\ [Next]_vars => SessionInv'
  BY SessionNextInv, NextIsSessionStep
<1>3. SessionInv => DeniedOnlyIfDisturbed
  BY DEF SessionInv, Undisturbed, DeniedOnlyIfDisturbed
<1> QED
  BY <1>1, <1>2, <1>3, PTL DEF Spec

----------------------------------------------------------------------------
(* Types *)

\* What a refresh computes is told apart from nothing.
LEMMA ResultIsData ==
  ASSUME NEW p, NEW q, NEW r, NEW o, NEW n
  PROVE  Result(p, q, r, o, n) # NoData
<1> DEFINE res == Result(p, q, r, o, n)
<1>1. "fx_rates" \in DOMAIN res
  BY DEF Result
<1>2. DOMAIN NoData = {}
  BY DEF NoData
<1> QED
  BY <1>1, <1>2

\* Files, stages and what a refresh has read.
Stages ==
  /\ files \in Portfolios /\ latest \in Portfolios \union {None}
  /\ stage \in {"idle", "quotes", "rates", "compute"}
  /\ IF stage = "idle" THEN reading = None /\ quotes = NoQuotes ELSE reading \in Portfolios

Flags ==
  /\ lastOk \in BOOLEAN /\ lastError \in BOOLEAN
  /\ lastOk = TRUE => data # NoData

\* Who fetches, and what for.
Fetching ==
  /\ fetch[Coordinator] # "idle" <=> stage \in {"quotes", "rates"}
  /\ fetch[Search] # "idle" <=> search # << >>

Listed == found # None => \A q \in found : q.exchange

\* The type invariant is the conjunction of these.
LEMMA TypeParts == TypeOK <=> SessionTypeOK /\ Stages /\ Flags /\ Fetching /\ Listed
<1>1. TypeOK => Flags
  BY Zenon DEF TypeOK, Flags
<1>2. Flags => (lastOk \in BOOLEAN /\ lastError \in BOOLEAN /\ (lastOk => data # NoData))
  BY Zenon DEF Flags
<1> QED
  BY <1>1, <1>2, Zenon DEF TypeOK, Stages, Fetching, Listed

LEMMA StagesNext == Stages /\ [Next]_vars => Stages'
<1> SUFFICES ASSUME Stages, [Next]_vars PROVE Stages'
  OBVIOUS
<1> USE DEF Stages
<1>1. CASE Edit
  BY <1>1 DEF Edit, refreshVars, shownVars
<1>2. CASE Begin
  BY <1>2 DEF Begin, shownVars
<1>3. CASE FetchFailed
  BY <1>3 DEF FetchFailed, Fails
<1>4. CASE TakeQuotes
  <2>1. CASE Fails /\ UNCHANGED files
    BY <2>1 DEF Fails
  <2>2. CASE /\ stage = "quotes" /\ stage' \in {"compute", "rates"}
             /\ UNCHANGED <<files, reading, shownVars>>
    BY <2>2 DEF shownVars
  <2> QED
    BY <1>4, <2>1, <2>2 DEF TakeQuotes
<1>5. ASSUME NEW r, stage # "idle", Finish(r) PROVE Stages'
  BY <1>5 DEF Finish
<1>6. CASE TakeRates
  BY <1>5, <1>6 DEF TakeRates
<1>7. CASE NeedsNoRates
  BY <1>5, <1>7 DEF NeedsNoRates
<1>8. CASE StartSearch
  BY <1>8 DEF StartSearch, refreshVars, shownVars
<1>9. CASE EndSearch
  BY <1>9 DEF EndSearch, refreshVars, shownVars
<1>10. CASE SessionNext /\ UNCHANGED <<files, refreshVars, shownVars, searchVars, around>>
  BY <1>10 DEF refreshVars, shownVars
<1>11. CASE UNCHANGED vars
  BY <1>11 DEF vars, refreshVars, shownVars
<1> QED
  BY <1>1, <1>2, <1>3, <1>4, <1>6, <1>7, <1>8, <1>9, <1>10, <1>11 DEF Next

LEMMA FlagsNext == Flags /\ [Next]_vars => Flags'
<1> SUFFICES ASSUME Flags, [Next]_vars PROVE Flags'
  OBVIOUS
<1>0. CASE UNCHANGED <<lastOk, lastError, data>>
  BY <1>0 DEF Flags
<1>1. CASE Fails
  BY <1>1, Zenon DEF Fails, Flags
<1>2. ASSUME NEW r, Finish(r) PROVE Flags'
  <2>1. lastError' = FALSE
    BY <1>2 DEF Finish
  <2>2. CASE Compute(r) /\ lastOk' = TRUE
    <3>1. data' # NoData
      BY <2>2, ResultIsData DEF Compute
    <3> QED
      BY <2>1, <2>2, <3>1 DEF Flags
  <2>3. CASE lastOk' = FALSE
    BY <2>1, <2>3 DEF Flags
  <2> QED
    BY <1>2, <2>2, <2>3 DEF Finish
<1>3. CASE Edit \/ Begin \/ StartSearch \/ EndSearch
  BY <1>0, <1>3 DEF Edit, Begin, StartSearch, EndSearch, shownVars
<1>4. CASE FetchFailed
  BY <1>1, <1>4 DEF FetchFailed
<1>5. CASE TakeQuotes
  BY <1>0, <1>1, <1>5 DEF TakeQuotes, shownVars
<1>6. CASE TakeRates
  BY <1>2, <1>6 DEF TakeRates
<1>7. CASE NeedsNoRates
  BY <1>2, <1>7 DEF NeedsNoRates
<1>8. CASE UNCHANGED <<files, refreshVars, shownVars, searchVars, around>>
  BY <1>0, <1>8 DEF shownVars
<1>9. CASE UNCHANGED vars
  BY <1>8, <1>9 DEF vars
<1> QED
  BY <1>3, <1>4, <1>5, <1>6, <1>7, <1>8, <1>9 DEF Next

LEMMA FetchingNext == SessionTypeOK /\ Stages /\ Fetching /\ [Next]_vars => Fetching'
<1> SUFFICES ASSUME SessionTypeOK, Stages, Fetching, [Next]_vars PROVE Fetching'
  OBVIOUS
<1>0. fetch \in [Fetchers -> {"idle"} \union Running \union Ended]
      /\ Coordinator \in Fetchers /\ Search \in Fetchers /\ Coordinator # Search
  BY FetchersAssumption DEF SessionTypeOK
<1> USE DEF Fetching
<1>1. CASE Edit
  BY <1>1 DEF Edit, session, refreshVars, searchVars
<1>2. CASE Begin
  BY <1>0, <1>2 DEF Begin, Ask, session, searchVars
<1>3. CASE FetchFailed
  BY <1>0, <1>3 DEF FetchFailed, Took, Fails, searchVars
<1>4. CASE TakeQuotes
  <2>1. UNCHANGED search
    BY <1>4 DEF TakeQuotes, searchVars
  <2>2. CASE Took(Coordinator) /\ Fails
    BY <1>0, <2>1, <2>2 DEF Took, Fails
  <2>3. CASE Took(Coordinator) /\ stage' = "compute"
    BY <1>0, <2>1, <2>3 DEF Took
  <2>4. CASE Ask(Coordinator) /\ stage' = "rates"
    BY <1>0, <2>1, <2>4 DEF Ask
  <2> QED
    BY <1>4, <2>2, <2>3, <2>4 DEF TakeQuotes
<1>5. CASE TakeRates
  BY <1>0, <1>5 DEF TakeRates, Took, Finish, searchVars
<1>6. CASE NeedsNoRates
  BY <1>6 DEF NeedsNoRates, Finish, session, searchVars
<1>7. CASE StartSearch
  BY <1>0, <1>7 DEF StartSearch, Ask, session, refreshVars
<1>8. CASE EndSearch
  BY <1>0, <1>8 DEF EndSearch, TookAndDropped, refreshVars
<1>9. CASE SessionNext /\ UNCHANGED <<files, refreshVars, shownVars, searchVars, around>>
  <2>1. stage' = stage /\ search' = search
    BY <1>9 DEF refreshVars, searchVars
  <2>2. \A f \in Fetchers : fetch'[f] = "idle" <=> fetch[f] = "idle"
    <3>1. CASE Expire
      BY <3>1 DEF Expire
    <3>2. ASSUME NEW g \in Fetchers, NEW to, to # "idle", fetch[g] # "idle", Goes(g, to)
          PROVE  \A f \in Fetchers : fetch'[f] = "idle" <=> fetch[f] = "idle"
      BY <1>0, <3>2 DEF Goes
    <3>3. ASSUME NEW g \in Fetchers, Cookie(g) \/ Crumb(g) \/ Request(g) \/ Retry(g) \/ Breaks(g)
          PROVE  \A f \in Fetchers : fetch'[f] = "idle" <=> fetch[f] = "idle"
      BY <3>2, <3>3 DEF Cookie, Crumb, Request, Retry, Breaks, Running
    <3> QED
      BY <1>9, <3>1, <3>3 DEF SessionNext
  <2> QED
    BY <1>0, <2>1, <2>2
<1>10. CASE UNCHANGED vars
  BY <1>10 DEF vars, session, refreshVars, searchVars
<1> QED
  BY <1>1, <1>2, <1>3, <1>4, <1>5, <1>6, <1>7, <1>8, <1>9, <1>10 DEF Next

LEMMA ListedNext == Listed /\ [Next]_vars => Listed'
<1> SUFFICES ASSUME Listed, [Next]_vars PROVE Listed'
  OBVIOUS
<1>1. CASE UNCHANGED found
  BY <1>1 DEF Listed
<1>2. CASE StartSearch
  BY <1>2 DEF StartSearch, Listed
<1>3. ASSUME NEW priced, ~ListingRaises(search, priced), found' = Listing(search, priced)
      PROVE  Listed'
  BY <1>3, Zenon DEF ListingRaises, Listing, Listed
<1>4. CASE EndSearch
  BY <1>1, <1>3, <1>4 DEF EndSearch
<1>5. CASE Edit \/ Begin \/ FetchFailed \/ TakeQuotes \/ NeedsNoRates \/ TakeRates
  BY <1>1, <1>5 DEF Edit, Begin, FetchFailed, TakeQuotes, NeedsNoRates, TakeRates, Finish, searchVars
<1>6. CASE UNCHANGED searchVars \/ UNCHANGED vars
  BY <1>1, <1>6 DEF vars, searchVars
<1> QED
  BY <1>2, <1>4, <1>5, <1>6 DEF Next

LEMMA TypeInit == Init => TypeOK
<1> SUFFICES ASSUME Init PROVE TypeOK
  OBVIOUS
<1>1. SessionTypeOK
  BY SessionInitInv DEF Init, SessionInv
<1>2. Stages
  BY DEF Init, Stages
<1>3. Flags
  BY Zenon DEF Init, Flags
<1>4. Fetching
  BY FetchersAssumption DEF Init, SessionInit, Fetching
<1>5. Listed
  BY DEF Init, Listed
<1> QED
  BY <1>1, <1>2, <1>3, <1>4, <1>5, TypeParts

\* The variables have their types, a refresh and a search agree with their
\* fetchers about what is awaited, and nothing is listed that has no exchange.
THEOREM TypeCorrect == Spec => []TypeOK
<1>1. TypeOK /\ [Next]_vars => TypeOK'
  <2> SUFFICES ASSUME TypeOK, [Next]_vars PROVE TypeOK'
    OBVIOUS
  <2>1. SessionTypeOK /\ Stages /\ Flags /\ Fetching /\ Listed
    BY TypeParts
  <2>2. SessionTypeOK' /\ Stages' /\ Flags' /\ Fetching' /\ Listed'
    BY <2>1, NextIsSessionStep, SessionTypeNext, StagesNext, FlagsNext, FetchingNext, ListedNext
  <2> QED
    BY <2>2 DEF TypeOK, Stages, Flags, Fetching, Listed
<1> QED
  BY TypeInit, <1>1, PTL DEF Spec

----------------------------------------------------------------------------
(* What the data is made of *)

\* Prices and rates with which the engine can compute.
ValidQuotes(q) == \A s \in DOMAIN q : q[s].price \in Nat /\ q[s].change \in Int
ValidRates(r)  == \A c \in DOMAIN r : r[c] \in Nat \ {0}

\* The data is what the engine makes of one portfolio, valid quotes and rates.
MadeOf(p) ==
  \E q, r : /\ ValidQuotes(q) /\ ValidRates(r)
            /\ data = Result(p, q, r, around.other, around.now)

\* The inductive invariant: a refresh holds valid quotes, and the data is made
\* of one portfolio, which is the one read last if the last refresh succeeded.
DataInv ==
  /\ Stages
  /\ ValidQuotes(quotes)
  /\ around \in Surroundings
  /\ data # NoData => \E p \in Portfolios :
                        /\ MadeOf(p)
                        /\ lastOk = TRUE => latest = p /\ lastError = FALSE
  /\ lastOk = TRUE => data # NoData

\* Without an answer there is nothing invalid.
LEMMA NoQuotesValid == ValidQuotes(NoQuotes) /\ ValidRates(NoRates)
BY DEF ValidQuotes, ValidRates, NoQuotes, NoRates

\* A valid answer gives valid quotes, and valid rates.
LEMMA QuotesValid ==
  ASSUME NEW answer, ValidAnswer(answer)
  PROVE  ValidQuotes(Quotes(answer))
BY DEF ValidAnswer, ValidQuotes, Quotes

LEMMA RatesValid ==
  ASSUME NEW base, NEW answer, ValidAnswer(answer)
  PROVE  ValidRates(Rates(base, answer))
BY DEF ValidAnswer, ValidRates, Rates

LEMMA DataInit == Init => DataInv
<1> SUFFICES ASSUME Init PROVE DataInv
  OBVIOUS
<1>1. Stages
  BY DEF Init, Stages
<1>2. lastOk # TRUE
  BY Zenon DEF Init
<1> QED
  BY <1>1, <1>2, NoQuotesValid DEF Init, DataInv

LEMMA DataNext == DataInv /\ [Next]_vars => DataInv'
<1> SUFFICES ASSUME DataInv, [Next]_vars PROVE DataInv'
  OBVIOUS
<1>0. Stages /\ Stages'
  BY StagesNext DEF DataInv
<1>1. CASE UNCHANGED <<quotes, shownVars, around>>
  BY <1>0, <1>1 DEF DataInv, shownVars, MadeOf
<1>2. CASE ValidQuotes(quotes') /\ UNCHANGED <<shownVars, around>>
  BY <1>0, <1>2 DEF DataInv, shownVars, MadeOf
<1>3. CASE Fails /\ UNCHANGED around
  <2>1. lastOk' # TRUE /\ quotes' = NoQuotes /\ data' = data
    BY <1>3, Zenon DEF Fails
  <2>2. \A p : MadeOf(p) => MadeOf(p)'
    BY <1>3, <2>1 DEF MadeOf
  <2> QED
    BY <1>0, <1>3, <2>1, <2>2, NoQuotesValid DEF DataInv
<1>4. ASSUME NEW r, ValidRates(r), stage # "idle", Finish(r) PROVE DataInv'
  <2>1. quotes' = NoQuotes /\ around' = around /\ lastError' = FALSE
    BY <1>4 DEF Finish
  <2>2. CASE Compute(r) /\ lastOk' = TRUE /\ latest' = reading
    <3>1. PICK p \in Portfolios : p = reading
      BY <1>0, <1>4 DEF Stages
    <3>2. MadeOf(p)'
      BY <1>4, <2>1, <2>2, <3>1 DEF DataInv, MadeOf, Compute
    <3>3. data' # NoData
      BY <2>2, ResultIsData DEF Compute
    <3> QED
      BY <1>0, <2>1, <2>2, <3>1, <3>2, <3>3, NoQuotesValid DEF DataInv
  <2>3. CASE UNCHANGED data /\ lastOk' = FALSE
    <3>1. \A p : MadeOf(p) => MadeOf(p)'
      BY <2>1, <2>3 DEF MadeOf
    <3>2. lastOk' # TRUE
      BY <2>3, Zenon
    <3> QED
      BY <1>0, <2>1, <2>3, <3>1, <3>2, NoQuotesValid DEF DataInv
  <2> QED
    BY <1>4, <2>2, <2>3 DEF Finish
<1>5. CASE Edit \/ StartSearch \/ EndSearch
  BY <1>1, <1>5 DEF Edit, StartSearch, EndSearch, refreshVars
<1>6. CASE Begin
  BY <1>2, <1>6, NoQuotesValid DEF Begin
<1>7. CASE FetchFailed
  BY <1>3, <1>7 DEF FetchFailed
<1>8. CASE TakeQuotes
  <2>1. UNCHANGED around /\ reading \in Portfolios
    BY <1>0, <1>8 DEF TakeQuotes, Stages
  <2>2. PICK answer \in QuoteAnswers(Symbols(reading)) :
          \/ Fails
          \/ quotes' = Quotes(answer) /\ UNCHANGED shownVars
    BY <1>8 DEF TakeQuotes
  <2>3. ValidQuotes(Quotes(answer))
    BY <2>1, AnswersAssumption, QuotesValid
  <2> QED
    BY <1>2, <1>3, <2>1, <2>2, <2>3
<1>9. CASE TakeRates
  <2>1. reading \in Portfolios /\ stage # "idle"
    BY <1>0, <1>9 DEF TakeRates, Stages
  <2>2. PICK answer \in QuoteAnswers(Foreign(reading)) : Finish(Rates(reading.base, answer))
    BY <1>9 DEF TakeRates
  <2>3. ValidRates(Rates(reading.base, answer))
    BY <2>1, AnswersAssumption, RatesValid
  <2> QED
    BY <1>4, <2>1, <2>2, <2>3
<1>10. CASE NeedsNoRates
  BY <1>4, <1>10, NoQuotesValid DEF NeedsNoRates
<1>11. CASE UNCHANGED <<files, refreshVars, shownVars, searchVars, around>>
  BY <1>1, <1>11 DEF refreshVars
<1>12. CASE UNCHANGED vars
  BY <1>1, <1>12 DEF vars, refreshVars
<1> QED
  BY <1>5, <1>6, <1>7, <1>8, <1>9, <1>10, <1>11, <1>12 DEF Next

----------------------------------------------------------------------------
(* Positions *)

\* Positions are as many as holdings; their values and costs are numbers that are
\* not negative, and the gain is told from these.
LEMMA PositionsType ==
  ASSUME NEW p \in Portfolios, NEW q, NEW r, ValidQuotes(q), ValidRates(r)
  PROVE  LET ps == Positions(p, q, r) IN
         /\ Len(p.holdings) \in Nat /\ DOMAIN p.holdings = 1 .. Len(p.holdings)
         /\ DOMAIN ps = 1 .. Len(p.holdings) /\ Len(ps) = Len(p.holdings)
         /\ IsFiniteSet(DOMAIN ps)
         /\ \A i \in DOMAIN ps : /\ ps[i] = Position(p.holdings[i], p.base, q, r)
                                 /\ ps[i].value \in Nat /\ ps[i].cost \in Nat
                                 /\ ps[i].gain = <<ps[i].value - ps[i].cost, ps[i].cost>>
<1> DEFINE ps == Positions(p, q, r)
           n == Len(p.holdings)
<1>1. ValidPortfolio(p)
  BY PortfoliosAssumption
<1>2. n \in Nat /\ DOMAIN p.holdings = 1 .. n
  BY <1>1 DEF ValidPortfolio
<1>3. DOMAIN ps = 1 .. n /\ \A i \in 1 .. n : ps[i] = Position(p.holdings[i], p.base, q, r)
  BY <1>2 DEF Positions
<1>4. ps \in Seq({ps[i] : i \in 1 .. n})
  BY <1>2 DEF Positions
<1>5. Len(ps) = n
  <2>1. DOMAIN ps = 1 .. Len(ps) /\ Len(ps) \in Nat
    BY <1>4
  <2> QED
    BY <1>2, <1>3, <2>1
<1>6. ASSUME NEW i \in 1 .. n
      PROVE  /\ ps[i].value \in Nat /\ ps[i].cost \in Nat
             /\ ps[i].gain = <<ps[i].value - ps[i].cost, ps[i].cost>>
  <2> DEFINE h == p.holdings[i]
             rate == IF h.currency # p.base /\ h.currency \in DOMAIN r THEN r[h.currency] ELSE 1
             price == q[h.symbol].price
  <2>1. h.shares \in Nat /\ h.avgPrice \in Nat
    BY <1>1, <1>2 DEF ValidPortfolio
  <2>2. rate \in Nat
    BY DEF ValidRates
  <2>3. h.symbol \in DOMAIN q => price \in Nat
    BY DEF ValidQuotes
  <2>a. ps[i] = Position(h, p.base, q, r)
    BY <1>3
  <2> HIDE DEF ps
  <2>4. /\ ps[i].value = IF h.symbol \in DOMAIN q THEN price * h.shares * rate ELSE 0
        /\ ps[i].cost = h.avgPrice * h.shares * rate
    BY <2>a DEF Position
  <2>b. ps[i].gain = <<ps[i].value - ps[i].cost, ps[i].cost>>
    BY <2>a DEF Position
  <2> HIDE DEF h, rate, price
  <2>5. h.avgPrice * h.shares * rate \in Nat
    BY <2>1, <2>2
  <2>6. h.symbol \in DOMAIN q => price * h.shares * rate \in Nat
    BY <2>1, <2>2, <2>3
  <2> QED
    BY <2>4, <2>b, <2>5, <2>6
<1>7. IsFiniteSet(DOMAIN ps)
  BY <1>2, <1>3, FS_Interval
<1> HIDE DEF ps
<1>8. /\ n \in Nat /\ DOMAIN p.holdings = 1 .. n
      /\ DOMAIN ps = 1 .. n /\ Len(ps) = n
      /\ \A i \in DOMAIN ps : /\ ps[i] = Position(p.holdings[i], p.base, q, r)
                              /\ ps[i].value \in Nat /\ ps[i].cost \in Nat
                              /\ ps[i].gain = <<ps[i].value - ps[i].cost, ps[i].cost>>
  BY <1>2, <1>3, <1>5, <1>6
<1> QED
  BY <1>7, <1>8 DEF ps

\* So are the totals.
LEMMA ValueType ==
  ASSUME NEW p \in Portfolios, NEW q, NEW r, ValidQuotes(q), ValidRates(r)
  PROVE  LET ps == Positions(p, q, r) IN Value(ps) \in Nat /\ Cost(ps) \in Nat
<1> DEFINE ps == Positions(p, q, r)
           cost == [i \in DOMAIN ps |-> ps[i].cost]
<1>1. IsFiniteSet(DOMAIN ps) /\ \A i \in DOMAIN ps : ps[i].value \in Nat /\ ps[i].cost \in Nat
  BY PositionsType
<1>2. DOMAIN Values(ps) = DOMAIN ps /\ \A i \in DOMAIN ps : Values(ps)[i] \in Nat
  BY <1>1 DEF Values
<1>3. DOMAIN cost = DOMAIN ps /\ \A i \in DOMAIN ps : cost[i] \in Nat
  BY <1>1
<1>4. SumOn(Values(ps), DOMAIN ps) \in Nat /\ SumOn(cost, DOMAIN ps) \in Nat
  <2> HIDE DEF cost, ps
  <2> QED
    BY <1>1, <1>2, <1>3, SumNat
<1> QED
  BY <1>2, <1>3, <1>4 DEF Value, Cost, Sum

\* A converted amount has a rate that was quoted, or its currency is listed as
\* missing; a position has a quote, which is 0 if the answer mentions it without
\* a price, or its symbol is listed (portfolio_engine.py:43-60).
THEOREM ParIsFlagged == Spec => []AtParIsFlagged
<1>1. DataInv => AtParIsFlagged
  <2> SUFFICES ASSUME DataInv, data # NoData,
                      NEW i \in DOMAIN get_positions_attributes(data).positions
               PROVE  LET shown == get_positions_attributes(data)
                          pos == shown.positions[i]
                      IN  /\ pos.quoted \/ pos.holding.symbol \in shown.symbols_missing_quotes
                          /\ \/ pos.holding.currency = shown.base_currency /\ pos.rate = 1
                             \/ pos.holding.currency \in shown.fx_rates_missing /\ pos.rate = 1
                             \/ /\ pos.holding.currency \in DOMAIN data.fx_rates
                                /\ pos.rate = data.fx_rates[pos.holding.currency] /\ pos.rate > 0
    BY DEF AtParIsFlagged
  <2>0. PICK p \in Portfolios : MadeOf(p)
    BY DEF DataInv
  <2>1. PICK q, r : /\ ValidQuotes(q) /\ ValidRates(r)
                    /\ data = Result(p, q, r, around.other, around.now)
    BY <2>0 DEF MadeOf
  <2> DEFINE ps == Positions(p, q, r)
             h == p.holdings[i]
  <2>2. /\ get_positions_attributes(data).positions = ps
        /\ get_positions_attributes(data).symbols_missing_quotes = Symbols(p) \ DOMAIN q
        /\ get_positions_attributes(data).base_currency = p.base
        /\ get_positions_attributes(data).fx_rates_missing = Foreign(p) \ DOMAIN r
        /\ data.fx_rates = r
    BY <2>1 DEF Result, get_positions_attributes
  <2>3. i \in DOMAIN p.holdings /\ ps[i] = Position(h, p.base, q, r)
    BY <2>1, <2>2, PositionsType
  <2>4. /\ ps[i].holding = h /\ ps[i].quoted = (h.symbol \in DOMAIN q)
        /\ ps[i].rate = IF h.currency # p.base /\ h.currency \in DOMAIN r THEN r[h.currency] ELSE 1
    BY <2>3 DEF Position
  <2>5. h.symbol \in Symbols(p) /\ (h.currency # p.base => h.currency \in Foreign(p))
    BY <2>3 DEF Symbols, Foreign
  <2>6. h.currency \in DOMAIN r => r[h.currency] > 0
    BY <2>1 DEF ValidRates
  <2> HIDE DEF ps, h
  <2>7. ps[i].quoted \/ h.symbol \in Symbols(p) \ DOMAIN q
    BY <2>4, <2>5, Zenon
  <2> QED
    BY <2>2, <2>4, <2>5, <2>6, <2>7
<1> QED
  BY DataInit, DataNext, <1>1, PTL DEF Spec

Shown == Entities(data)

\* All that is shown is of the portfolio that the refresh which ended last had
\* read, and its amounts go together (update_logic.py:78-123).
THEOREM ShownIsOneReading == Spec => []ShownFromOneReading
<1>1. DataInv => ShownFromOneReading
  <2> SUFFICES ASSUME DataInv, lastOk = TRUE
               PROVE  /\ latest # None
                      /\ Shown.positions.value = Len(latest.holdings)
                      /\ Shown.transaction_count.value = Len(latest.log)
                      /\ Shown.cash_balance.value = latest.cash
                      /\ \A e \in {"portfolio_value", "total_invested", "total_profit", "cash_balance",
                                  "dividend_income"} : Shown[e].unit = latest.base
                      /\ Shown.portfolio_value.value =
                           Shown.total_invested.value + Shown.total_profit.value + Shown.cash_balance.value
                      /\ Shown.positions.attributes.symbols_missing_quotes \subseteq Symbols(latest)
                      /\ Diagnostics(data, lastOk, lastError).transactions.count = Len(latest.log)
                      /\ ~lastError
    BY Zenon DEF ShownFromOneReading, Shown
  <2>1. PICK p \in Portfolios :
          MadeOf(p) /\ latest = p /\ lastError = FALSE
    BY DEF DataInv
  <2>2. PICK q, r : /\ ValidQuotes(q) /\ ValidRates(r)
                    /\ data = Result(p, q, r, around.other, around.now)
    BY <2>1 DEF MadeOf
  <2> DEFINE ps == Positions(p, q, r)
  <2>3. Len(ps) = Len(p.holdings) /\ Value(ps) \in Nat /\ Cost(ps) \in Nat /\ p.cash \in Nat
    BY <2>2, PositionsType, ValueType, PortfoliosAssumption DEF ValidPortfolio
  <2>4. /\ data.positions = ps /\ data.base_currency = p.base
        /\ data.symbols_missing_quotes = Symbols(p) \ DOMAIN q
        /\ data.portfolio_transactions = p.log
        /\ data.transactions.count = Len(p.log)
        /\ data.summary = Summary(p, ps)
    BY <2>2 DEF Result, Transactions
  <2> HIDE DEF ps
  <2>5. /\ data.summary.total = Value(ps) + p.cash /\ data.summary.cash = p.cash
        /\ data.summary.invested = Cost(ps) /\ data.summary.profit = Value(ps) - Cost(ps)
    BY <2>4 DEF Summary
  <2>6. latest # None
    BY <2>1, PortfoliosAssumption
  <2>7. /\ Shown.positions.value = Len(data.positions)
        /\ Shown.positions.attributes.symbols_missing_quotes = data.symbols_missing_quotes
    BY DEF Shown, Entities, PortfolioPositionsSensor, Entity, get_positions_count,
           get_positions_attributes
  <2>8. Shown.transaction_count.value = data.transactions.count
    BY DEF Shown, Entities, PortfolioTransactionCountSensor, Entity, get_transaction_count
  <2>9. /\ Shown.cash_balance = Monetary(data.summary.cash, data)
        /\ Shown.portfolio_value = Monetary(data.summary.total, data)
        /\ Shown.total_invested = Monetary(data.summary.invested, data)
        /\ Shown.total_profit = Monetary(data.summary.profit, data)
    BY DEF Shown, Entities, PortfolioCashBalanceSensor, PortfolioValueSensor,
           PortfolioTotalInvestedSensor, PortfolioTotalProfitSensor, get_cash_balance,
           get_portfolio_value, get_total_invested, get_total_profit
  <2>10. Shown.dividend_income.unit = data.base_currency
    BY DEF Shown, Entities, PortfolioDividendIncomeSensor, Entity
  <2>11. \A v : Monetary(v, data).value = v /\ Monetary(v, data).unit = data.base_currency
    BY DEF Monetary, Entity
  <2>12. Diagnostics(data, lastOk, lastError).transactions.count = Len(data.portfolio_transactions)
    BY DEF Diagnostics, TransactionStatistics
  <2>13. \A e \in {"portfolio_value", "total_invested", "total_profit", "cash_balance",
                   "dividend_income"} : Shown[e].unit = latest.base
    BY <2>1, <2>4, <2>9, <2>10, <2>11
  <2>14. Shown.portfolio_value.value =
           Shown.total_invested.value + Shown.total_profit.value + Shown.cash_balance.value
    BY <2>3, <2>5, <2>9, <2>11
  <2>15. /\ Shown.positions.value = Len(latest.holdings)
         /\ Shown.transaction_count.value = Len(latest.log)
         /\ Shown.cash_balance.value = latest.cash
         /\ Shown.positions.attributes.symbols_missing_quotes \subseteq Symbols(latest)
         /\ Diagnostics(data, lastOk, lastError).transactions.count = Len(latest.log)
    BY <2>1, <2>3, <2>4, <2>5, <2>7, <2>8, <2>9, <2>11, <2>12
  <2>16. ~lastError
    BY <2>1, Zenon
  <2> QED
    BY <2>6, <2>13, <2>14, <2>15, <2>16, Zenon
<1> QED
  BY DataInit, DataNext, <1>1, PTL DEF Spec

\* The year's dividends are among those of the rolling year, and both among
\* those of the lifetime, but for the last day of a leap year and for dividends
\* that are of this year only in their own offset (dividend_calculator.py:32-64).
THEOREM RollingIsWider == Spec => []RollingCoversTheYear
<1>1. DataInv => RollingCoversTheYear
  <2> SUFFICES ASSUME DataInv, data # NoData, data.dividends.status = "ok"
               PROVE  /\ get_dividend_income(data) <= data.dividends.lifetime
                      /\ data.dividends.year <= data.dividends.lifetime
                      /\ \/ data.dividends.year <= get_dividend_income(data)
                         \/ YearOf[around.now - Rolling] = YearOf[around.now]
                         \/ \E i \in DOMAIN data.portfolio_transactions :
                              LET t == data.portfolio_transactions[i] IN
                              t.year = YearOf[around.now] /\ YearOf[t.at] < YearOf[around.now]
    BY DEF RollingCoversTheYear, get_dividend_attributes
  <2>0. PICK p \in Portfolios : MadeOf(p)
    BY DEF DataInv
  <2>1. PICK q, r : data = Result(p, q, r, around.other, around.now)
    BY <2>0 DEF MadeOf
  <2> DEFINE ps == Positions(p, q, r)
             now == around.now
             amount == [i \in DOMAIN p.log |-> p.log[i].amount]
             paid == {i \in DOMAIN p.log : p.log[i].type = "dividend" /\ p.log[i].at <= now}
             rolling == {i \in paid : SinceRollingStart(p.log[i].at, now)}
             year == {i \in paid : p.log[i].year = YearOf[now]}
             eastern == \E i \in DOMAIN p.log : /\ p.log[i].year = YearOf[now]
                                               /\ YearOf[p.log[i].at] < YearOf[now]
  <2>2. data.dividends = Dividends(p, ps, now) /\ data.portfolio_transactions = p.log
    BY <2>1 DEF Result
  <2>3. paid # {}
    BY <2>2 DEF Dividends
  <2>4. /\ data.dividends.rolling = SumOn(amount, rolling)
        /\ data.dividends.lifetime = SumOn(amount, paid)
        /\ data.dividends.year = SumOn(amount, year)
    BY <2>2, <2>3 DEF Dividends
  <2>5. get_dividend_income(data) = SumOn(amount, rolling)
    BY <2>4 DEF get_dividend_income, IfOk
  <2>6. ValidPortfolio(p)
    BY PortfoliosAssumption
  <2>7. IsFiniteSet(paid) /\ IsFiniteSet(rolling)
    <3>1. DOMAIN p.log = 1 .. Len(p.log) /\ Len(p.log) \in Nat
      BY <2>6 DEF ValidPortfolio
    <3>2. IsFiniteSet(DOMAIN p.log)
      BY <3>1, FS_Interval
    <3> QED
      BY <3>2, FS_Subset
  <2>8. \A i \in paid : amount[i] \in Nat
    BY <2>6 DEF ValidPortfolio
  <2>9. YearOf[now - Rolling] # YearOf[now] /\ ~eastern => year \subseteq rolling
    <3> SUFFICES ASSUME YearOf[now - Rolling] # YearOf[now], ~eastern, NEW i \in year
                 PROVE  p.log[i].at > now - Rolling
      BY DEF SinceRollingStart
    <3> DEFINE t == p.log[i].at
    <3>1. t \in DOMAIN YearOf /\ t <= now /\ p.log[i].year = YearOf[now]
      BY <2>6 DEF ValidPortfolio
    <3>2. now \in DOMAIN YearOf /\ now - Rolling \in DOMAIN YearOf
      BY SurroundingsAssumption DEF DataInv
    <3>3. now \in Int /\ t \in Int /\ Rolling \in Nat
      BY <3>1, <3>2, CalendarAssumption
    <3>4. ~(YearOf[t] < YearOf[now])
      BY <3>1
    <3> HIDE DEF t, now
    <3>5. YearOf[t] <= YearOf[now] /\ YearOf[t] \in Int
      BY <3>1, <3>2, CalendarAssumption
    <3>6. YearOf[now - Rolling] <= YearOf[now] /\ YearOf[now] \in Int /\ YearOf[now - Rolling] \in Int
      BY <3>2, <3>3, CalendarAssumption
    <3>7. t <= now - Rolling => YearOf[t] <= YearOf[now - Rolling]
      BY <3>1, <3>2, CalendarAssumption
    <3>8. ~(t <= now - Rolling)
      BY <3>6, <3>7, <3>4, <3>5
    <3> QED
      BY <3>3, <3>8 DEF t
  <2>10. rolling \subseteq paid /\ year \subseteq paid
    OBVIOUS
  <2> HIDE DEF amount, paid, rolling, year, eastern
  <2>11. /\ SumOn(amount, rolling) <= SumOn(amount, paid)
         /\ SumOn(amount, year) <= SumOn(amount, paid)
         /\ YearOf[now - Rolling] # YearOf[now] /\ ~eastern =>
              SumOn(amount, year) <= SumOn(amount, rolling)
    <3>1. \A i \in rolling : amount[i] \in Nat
      BY <2>8, <2>10
    <3> QED
      BY <2>7, <2>8, <2>9, <2>10, <3>1, SumMonotone
  <2> QED
    BY <2>2, <2>4, <2>5, <2>11 DEF eastern
<1> QED
  BY DataInit, DataNext, <1>1, PTL DEF Spec

----------------------------------------------------------------------------
(* Groups *)

\* Of the groups of an allocation the first is one that no other is worth more than.
LEMMA GroupsAreRanked ==
  ASSUME NEW worth, NEW first, NEW total, IsFiniteSet(DOMAIN worth), DOMAIN worth # {},
         \A l \in DOMAIN worth : worth[l] \in Nat /\ first[l] \in Nat
  PROVE  LET groups == Groups(worth, first, total)
             g1 == CHOOSE g \in groups : g.rank = 1
         IN  g1 \in groups /\ \A g \in groups : g.value <= g1.value
<1> DEFINE D == DOMAIN worth
           Ahead(l) == {k \in D : Before(worth, first, k, l)}
           G(l) == [label |-> l, value |-> worth[l], share |-> Share(worth[l], total),
                    rank |-> Cardinality(Ahead(l)) + 1]
           groups == Groups(worth, first, total)
           g1 == CHOOSE g \in groups : g.rank = 1
           R == {e \in D \X D : Before(worth, first, e[1], e[2])}
<1>1. groups = {G(l) : l \in D}
  BY DEF Groups
<1>2. \A l \in D : G(l).rank = 1 <=> Ahead(l) = {}
  <2> TAKE l \in D
  <2>1. IsFiniteSet(Ahead(l)) /\ Cardinality(Ahead(l)) \in Nat
    BY FS_Subset, FS_CardinalityType
  <2>2. Cardinality(Ahead(l)) = 0 <=> Ahead(l) = {}
    BY <2>1, FS_EmptySet
  <2>3. G(l).rank = Cardinality(Ahead(l)) + 1
    OBVIOUS
  <2> HIDE DEF Ahead, G
  <2> QED
    BY <2>1, <2>2, <2>3
<1>3. \E l \in D : Ahead(l) = {}
  <2>1. \A x \in D : <<x, x>> \notin R
    BY DEF Before
  <2>2. \A x, y, z \in D : <<x, y>> \in R /\ <<y, z>> \in R => <<x, z>> \in R
    BY DEF Before
  <2>3. PICK l \in D : \A y \in D : <<y, l>> \notin R
    <3> HIDE DEF R
    <3> QED
      BY <2>1, <2>2, SomeoneIsFirst
  <2> QED
    BY <2>3
<1>4. \E g \in groups : g.rank = 1
  <2> HIDE DEF Ahead
  <2> QED
    BY <1>1, <1>2, <1>3
<1>5. g1 \in groups /\ g1.rank = 1
  <2> HIDE DEF groups
  <2> QED
    BY <1>4
<1>6. PICK l1 \in D : g1 = G(l1)
  <2> HIDE DEF g1
  <2> QED
    BY <1>1, <1>5
<1>7. \A l \in D : ~Before(worth, first, l, l1)
  <2> HIDE DEF g1, G
  <2> QED
    BY <1>2, <1>5, <1>6
<1>8. \A l \in D : worth[l] <= worth[l1]
  BY <1>7 DEF Before
<1>9. \A g \in groups : \E l \in D : g.value = worth[l]
  <2> HIDE DEF Ahead
  <2> QED
    BY <1>1
<1>10. g1.value = worth[l1]
  <2>1. G(l1).value = worth[l1]
    <3> HIDE DEF Ahead
    <3> QED
      OBVIOUS
  <2> HIDE DEF g1, G
  <2> QED
    BY <1>6, <2>1
<1> HIDE DEF g1, groups
<1>11. g1 \in groups /\ \A g \in groups : g.value <= g1.value
  BY <1>5, <1>8, <1>9, <1>10
<1> QED
  BY <1>11 DEF g1, groups

\* The groups of an allocation are worth what their labels are, together.
LEMMA GroupsSum ==
  ASSUME NEW worth, NEW first, NEW total, IsFiniteSet(DOMAIN worth),
         \A l \in DOMAIN worth : worth[l] \in Int
  PROVE  Sum([g \in Groups(worth, first, total) |-> g.value]) = SumOn(worth, DOMAIN worth)
<1> DEFINE D == DOMAIN worth
           h == [l \in D |-> [label |-> l, value |-> worth[l], share |-> Share(worth[l], total),
                              rank |-> Cardinality({k \in D : Before(worth, first, k, l)}) + 1]]
           groups == Groups(worth, first, total)
           f == [g \in groups |-> g.value]
<1>1. groups = {h[l] : l \in D}
  BY DEF Groups
<1>2. \A l \in D : h[l].label = l /\ h[l].value = worth[l]
  OBVIOUS
<1> HIDE DEF h, groups
<1>3. \A l \in D : h[l] \in groups /\ f[h[l]] = worth[l]
  BY <1>1, <1>2
<1>4. \A k, l \in D : h[k] = h[l] => k = l
  BY <1>2
<1> HIDE DEF f
<1>5. SumOn(f, {h[l] : l \in D}) = SumOn([l \in D |-> f[h[l]]], D)
  BY <1>3, <1>4, SumRelabel
<1>6. SumOn([l \in D |-> f[h[l]]], D) = SumOn(worth, D)
  BY <1>3, SumEqual
<1>7. DOMAIN f = groups
  BY DEF f
<1> QED
  BY <1>1, <1>5, <1>6, <1>7 DEF Sum, f, groups

\* The groups of an allocation add up to the value and the cash, and none is
\* larger than the first.
LEMMA AllocationAddsUp ==
  ASSUME NEW p \in Portfolios, NEW q, NEW r, ValidQuotes(q), ValidRates(r)
  PROVE  LET ps == Positions(p, q, r)
             groups == Allocation(p, ps)
             g1 == CHOOSE g \in groups : g.rank = 1
         IN  /\ Sum([g \in groups |-> g.value]) = Value(ps) + p.cash
             /\ \A g \in groups : /\ g.share = <<g.value, Value(ps) + p.cash>> /\ g.value \in Nat
                                  /\ g1 \in groups /\ g.value <= g1.value
<1> DEFINE ps == Positions(p, q, r)
           D == DOMAIN ps
           n == Len(ps)
           labels == GroupLabels(p, ps)
           ofType(l) == {i \in D : ps[i].holding.type = l}
           held == [l \in labels |-> SumOn(Values(ps), ofType(l))]
           money == [l \in labels |-> IF l = "Cash" THEN p.cash ELSE 0]
           worth == [l \in labels |-> SumOn(Values(ps), ofType(l)) + (IF l = "Cash" THEN p.cash ELSE 0)]
           first == [l \in labels |-> Min(ofType(l) \union {n + 1})]
           total == Value(ps) + p.cash
           groups == Allocation(p, ps)
<1>1. groups = Groups(worth, first, total)
  BY DEF Allocation
<1>2. /\ n \in Nat /\ D = 1 .. n /\ IsFiniteSet(D) /\ p.cash \in Nat
      /\ \A i \in D : ps[i].value \in Nat
  BY PositionsType, PortfoliosAssumption DEF ValidPortfolio
<1> HIDE DEF ps
<1>3. DOMAIN Values(ps) = D /\ \A i \in D : Values(ps)[i] \in Nat
  BY <1>2 DEF Values
<1>4. IsFiniteSet(labels)
  <2> DEFINE type == [i \in D |-> ps[i].holding.type]
  <2>1. labels = {type[i] : i \in D} \union (IF p.cash > 0 THEN {"Cash"} ELSE {})
    BY DEF GroupLabels
  <2>2. IsFiniteSet({type[i] : i \in D})
    <3> HIDE DEF type
    <3> QED
      BY <1>2, FiniteImage
  <2>3. IsFiniteSet({"Cash"}) /\ IsFiniteSet({})
    BY FS_Singleton, FS_EmptySet
  <2> HIDE DEF type, labels
  <2> QED
    BY <2>1, <2>2, <2>3, FS_Union
<1>5. ASSUME NEW l \in labels
      PROVE  held[l] \in Nat /\ money[l] \in Nat /\ worth[l] = held[l] + money[l]
  <2>1. IsFiniteSet(ofType(l)) /\ ofType(l) \subseteq D
    BY <1>2, FS_Subset
  <2>2. SumOn(Values(ps), ofType(l)) \in Nat
    <3> HIDE DEF ofType
    <3> QED
      BY <1>3, <2>1, SumNat
  <2> HIDE DEF ofType
  <2> QED
    BY <1>2, <2>2
<1>6. ASSUME NEW l \in labels PROVE first[l] \in Nat
  <2> DEFINE S == ofType(l) \union {n + 1}
             R == {e \in S \X S : e[1] < e[2]}
  <2>1. S \subseteq 1 .. n + 1 /\ S # {}
    BY <1>2
  <2> HIDE DEF S
  <2>2. IsFiniteSet(S)
    <3>1. 1 \in Int /\ n + 1 \in Int
      BY <1>2
    <3>2. IsFiniteSet(1 .. n + 1)
      BY <3>1, FS_Interval
    <3> QED
      BY <2>1, <3>2, FS_Subset
  <2>3. /\ \A x \in S : x \in Nat
        /\ \A x \in S : <<x, x>> \notin R
        /\ \A x, y, z \in S : <<x, y>> \in R /\ <<y, z>> \in R => <<x, z>> \in R
    BY <1>2, <2>1
  <2>4. PICK x \in S : \A y \in S : <<y, x>> \notin R
    <3> HIDE DEF R
    <3> QED
      BY <2>1, <2>2, <2>3, SomeoneIsFirst
  <2>5. \A y \in S : x <= y
    <3> TAKE y \in S
    <3>1. <<y, x>> \in S \X S /\ <<y, x>>[1] = y /\ <<y, x>>[2] = x
      OBVIOUS
    <3>2. ~(y < x)
      BY <2>4, <3>1
    <3> QED
      BY <2>3, <3>2
  <2>6. Min(S) \in S
    BY <2>5 DEF Min
  <2> QED
    BY <2>3, <2>6 DEF S
<1>7. SumOn(worth, labels) = total
  <2>1. SumOn(held, labels) = Value(ps)
    <3> DEFINE key == [i \in D |-> ps[i].holding.type]
    <3>1. \A i \in D : key[i] = ps[i].holding.type /\ key[i] \in labels /\ Values(ps)[i] \in Int
      BY <1>3 DEF GroupLabels
    <3>2. \A l : ofType(l) = {i \in D : key[i] = l}
      BY <3>1
    <3>3. held = [l \in labels |-> SumOn(Values(ps), {i \in D : key[i] = l})]
      BY <3>2
    <3>5. IsFiniteSet(D)
      BY <1>2
    <3>6. \A i \in D : Values(ps)[i] \in Int /\ key[i] \in labels
      BY <3>1
    <3> HIDE DEF key, labels, held, D
    <3>4. SumOn([l \in labels |-> SumOn(Values(ps), {i \in D : key[i] = l})], labels) = SumOn(Values(ps), D)
      BY <1>4, <3>5, <3>6, SumByGroups
    <3> QED
      BY <1>3, <3>3, <3>4 DEF Value, Sum
  <2>2. SumOn(money, labels) = p.cash
    <3>1. CASE p.cash = 0
      <4>1. \A l \in labels : money[l] = 0
        BY <3>1
      <4> HIDE DEF money, labels
      <4> QED
        BY <1>4, <3>1, <4>1, SumZero
    <3>2. CASE p.cash # 0
      <4> DEFINE rest == labels \ {"Cash"}
      <4>1. "Cash" \in labels
        BY <1>2, <3>2 DEF GroupLabels
      <4>2. money["Cash"] = p.cash /\ \A l \in rest : money[l] = 0
        BY <4>1
      <4>3. \A l \in labels : money[l] \in Int
        BY <1>2
      <4>4. IsFiniteSet(rest)
        BY <1>4, FS_RemoveElement
      <4> HIDE DEF money, labels
      <4>5. SumOn(money, labels) = money["Cash"] + SumOn(money, labels \ {"Cash"})
        BY <1>4, <4>1, <4>3, SumRemove
      <4>6. SumOn(money, rest) = 0
        <5> HIDE DEF rest
        <5> QED
          BY <4>2, <4>4, SumZero
      <4> QED
        BY <1>2, <4>2, <4>5, <4>6
    <3> QED
      BY <3>1, <3>2
  <2> HIDE DEF held, money, worth, labels
  <2>3. SumOn(worth, labels) = SumOn(held, labels) + SumOn(money, labels)
    BY <1>4, <1>5, SumPlus
  <2> QED
    BY <2>1, <2>2, <2>3
<1>8. DOMAIN worth = labels /\ \A l \in labels : worth[l] \in Nat
  <2>1. DOMAIN worth = labels
    OBVIOUS
  <2> HIDE DEF held, money, worth, labels
  <2> QED
    BY <1>5, <2>1
<1> HIDE DEF worth, first, labels, total, groups
<1>9. Sum([g \in groups |-> g.value]) = total
  BY <1>1, <1>4, <1>7, <1>8, GroupsSum
<1>10. ASSUME NEW g \in groups
       PROVE  /\ g.share = <<g.value, total>> /\ g.value \in Nat
              /\ (CHOOSE k \in groups : k.rank = 1) \in groups
              /\ g.value <= (CHOOSE k \in groups : k.rank = 1).value
  <2>1. PICK l \in labels :
          g = [label |-> l, value |-> worth[l], share |-> Share(worth[l], total),
               rank |-> Cardinality({k \in labels : Before(worth, first, k, l)}) + 1]
    BY <1>1, <1>8 DEF Groups
  <2>2. g.share = <<g.value, total>> /\ g.value \in Nat
    <3>1. g.value = worth[l] /\ g.share = Share(worth[l], total)
      BY <2>1
    <3> QED
      BY <1>8, <3>1 DEF Share
  <2>3. labels # {}
    BY <2>1
  <2>4. \A k \in labels : worth[k] \in Nat /\ first[k] \in Nat
    BY <1>6, <1>8
  <2> QED
    BY <1>1, <1>4, <1>8, <2>2, <2>3, <2>4, GroupsAreRanked
<1> QED
  BY <1>9, <1>10 DEF groups, total, ps

----------------------------------------------------------------------------
(* Ranks *)

\* A positive factor does not change an order.
LEMMA Factor == \A n \in Nat \ {0} : \A x, y \in Int : n * x > n * y => x > y
<1> SUFFICES ASSUME NEW n \in Nat \ {0}, NEW x \in Int, NEW y \in Int, x <= y
             PROVE  n * x <= n * y
  OBVIOUS
<1>1. PICK d \in Nat : y = x + d
  OBVIOUS
<1>2. n * y = n * x + n * d /\ n * d \in Nat
  BY <1>1
<1> QED
  BY <1>2

\* Of fractions with positive denominators, one between which and another there
\* is a third is compared with one of the two as they are with each other.
LEMMA BetterSplits ==
  ASSUME NEW n1 \in Int, NEW n2 \in Int, NEW n3 \in Int,
         NEW d1 \in Nat \ {0}, NEW d2 \in Nat \ {0}, NEW d3 \in Nat \ {0},
         n1 * d3 > n3 * d1
  PROVE  n1 * d2 > n2 * d1 \/ n2 * d3 > n3 * d2
<1>1. SUFFICES ASSUME n1 * d2 <= n2 * d1, n2 * d3 <= n3 * d2 PROVE FALSE
  OBVIOUS
<1>2. d3 * (n1 * d2) <= d3 * (n2 * d1)
  BY <1>1, Factor
<1>3. d1 * (n2 * d3) <= d1 * (n3 * d2)
  BY <1>1, Factor
<1>4. /\ d3 * (n1 * d2) = d2 * (n1 * d3)
      /\ d3 * (n2 * d1) = d1 * (n2 * d3)
      /\ d1 * (n3 * d2) = d2 * (n3 * d1)
  OBVIOUS
<1>5. d2 * (n1 * d3) <= d2 * (n3 * d1)
  BY <1>2, <1>3, <1>4
<1>6. d2 * (n3 * d1) < d2 * (n1 * d3)
  <2>1. PICK e \in Nat \ {0} : n1 * d3 = n3 * d1 + e
    OBVIOUS
  <2>2. d2 * (n1 * d3) = d2 * (n3 * d1) + d2 * e /\ d2 * e > 0
    BY <2>1
  <2> QED
    BY <2>2
<1> QED
  BY <1>5, <1>6

\* Gains are compared as numbers are.
LEMMA BetterIsAnOrder ==
  /\ \A x, y \in Int \X Nat : Better(x, y) => ~Better(y, x)
  /\ \A x, y, z \in Int \X Nat : Better(x, z) => Better(x, y) \/ Better(y, z)
<1> DEFINE num(z) == IF z[2] = 0 THEN 0 ELSE z[1]
           den(z) == IF z[2] = 0 THEN 1 ELSE z[2]
<1>1. \A x, y : Better(x, y) <=> num(x) * den(y) > num(y) * den(x)
  BY DEF Better
<1>2. \A x \in Int \X Nat : num(x) \in Int /\ den(x) \in Nat \ {0}
  OBVIOUS
<1> HIDE DEF num, den
<1>3. ASSUME NEW x \in Int \X Nat, NEW y \in Int \X Nat, Better(x, y) PROVE ~Better(y, x)
  BY <1>1, <1>2, <1>3
<1>4. ASSUME NEW x \in Int \X Nat, NEW y \in Int \X Nat, NEW z \in Int \X Nat, Better(x, z)
      PROVE  Better(x, y) \/ Better(y, z)
  <2>1. num(x) * den(z) > num(z) * den(x)
    BY <1>1, <1>4
  <2>2. num(x) * den(y) > num(y) * den(x) \/ num(y) * den(z) > num(z) * den(y)
    BY <1>2, <2>1, BetterSplits
  <2> QED
    BY <1>1, <2>2
<1> QED
  BY <1>3, <1>4

\* What the positions of a portfolio are, for the lemmas on their order.
Ranked(ps) ==
  /\ IsFiniteSet(DOMAIN ps) /\ DOMAIN ps \subseteq Nat
  /\ \A i \in DOMAIN ps : ps[i].value \in Nat /\ ps[i].gain \in Int \X Nat

\* Of two positions one is the larger, and no two are larger than each other.
LEMMA LargerIsAnOrder ==
  ASSUME NEW ps, Ranked(ps)
  PROVE  /\ \A i, j \in DOMAIN ps : Larger(ps, i, j) => ~Larger(ps, j, i)
         /\ \A i, j, k \in DOMAIN ps : Larger(ps, i, j) /\ Larger(ps, j, k) => Larger(ps, i, k)
         /\ \A i, j \in DOMAIN ps : i # j => Larger(ps, i, j) \/ Larger(ps, j, i)
BY DEF Ranked, Larger

\* The ranks are from 1 to the number of positions, and some position has the first.
LEMMA RanksAreInRange ==
  ASSUME NEW ps, Ranked(ps), DOMAIN ps # {}
  PROVE  /\ \A i \in DOMAIN ps : Rank(ps, i) \in 1 .. Cardinality(DOMAIN ps)
         /\ \E i \in DOMAIN ps : Rank(ps, i) = 1
<1> DEFINE D == DOMAIN ps
           R == {e \in D \X D : Larger(ps, e[1], e[2])}
           Ahead(i) == {j \in D : Larger(ps, j, i)}
<1>1. IsFiniteSet(D) /\ Cardinality(D) \in Nat
  BY FS_CardinalityType DEF Ranked
<1>2. \A i, j \in D : <<i, j>> \in R <=> Larger(ps, i, j)
  OBVIOUS
<1> HIDE DEF R
<1>3. ASSUME NEW i \in D PROVE Rank(ps, i) \in 1 .. Cardinality(D)
  <2>1. Ahead(i) \subseteq D \ {i}
    BY LargerIsAnOrder
  <2>2. IsFiniteSet(D \ {i}) /\ Cardinality(D \ {i}) = Cardinality(D) - 1
    BY <1>1, FS_RemoveElement
  <2> HIDE DEF Ahead
  <2>3. Cardinality(Ahead(i)) \in Nat /\ Cardinality(Ahead(i)) <= Cardinality(D) - 1
    <3>1. IsFiniteSet(Ahead(i)) /\ Cardinality(Ahead(i)) <= Cardinality(D \ {i})
      BY <2>1, <2>2, FS_Subset
    <3> QED
      BY <2>2, <3>1, FS_CardinalityType
  <2> QED
    BY <1>1, <2>3 DEF Rank, Ahead
<1>4. PICK i \in D : \A j \in D : <<j, i>> \notin R
  <2>1. \A x \in D : <<x, x>> \notin R
    BY <1>2, LargerIsAnOrder
  <2>2. \A x, y, z \in D : <<x, y>> \in R /\ <<y, z>> \in R => <<x, z>> \in R
    BY <1>2, LargerIsAnOrder
  <2> HIDE DEF D
  <2>3. D # {}
    BY DEF D
  <2> QED
    BY <1>1, <2>1, <2>2, <2>3, SomeoneIsFirst
<1>5. Ahead(i) = {}
  BY <1>2, <1>4
<1>6. Rank(ps, i) = 1
  BY <1>5, FS_EmptySet DEF Rank
<1> QED
  BY <1>3, <1>6

\* There is a winner and a loser, and no loser gains more than a winner.
LEMMA WinnersAndLosers ==
  ASSUME NEW ps, Ranked(ps), DOMAIN ps # {}
  PROVE  /\ \E i \in DOMAIN ps : Winner(ps, i)
         /\ \E i \in DOMAIN ps : Loser(ps, i)
         /\ \A i, j \in DOMAIN ps : Winner(ps, i) => ~Better(ps[j].gain, ps[i].gain)
<1> DEFINE D == DOMAIN ps
           L == {e \in D \X D : Larger(ps, e[1], e[2])}
           B == {e \in D \X D : Better(ps[e[1]].gain, ps[e[2]].gain)}
           W == {e \in D \X D : Better(ps[e[2]].gain, ps[e[1]].gain)}
<1>1. /\ \A i, j \in D : <<i, j>> \in L <=> Larger(ps, i, j)
      /\ \A i, j \in D : <<i, j>> \in B <=> Better(ps[i].gain, ps[j].gain)
      /\ \A i, j \in D : <<i, j>> \in W <=> Better(ps[j].gain, ps[i].gain)
  OBVIOUS
<1> HIDE DEF L, B, W
<1>2. \A i \in D : ps[i].gain \in Int \X Nat
  BY DEF Ranked
<1>3. /\ \A x, y \in D : <<x, y>> \in L => <<y, x>> \notin L
      /\ \A x, y, z \in D : <<x, y>> \in L /\ <<y, z>> \in L => <<x, z>> \in L
      /\ \A x, y \in D : x # y => <<x, y>> \in L \/ <<y, x>> \in L
  BY <1>1, LargerIsAnOrder
<1>4. /\ \A x, y \in D : <<x, y>> \in B => <<y, x>> \notin B
      /\ \A x, y, z \in D : <<x, z>> \in B => <<x, y>> \in B \/ <<y, z>> \in B
  BY <1>1, <1>2, BetterIsAnOrder
<1>5. /\ \A x, y \in D : <<x, y>> \in W => <<y, x>> \notin W
      /\ \A x, y, z \in D : <<x, z>> \in W => <<x, y>> \in W \/ <<y, z>> \in W
  BY <1>1, <1>2, BetterIsAnOrder
<1>6. IsFiniteSet(D) /\ D # {}
  BY DEF Ranked
<1>7. \E i \in D : Winner(ps, i)
  <2>1. PICK x \in D : \A y \in D \ {x} : <<x, y>> \in B \/ (<<y, x>> \notin B /\ <<x, y>> \in L)
    <3> HIDE DEF D
    <3> QED
      BY <1>3, <1>4, <1>6, FirstByBoth
  <2> QED
    BY <1>1, <2>1 DEF Winner
<1>8. \E i \in D : Loser(ps, i)
  <2>1. PICK x \in D : \A y \in D \ {x} : <<x, y>> \in W \/ (<<y, x>> \notin W /\ <<x, y>> \in L)
    <3> HIDE DEF D
    <3> QED
      BY <1>3, <1>5, <1>6, FirstByBoth
  <2> QED
    BY <1>1, <2>1 DEF Loser
<1>9. \A i, j \in D : Winner(ps, i) => ~Better(ps[j].gain, ps[i].gain)
  <2> SUFFICES ASSUME NEW i \in D, NEW j \in D, Winner(ps, i)
               PROVE  ~Better(ps[j].gain, ps[i].gain)
    OBVIOUS
  <2>1. CASE j = i
    BY <1>2, <2>1, BetterIsAnOrder
  <2>2. CASE j # i
    BY <1>2, <2>2, BetterIsAnOrder DEF Winner
  <2> QED
    BY <2>1, <2>2
<1> QED
  BY <1>7, <1>8, <1>9

\* A larger part of the same whole is no smaller a share.
LEMMA PartsCompare ==
  \A a, b \in Int, w \in Nat : a <= b => AtMost(<<a, w>>, <<b, w>>)
<1> SUFFICES ASSUME NEW a \in Int, NEW b \in Int, NEW w \in Nat, a <= b PROVE a * w <= b * w
  BY DEF AtMost
<1>1. PICK d \in Nat : b = a + d
  OBVIOUS
<1>2. b * w = a * w + d * w /\ d * w \in Nat
  BY <1>1
<1> QED
  BY <1>2

\* The figures of the concentration, where there are any.
LEMMA ConcentrationIsBounded ==
  ASSUME NEW ps, Ranked(ps), DOMAIN ps = 1 .. Len(ps), Len(ps) \in Nat,
         Concentration(ps).status = "ok"
  PROVE  LET c == Concentration(ps) IN
         /\ AtMost(c.largest.share, c.top)
         /\ c.top[1] <= c.top[2] /\ (c.count <= TopN => c.top[1] = c.top[2])
         /\ AtMost(<<1, c.count>>, c.index) /\ c.index[1] <= c.index[2]
         /\ AtMost(Squared(c.largest.share), c.index)
         /\ ~Better(c.loser.gain, c.winner.gain)
<1> DEFINE D == DOMAIN ps
           n == Len(ps)
           v == Values(ps)
           V == Value(ps)
           squares == [i \in D |-> ps[i].value * ps[i].value]
           T == {j \in D : Rank(ps, j) <= TopN}
           first == CHOOSE i \in D : Rank(ps, i) = 1
           win == CHOOSE i \in D : Winner(ps, i)
           lose == CHOOSE i \in D : Loser(ps, i)
           c == Concentration(ps)
           top == SumOn(v, T)
           Q == SumOn(squares, D)
<1>1. /\ D # {} /\ ~(V <= 0)
      /\ c.count = n
      /\ c.largest = About(ps, first) /\ c.winner = About(ps, win) /\ c.loser = About(ps, lose)
      /\ c.top = <<top, V>> /\ c.index = <<Q, V * V>>
  <2>1. D # {} /\ ~(V <= 0)
    BY DEF Concentration
  <2>2. DOMAIN squares = D
    OBVIOUS
  <2> QED
    BY <2>1, <2>2 DEF Concentration, Share, Sum
<1>2. About(ps, first).share = <<ps[first].value, V>>
  BY DEF About, Share
<1>3. About(ps, win).gain = ps[win].gain /\ About(ps, lose).gain = ps[lose].gain
  BY DEF About
<1>4. /\ first \in D /\ Rank(ps, first) = 1
      /\ win \in D /\ Winner(ps, win)
      /\ lose \in D
  <2>1. \E i \in D : Rank(ps, i) = 1
    BY <1>1, RanksAreInRange
  <2>2. (\E i \in D : Winner(ps, i)) /\ (\E i \in D : Loser(ps, i))
    BY <1>1, WinnersAndLosers
  <2> QED
    BY <2>1, <2>2
<1>5. /\ IsFiniteSet(D) /\ Cardinality(D) = n
      /\ \A i \in D : ps[i].value \in Nat
  <2>1. IsFiniteSet(1 .. n) /\ Cardinality(1 .. n) = IF 1 > n THEN 0 ELSE n - 1 + 1
    BY FS_Interval
  <2> QED
    BY <2>1 DEF Ranked
<1>6. /\ \A i \in D : v[i] = ps[i].value /\ v[i] \in Nat
      /\ V = SumOn(v, D)
  BY <1>5 DEF Values, Value, Sum
<1>7. \A i \in D : squares[i] = v[i] * v[i] /\ squares[i] \in Nat
  BY <1>5, <1>6
<1>8. first \in T /\ T \subseteq D
  BY <1>4, TopNAssumption
<1>9. n <= TopN => T = D
  <2> SUFFICES ASSUME n <= TopN, NEW i \in D PROVE Rank(ps, i) <= TopN
    BY <1>8
  <2>1. Rank(ps, i) \in 1 .. n
    BY <1>1, <1>5, RanksAreInRange
  <2> QED
    BY <2>1, TopNAssumption
<1>10. IsFiniteSet(T)
  BY <1>5, <1>8, FS_Subset
<1> HIDE DEF D, n, v, V, squares, T, first, win, lose, c, top, Q
<1>11. /\ top \in Nat /\ V \in Nat /\ Q \in Nat /\ v[first] \in Nat
       /\ v[first] <= top /\ top <= V /\ squares[first] <= Q
  <2>1. \A i \in T : v[i] \in Nat
    BY <1>6, <1>8
  <2> QED
    BY <1>4, <1>5, <1>6, <1>7, <1>8, <1>10, <2>1, SumNat, SumTerm, SumMonotone DEF top, Q
<1>12. V * V <= n * Q /\ Q <= V * V /\ n \in Nat
  BY <1>5, <1>6, <1>7, SumOfSquares, FS_CardinalityType DEF Q
<1>13. c.largest.share = <<v[first], V>>
  BY <1>1, <1>2, <1>4, <1>6
<1>14. AtMost(c.largest.share, c.top)
  BY <1>1, <1>11, <1>13, PartsCompare
<1>15. c.top[1] <= c.top[2] /\ (c.count <= TopN => c.top[1] = c.top[2])
  <2>1. c.top[1] = top /\ c.top[2] = V /\ c.count = n
    BY <1>1
  <2>2. n <= TopN => top = V
    BY <1>6, <1>9 DEF top
  <2> QED
    BY <1>11, <2>1, <2>2
<1>16. AtMost(<<1, c.count>>, c.index)
  <2>1. 1 * (V * V) <= Q * n
    BY <1>11, <1>12
  <2> QED
    BY <1>1, <2>1 DEF AtMost
<1>17. c.index[1] <= c.index[2]
  BY <1>1, <1>12
<1>18. AtMost(Squared(c.largest.share), c.index)
  <2>1. Squared(c.largest.share) = <<squares[first], V * V>>
    BY <1>4, <1>7, <1>13 DEF Squared
  <2>2. squares[first] \in Nat /\ V * V \in Nat
    BY <1>4, <1>7, <1>11
  <2> QED
    BY <1>1, <1>11, <2>1, <2>2, PartsCompare
<1>19. ~Better(c.loser.gain, c.winner.gain)
  <2>1. ~Better(ps[lose].gain, ps[win].gain)
    BY <1>1, <1>4, WinnersAndLosers DEF D
  <2> QED
    BY <1>1, <1>3, <2>1
<1> QED
  BY <1>14, <1>15, <1>16, <1>17, <1>18, <1>19 DEF c

\* The shares that are shown are of one whole: of the allocation the groups are
\* all of it and the first is the largest, and the concentration's figures are
\* in the order that their definitions suggest (allocation_calculator.py:25-47,
\* position_analytics_calculator.py:30-72).
THEOREM SharesAddUp == Spec => []SharesOfTheWhole
<1>1. DataInv => SharesOfTheWhole
  <2> SUFFICES ASSUME DataInv, data # NoData
               PROVE  LET groups == data.allocation
                          c == data.concentration
                      IN  /\ Sum([g \in groups |-> g.value]) = data.summary.total
                          /\ \A g \in groups : AtMost(g.share, get_allocation(data))
                          /\ c.status = "ok" =>
                               /\ AtMost(c.largest.share, c.top)
                               /\ c.top[1] <= c.top[2] /\ (c.count <= TopN => c.top[1] = c.top[2])
                               /\ AtMost(<<1, c.count>>, c.index) /\ c.index[1] <= c.index[2]
                               /\ AtMost(Squared(c.largest.share), c.index)
                               /\ ~Better(c.loser.gain, c.winner.gain)
    BY DEF SharesOfTheWhole, get_allocation_attributes, get_concentration_attributes, get_portfolio_value
  <2>0. PICK p \in Portfolios : MadeOf(p)
    BY DEF DataInv
  <2>1. PICK q, r : /\ ValidQuotes(q) /\ ValidRates(r)
                    /\ data = Result(p, q, r, around.other, around.now)
    BY <2>0 DEF MadeOf
  <2> DEFINE ps == Positions(p, q, r)
             groups == Allocation(p, ps)
             g1 == CHOOSE g \in groups : g.rank = 1
             total == Value(ps) + p.cash
  <2>2. /\ data.allocation = groups /\ data.concentration = Concentration(ps)
        /\ data.summary.total = total
    BY <2>1 DEF Result, Summary
  <2>3. /\ Sum([g \in groups |-> g.value]) = total
        /\ \A g \in groups : /\ g.share = <<g.value, total>> /\ g.value \in Nat
                             /\ g1 \in groups /\ g.value <= g1.value
    BY <2>1, AllocationAddsUp
  <2>4. total \in Nat
    <3>1. Value(ps) \in Nat
      BY <2>1, ValueType
    <3>2. p.cash \in Nat
      BY PortfoliosAssumption DEF ValidPortfolio
    <3> HIDE DEF ps
    <3> QED
      BY <3>1, <3>2
  <2>5. DOMAIN ps = 1 .. Len(ps) /\ Len(ps) \in Nat /\ Ranked(ps)
    <3>1. /\ DOMAIN ps = 1 .. Len(ps) /\ IsFiniteSet(DOMAIN ps)
          /\ \A i \in DOMAIN ps : /\ ps[i].value \in Nat /\ ps[i].cost \in Nat
                                  /\ ps[i].gain = <<ps[i].value - ps[i].cost, ps[i].cost>>
      BY <2>1, PositionsType
    <3>2. Len(ps) \in Nat
      BY PositionsType, <2>1
    <3> HIDE DEF ps
    <3>3. DOMAIN ps \subseteq Nat
      BY <3>1, <3>2
    <3>4. ASSUME NEW i \in DOMAIN ps PROVE ps[i].value \in Nat /\ ps[i].gain \in Int \X Nat
      <4>1. /\ ps[i].value \in Nat /\ ps[i].cost \in Nat
            /\ ps[i].gain = <<ps[i].value - ps[i].cost, ps[i].cost>>
        BY <3>1
      <4>2. \A a, b \in Nat : <<a - b, b>> \in Int \X Nat
        OBVIOUS
      <4> QED
        BY <4>1, <4>2
    <3> QED
      BY <3>1, <3>2, <3>3, <3>4 DEF Ranked
  <2> HIDE DEF ps, groups, total
  <2>6. \A g \in groups : AtMost(g.share, get_allocation(data))
    <3> SUFFICES ASSUME NEW g \in groups PROVE AtMost(g.share, get_allocation(data))
      OBVIOUS
    <3>1. get_allocation(data) = g1.share
      BY <2>2 DEF get_allocation, FirstGroup
    <3>2. g.share = <<g.value, total>> /\ g1.share = <<g1.value, total>>
      BY <2>3
    <3>3. g.value \in Nat /\ g1.value \in Nat /\ g.value <= g1.value
      BY <2>3
    <3> QED
      BY <2>4, <3>1, <3>2, <3>3, PartsCompare
  <2> QED
    BY <2>2, <2>3, <2>5, <2>6, ConcentrationIsBounded
<1> QED
  BY DataInit, DataNext, <1>1, PTL DEF Spec
=============================================================================
