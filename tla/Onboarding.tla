----------------------------- MODULE Onboarding -----------------------------
(***************************************************************************)
(* Listing a service from the marketplace frontend: one browser tab with a *)
(* wallet whose account and network change under it (wallet.js), the       *)
(* signed-in session (session.js), the wizard that drafts a slug, checks   *)
(* that it is free and signs four transactions one click at a time         *)
(* (forms/wizard.js, main.js, actions.js), and the two chains on which     *)
(* they are mined later: the subname registrar and its resolver on Sepolia *)
(* and the registry on Arc.                                                *)
(*                                                                         *)
(* Every await of the code is a place where the wallet, the user or the    *)
(* other claimants may act.  A handler that was started on a wizard        *)
(* element which has since been taken off the page runs on without it.     *)
(***************************************************************************)
EXTENDS Naturals, SequencesExt

CONSTANTS Accounts, Rival, Nobody,   \* wallet accounts, another claimant, none
          Slugs, NoSlug,
          MaxChanges,   \* bound: wallet events
          MaxEdits,     \* bound: edits of the slug
          MaxClicks     \* bound: clicks on a transaction's button

ASSUME OnboardingAssumption ==
  /\ Rival \notin Accounts /\ Nobody \notin Accounts \cup {Rival}
  /\ NoSlug \notin Slugs
  /\ MaxChanges \in Nat /\ MaxEdits \in Nat /\ MaxClicks \in Nat

VARIABLES wallet,    \* connected account and network, and what has changed
          session,   \* the account of the stored sign-in proof
          signin,    \* the sign-in prompt of the page, if open
          deps,      \* the account the mounted wizard acts for, if mounted
          page,      \* the wizard element's own state
          top,       \* the furthest step in the browser's history
          lookups,   \* availability lookups in flight
          runs,      \* transaction clicks in flight
          clicks,    \* clicks so far
          names,     \* Sepolia: each subname's owner, payout address, records
          provider,  \* Arc: each slug's registered provider
          pool       \* pool[c]: transactions broadcast on chain c, not mined

vars == <<wallet, session, signin, deps, page, top, lookups, runs, clicks,
          names, provider, pool>>
chains == <<names, provider, pool>>

Chains == {"Arc", "Sepolia"}
Steps == <<[key |-> "claim",    chain |-> "Sepolia"],
           [key |-> "register", chain |-> "Arc"],
           [key |-> "url",      chain |-> "Sepolia"],
           [key |-> "sla",      chain |-> "Sepolia"]>>

Review == 4
FreshPage == [slug |-> NoSlug, step |-> 1, available |-> FALSE, vouched |-> NoSlug,
              token |-> 0, timer |-> FALSE, done |-> 0, pending |-> FALSE,
              claimed |-> NoSlug]
Unclaimed == [owner |-> Nobody, payTo |-> Nobody, url |-> FALSE, sla |-> FALSE]
NoPrompt == [acct |-> Nobody, conn |-> 0]

Someone == Accounts \cup {Nobody}
Txs == [key : {"claim", "register", "url", "sla"}, slug : Slugs, from : Accounts, payTo : Accounts]

TypeOK ==
  /\ wallet \in [acct : Someone, net : Chains \cup {"other"},
                 conn : 0 .. MaxChanges, ident : 0 .. MaxChanges]
  /\ session \in Someone /\ deps \in Someone
  /\ signin \in [acct : Someone, conn : 0 .. MaxChanges]
  /\ page \in [slug : Slugs \cup {NoSlug}, step : {1, Review}, available : BOOLEAN,
               vouched : Slugs \cup {NoSlug}, token : 0 .. MaxEdits, timer : BOOLEAN,
               done : 0 .. 4, pending : BOOLEAN, claimed : Slugs \cup {NoSlug}]
  /\ top \in {1, Review} /\ clicks \in 0 .. MaxClicks
  /\ lookups \subseteq [token : 0 .. MaxEdits, slug : Slugs, free : BOOLEAN]
  /\ runs \subseteq [index : 0 .. 3, slug : Slugs, payTo : Accounts, from : Someone,
                     conn : 0 .. MaxChanges, ident : 0 .. MaxChanges, mine : BOOLEAN,
                     at : {"switch", "signin", "client", "popup"}]
  /\ \A s \in Slugs : names[s].owner \in Someone \cup {Rival} /\ provider[s] \in Someone
  /\ \A c \in Chains : pool[c] \in Seq(Txs)
  /\ page.pending <=> \E r \in runs : r.mine

-----------------------------------------------------------------------------
CanWrite(a, net, proof) == a # Nobody /\ proof = a /\ net \in Chains

(***************************************************************************)
(* draw and mountProviderConsole on /register: the wizard is on the page   *)
(* while its account may write.  One that leaves the page takes its draft  *)
(* with it, and what it was waiting for comes back to nobody.              *)
(***************************************************************************)
Draw(w, proof, waiting) ==
  LET kept == w.acct = deps /\ CanWrite(w.acct, w.net, proof)
  IN  /\ deps' = IF CanWrite(w.acct, w.net, proof) THEN w.acct ELSE Nobody
      /\ page' = IF kept THEN page ELSE FreshPage
      /\ lookups' = IF kept THEN lookups ELSE {}
      /\ runs' = IF kept THEN waiting ELSE {[r EXCEPT !.mine = FALSE] : r \in waiting}

Init ==
  /\ wallet = [acct |-> Nobody, net |-> "other", conn |-> 0, ident |-> 0]
  /\ session \in Someone      \* restored from the browser's storage
  /\ signin = NoPrompt
  /\ deps = Nobody /\ page = FreshPage /\ top = 1
  /\ lookups = {} /\ runs = {} /\ clicks = 0
  /\ names = [s \in Slugs |-> Unclaimed]
  /\ provider = [s \in Slugs |-> Nobody]
  /\ pool = [c \in Chains |-> <<>>]

-----------------------------------------------------------------------------
(***************************************************************************)
(* syncWallets: the wallet connects, disconnects, changes its account or   *)
(* its network.  A change of identity revokes the session unless a fresh   *)
(* connection is to the very account the stored proof is of.               *)
(***************************************************************************)
SyncWallet(a, net) ==
  LET changed == a # wallet.acct
      proof == IF changed /\ (wallet.acct # Nobody \/ a = Nobody \/ session # a)
                 THEN Nobody ELSE session
      next == [acct |-> a, net |-> net, conn |-> wallet.conn + 1,
               ident |-> IF changed THEN wallet.conn + 1 ELSE wallet.ident]
  IN  /\ wallet.conn < MaxChanges
      /\ <<a, net>> # <<wallet.acct, wallet.net>>
      /\ a = Nobody => net = "other"
      /\ wallet' = next /\ session' = proof
      /\ Draw(next, proof, runs)
      /\ UNCHANGED <<signin, top, clicks, chains>>

(* getSession: the proof is past its day; nothing is drawn for it. *)
SessionExpires ==
  /\ session # Nobody
  /\ session' = Nobody
  /\ UNCHANGED <<wallet, signin, deps, page, top, lookups, runs, clicks, chains>>

(* provider-sign-in: the page's own prompt. *)
AskSignIn ==
  /\ signin = NoPrompt
  /\ wallet.acct # Nobody /\ wallet.net \in Chains /\ session # wallet.acct
  /\ signin' = [acct |-> wallet.acct, conn |-> wallet.conn]
  /\ UNCHANGED <<wallet, session, deps, page, top, lookups, runs, clicks, chains>>

(* A slip: whoever signed is signed in, whatever the wallet did meanwhile. *)
StillAnyone(conn) == TRUE

(* isCurrent: the connected account object is the one that was asked.  (A   *)
(* session revoked meanwhile implies that it is not.)                       *)
StillConnected(conn) == conn = wallet.conn

(* signIn, answered by the user. *)
SignIn ==
  /\ signin # NoPrompt
  /\ signin' = NoPrompt
  /\ \/ /\ StillConnected(signin.conn)
        /\ session' = signin.acct
        /\ Draw(wallet, signin.acct, runs)
     \/ UNCHANGED <<session, deps, page, lookups, runs>>    \* declined, or too late
  /\ UNCHANGED <<wallet, top, clicks, chains>>

-----------------------------------------------------------------------------
ByDraft == UNCHANGED <<wallet, session, signin, deps, clicks, chains>>

(***************************************************************************)
(* editSlug: whatever was being checked is no longer of interest; a valid  *)
(* slug is checked after a pause, a cleared input is not.                  *)
(***************************************************************************)
EditSlug(s) ==
  /\ deps # Nobody /\ page.step = 1 /\ page.token < MaxEdits /\ s # page.slug
  /\ page' = [page EXCEPT !.slug = s, !.available = FALSE, !.vouched = NoSlug,
                          !.token = @ + 1, !.timer = s \in Slugs]
  /\ UNCHANGED <<top, lookups, runs>> /\ ByDraft

(* The debounce is over: checkAvailability reads the name's owner. *)
CheckFires ==
  /\ page.timer
  /\ page' = [page EXCEPT !.timer = FALSE]
  /\ lookups' = lookups \cup {[token |-> page.token, slug |-> page.slug,
                               free |-> names[page.slug].owner = Nobody]}
  /\ UNCHANGED <<top, runs>> /\ ByDraft

(* A slip: an answer is an answer. *)
OfInterestAlways(l) == TRUE

OfInterest(l) == l.token = page.token

(* The lookup answers, or fails and leaves the slug unavailable. *)
CheckLands(l) ==
  /\ lookups' = lookups \ {l}
  /\ \/ /\ OfInterest(l)
        /\ page' = [page EXCEPT !.available = l.free, !.vouched = l.slug]
     \/ UNCHANGED page
  /\ UNCHANGED <<top, runs>> /\ ByDraft

(***************************************************************************)
(* goStep: Next, which step 1 allows for an available slug only.  Steps 2  *)
(* and 3 draft the endpoint and the SLA and touch nothing else, so the     *)
(* review is the step that follows.                                        *)
(***************************************************************************)
GoStep ==
  /\ deps # Nobody /\ page.step = 1 /\ page.available
  /\ page' = [page EXCEPT !.step = Review]
  /\ top' = Review
  /\ UNCHANGED <<lookups, runs>> /\ ByDraft

(* restoreStep: the browser's Back or Forward, or the page's own Back. *)
RestoreStep(k) ==
  /\ deps # Nobody /\ k # page.step /\ k <= top
  /\ page.done = 0
  /\ k > 1 => page.slug # NoSlug
  /\ page' = [page EXCEPT !.step = k]
  /\ UNCHANGED <<top, lookups, runs>> /\ ByDraft

-----------------------------------------------------------------------------
(* A run of runStep is over, with a hash or with an error. *)
Ends(r, hash) ==
  /\ runs' = runs \ {r}
  /\ page' = IF ~r.mine THEN page
             ELSE [page EXCEPT !.pending = FALSE,
                               !.done = IF hash THEN r.index + 1 ELSE @,
                               !.claimed = IF hash /\ r.index = 0 THEN r.slug ELSE @]

Moves(r, step) == runs' = (runs \ {r}) \cup {step}
ByRun == UNCHANGED <<wallet, signin, top, clicks>>
Chain(r) == Steps[r.index + 1].chain

(* runStep: the click starts ensureChain for the step the cursor is on. *)
Click ==
  /\ deps # Nobody /\ page.step = Review /\ page.done < 4 /\ ~page.pending
  /\ clicks < MaxClicks
  /\ clicks' = clicks + 1
  /\ page' = [page EXCEPT !.pending = TRUE]
  /\ runs' = runs \cup {[index |-> page.done, slug |-> page.slug, payTo |-> deps,
       from |-> Nobody, conn |-> 0, ident |-> wallet.ident, mine |-> TRUE, at |-> "switch"]}
  /\ UNCHANGED <<wallet, session, signin, deps, top, lookups, chains>>

(* walletClientFor: a client bound to the connected account object. *)
Bound(r) == [r EXCEPT !.at = "client", !.from = wallet.acct, !.conn = wallet.conn]

(* A slip: the wallet may be anybody's by now. *)
SameWalletOrNot(r) == wallet.acct # Nobody

SameWallet(r) == r.ident = wallet.ident

(* The rest of ensureChain and, if there is no session, the sign-in prompt. *)
EnsureChain(r) ==
  /\ r.at = "switch"
  /\ \/ /\ SameWallet(r) /\ wallet.net = Chain(r)
        /\ UNCHANGED page
        /\ IF session = wallet.acct
             THEN Moves(r, Bound(r))
             ELSE Moves(r, [r EXCEPT !.at = "signin", !.from = wallet.acct, !.conn = wallet.conn])
     \/ Ends(r, FALSE)              \* declined, changed, or on another network
  /\ UNCHANGED <<session, deps, lookups, chains>> /\ ByRun

(* ensureSignedChain's sign-in is answered. *)
SignForStep(r) ==
  /\ r.at = "signin"
  /\ \/ /\ StillConnected(r.conn)
        /\ session' = r.from
        /\ Draw(wallet, r.from, (runs \ {r}) \cup {Bound(r)})
     \/ Ends(r, FALSE) /\ UNCHANGED <<session, deps, lookups>>
  /\ UNCHANGED chains /\ ByRun

(* The client's transport lets a request through for an unchanged wallet. *)
Request(r) ==
  /\ r.at = "client"
  /\ \/ /\ r.conn = wallet.conn
        /\ Moves(r, [r EXCEPT !.at = "popup"])
        /\ UNCHANGED page
     \/ r.conn # wallet.conn /\ Ends(r, FALSE)
  /\ UNCHANGED <<session, deps, lookups, chains>> /\ ByRun

Tx(r) == [key |-> Steps[r.index + 1].key, slug |-> r.slug, from |-> r.from, payTo |-> r.payTo]

(***************************************************************************)
(* The user signs, and the wallet answers with the hash of a transaction   *)
(* that is broadcast, not mined; or it loses the answer; or the user       *)
(* declines.                                                               *)
(***************************************************************************)
Answer(r) ==
  /\ r.at = "popup"
  /\ \/ \E hash \in BOOLEAN :
          /\ pool' = [pool EXCEPT ![Chain(r)] = Append(@, Tx(r))]
          /\ Ends(r, hash)
     \/ Ends(r, FALSE) /\ UNCHANGED pool
  /\ UNCHANGED <<session, deps, lookups, names, provider>> /\ ByRun

-----------------------------------------------------------------------------
ByChain == UNCHANGED <<wallet, session, signin, deps, page, top, lookups, runs, clicks>>

(* VerdiktSubnameRegistrar.claim: reverts if the label is registered. *)
Claimed(s, owner, payTo) ==
  IF names[s].owner # Nobody THEN names
  ELSE [names EXCEPT ![s] = [Unclaimed EXCEPT !.owner = owner, !.payTo = payTo]]

(* setText: the claimant alone holds the roles of its keys. *)
Written(tx) ==
  IF names[tx.slug].owner # tx.from THEN names
  ELSE [names EXCEPT ![tx.slug][tx.key] = TRUE]

(* A transaction is mined, those of one sender in their order. *)
Mine(c, i) ==
  LET tx == pool[c][i]
  IN  /\ i \in DOMAIN pool[c]
      /\ \A j \in 1 .. i - 1 : pool[c][j].from # tx.from
      /\ pool' = [pool EXCEPT ![c] = RemoveAt(@, i)]
      /\ CASE tx.key = "register" ->
                /\ provider' = [provider EXCEPT ![tx.slug] = IF @ = Nobody THEN tx.from ELSE @]
                /\ UNCHANGED names
           [] tx.key = "claim" -> names' = Claimed(tx.slug, tx.from, tx.payTo) /\ UNCHANGED provider
           [] OTHER -> names' = Written(tx) /\ UNCHANGED provider
      /\ ByChain

(* Somebody else claims a free name. *)
RivalClaims(s) ==
  /\ names[s].owner = Nobody
  /\ names' = Claimed(s, Rival, Rival)
  /\ UNCHANGED <<provider, pool>> /\ ByChain

Wallet ==
  \/ \E a \in Someone, net \in Chains \cup {"other"} : SyncWallet(a, net)
  \/ SessionExpires \/ AskSignIn \/ SignIn
Draft ==
  \/ \E s \in Slugs \cup {NoSlug} : EditSlug(s)
  \/ CheckFires \/ (\E l \in lookups : CheckLands(l))
  \/ GoStep \/ \E k \in {1, Review} : RestoreStep(k)
Sign ==
  \/ Click
  \/ \E r \in runs : EnsureChain(r) \/ SignForStep(r) \/ Request(r) \/ Answer(r)
Settle ==
  \/ \E c \in Chains : \E i \in 1 .. Len(pool[c]) : Mine(c, i)
  \/ \E s \in Slugs : RivalClaims(s)
Next == Wallet \/ Draft \/ Sign \/ Settle

Spec == Init /\ [][Next]_vars

-----------------------------------------------------------------------------
(* However a prompt and the wallet's changes interleave, a stored proof is *)
(* of the account that is connected (session.js:29-62, wallet.js:56-74).   *)
SessionIsOfConnected ==
  session # Nobody /\ wallet.acct # Nobody => session = wallet.acct

(* A slug is offered as available on an answer about that very slug, never *)
(* on a late one about what was typed before (wizard.js:144-171).          *)
AvailabilityIsOfSlug == page.available => page.vouched = page.slug

(* A name the wizard claims pays the account that owns it, although the    *)
(* click, the sign-in and the signature are of different moments           *)
(* (wizard.js:75-80, wallet.js:130-146).                                   *)
PaysItsOwner == \A s \in Slugs : names[s].payTo = names[s].owner

(* Once the first transaction has landed the slug is frozen: the remaining *)
(* ones target the name that was claimed (wizard.js:131-142).              *)
SlugIsFrozen == \A r \in runs : r.mine /\ r.index > 0 => r.slug = page.claimed
=============================================================================
