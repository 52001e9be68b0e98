-------------------------- MODULE OnboardingProofs --------------------------
(***************************************************************************)
(* What the wizard keeps for any number of accounts, slugs, wallet events, *)
(* edits and clicks: whose session is stored, what an availability answer  *)
(* is about, and whom a claimed name pays.                                 *)
(*                                                                         *)
(* None of the three is inductive.  A stored session is of the connected   *)
(* account because a prompt, or a click that opened one, can be answered   *)
(* only while the account object it was opened for is connected; an answer *)
(* is about the slug on the page because a token is never reused; a name   *)
(* pays its owner because the identity a click started under, while it is  *)
(* still the wallet's, names the account the wizard acted for.  Each of    *)
(* these is about what is in flight, so the invariant speaks of every      *)
(* lookup, click and transaction that is.                                  *)
(***************************************************************************)
EXTENDS Onboarding, TLAPS

Nets == Chains \cup {"other"}
Conns == 0 .. MaxChanges
Wallets == [acct : Someone, net : Nets, conn : Conns, ident : Conns]
Prompts == [acct : Someone, conn : Conns]
Pages == [slug : Slugs \cup {NoSlug}, step : {1, Review}, available : BOOLEAN,
          vouched : Slugs \cup {NoSlug}, token : 0 .. MaxEdits, timer : BOOLEAN,
          done : 0 .. 4, pending : BOOLEAN, claimed : Slugs \cup {NoSlug}]
Lookups == [token : 0 .. MaxEdits, slug : Slugs, free : BOOLEAN]
Places == {"switch", "signin", "client", "popup"}
RunsOf == [index : 0 .. 3, slug : Slugs, payTo : Accounts, from : Someone,
           conn : Conns, ident : Conns, mine : BOOLEAN, at : Places]
Entries == [owner : Someone \cup {Rival}, payTo : Someone \cup {Rival},
            url : BOOLEAN, sla : BOOLEAN]

(* A wallet on a chain has an account, connected no later than its last    *)
(* change.                                                                 *)
WalletOK ==
  /\ wallet \in Wallets
  /\ wallet.net \in Chains => wallet.acct \in Accounts
  /\ wallet.ident <= wallet.conn

(* The page's prompt, while its account object is connected, is for the    *)
(* connected account.                                                      *)
PromptOK ==
  /\ signin \in Prompts
  /\ signin # NoPrompt => /\ signin.conn <= wallet.conn
                          /\ signin.conn = wallet.conn => signin.acct = wallet.acct

SessionOK == session \in Someone /\ SessionIsOfConnected

(* The wizard acts for the connected account. *)
DepsOK == deps \in Someone /\ (deps # Nobody => deps = wallet.acct)

(* What is checked, offered or reviewed is a slug, and an answer of the    *)
(* current token is about the current one.                                 *)
DraftOK ==
  /\ page \in Pages /\ top \in {1, Review} /\ clicks \in 0 .. MaxClicks
  /\ page.timer \/ page.available \/ page.step = Review => page.slug \in Slugs
  /\ AvailabilityIsOfSlug
LookupOK(l) ==
  /\ l \in Lookups /\ l.token <= page.token
  /\ l.token = page.token => l.slug = page.slug
LookupsOK == \A l \in lookups : LookupOK(l)

(* A click started for the account whose identity it remembers, and the    *)
(* client it is bound to, once it has one, is of the same account.         *)
RunOK(r, w) ==
  /\ r \in RunsOf
  /\ r.ident <= w.conn /\ (r.ident = w.ident => r.payTo = w.acct)
  /\ r.at # "switch" =>
       r.from = r.payTo /\ r.conn <= w.conn /\ (r.conn = w.conn => r.from = w.acct)
RunsOK == \A r \in runs : RunOK(r, wallet)

(* The page waits for one click at a time, and knows whether it does. *)
OneMine(R) == \A r, q \in R : r.mine /\ q.mine => r = q
PendingOK ==
  /\ page.pending <=> \E r \in runs : r.mine
  /\ OneMine(runs)

(* A broadcast claim pays its sender, and so does a claimed name. *)
Broadcast == {tx \in Txs : tx.from = tx.payTo}
ChainsOK ==
  /\ names \in [Slugs -> Entries] /\ provider \in [Slugs -> Someone]
  /\ pool \in [Chains -> Seq(Broadcast)]
  /\ PaysItsOwner

IInv == /\ WalletOK /\ PromptOK /\ SessionOK /\ DepsOK
        /\ DraftOK /\ LookupsOK /\ RunsOK /\ PendingOK /\ ChainsOK

-----------------------------------------------------------------------------
(* A click whose wizard has left the page goes on for nobody. *)
Orphan(r) == [r EXCEPT !.mine = FALSE]
Orphans(R) == {Orphan(r) : r \in R}

LEMMA OrphanIsOK ==
  ASSUME NEW r, NEW w, RunOK(r, w)
  PROVE  RunOK(Orphan(r), w) /\ ~Orphan(r).mine
<1>1. r \in RunsOf
  BY DEF RunOK
<1>2. /\ Orphan(r) \in RunsOf /\ Orphan(r).mine = FALSE
      /\ Orphan(r).index = r.index /\ Orphan(r).slug = r.slug /\ Orphan(r).payTo = r.payTo
      /\ Orphan(r).from = r.from /\ Orphan(r).conn = r.conn /\ Orphan(r).ident = r.ident
      /\ Orphan(r).at = r.at
  BY <1>1 DEF Orphan, RunsOf
<1> QED  BY <1>2 DEF RunOK

LEMMA DraftStartsFresh ==
  /\ FreshPage \in Pages /\ ~FreshPage.timer /\ ~FreshPage.available
  /\ FreshPage.step # Review /\ ~FreshPage.pending
BY OnboardingAssumption DEF FreshPage, Pages, Review

(* Whatever the redrawn page is for, the wizard on it acts for the account *)
(* it is drawn for, or is gone with all that it was waiting for.           *)
LEMMA DrawKeepsOrForgets ==
  ASSUME NEW w, NEW proof, NEW waiting, Draw(w, proof, waiting)
  PROVE  /\ deps' \in {w.acct, Nobody}
         /\ \/ page' = page /\ lookups' = lookups /\ runs' = waiting
            \/ page' = FreshPage /\ lookups' = {} /\ runs' = Orphans(waiting)
BY DEF Draw, Orphans, Orphan

(* Drawing the page for the wallet it will be on keeps the invariant's     *)
(* parts about the page, if they hold of what it is drawn with.            *)
LEMMA DrawIsSound ==
  ASSUME DraftOK, LookupsOK, UNCHANGED <<top, clicks>>, WalletOK',
         NEW proof, NEW waiting, Draw(wallet', proof, waiting),
         \A r \in waiting : RunOK(r, wallet'),
         page.pending <=> \E r \in waiting : r.mine,
         OneMine(waiting)
  PROVE  DepsOK' /\ DraftOK' /\ LookupsOK' /\ RunsOK' /\ PendingOK'
<1>1. /\ deps' \in {wallet'.acct, Nobody}
      /\ \/ page' = page /\ lookups' = lookups /\ runs' = waiting
         \/ page' = FreshPage /\ lookups' = {} /\ runs' = Orphans(waiting)
  BY DrawKeepsOrForgets
<1>2. DepsOK'
  BY <1>1 DEF DepsOK, WalletOK, Wallets, Someone
<1>3. CASE page' = page /\ lookups' = lookups /\ runs' = waiting
  <2>1. DraftOK' /\ LookupsOK'
    BY <1>3 DEF DraftOK, LookupsOK, LookupOK, AvailabilityIsOfSlug
  <2>2. RunsOK' /\ PendingOK'
    BY <1>3 DEF RunsOK, PendingOK
  <2> QED  BY <1>2, <2>1, <2>2
<1>4. CASE page' = FreshPage /\ lookups' = {} /\ runs' = Orphans(waiting)
  <2>1. DraftOK' /\ LookupsOK'
    BY <1>4, DraftStartsFresh DEF DraftOK, LookupsOK, AvailabilityIsOfSlug
  <2>2. \A r \in runs' : RunOK(r, wallet') /\ ~r.mine
    BY <1>4, OrphanIsOK DEF Orphans
  <2>3. RunsOK' /\ PendingOK'
    BY <1>4, <2>2, DraftStartsFresh DEF RunsOK, PendingOK, OneMine
  <2> QED  BY <1>2, <2>1, <2>3
<1> QED  BY <1>1, <1>3, <1>4

(* A click that moves on stays as much the page's as it was. *)
LEMMA MovingKeepsMine ==
  ASSUME NEW r \in runs, NEW step, step.mine = r.mine, PendingOK
  PROVE  LET R == (runs \ {r}) \cup {step}
         IN  (page.pending <=> \E q \in R : q.mine) /\ OneMine(R)
<1> DEFINE R == (runs \ {r}) \cup {step}
<1>1. (\E q \in runs : q.mine) <=> (\E q \in R : q.mine)
  OBVIOUS
<1>2. OneMine(R)
  BY DEF OneMine, PendingOK
<1> QED  BY <1>1, <1>2 DEF PendingOK

LEMMA MovesIsSound ==
  ASSUME IInv, NEW r \in runs, NEW step, Moves(r, step), step.mine = r.mine,
         RunOK(step, wallet), UNCHANGED <<wallet, page>>
  PROVE  RunsOK' /\ PendingOK'
<1>1. runs' = (runs \ {r}) \cup {step}
  BY DEF Moves
<1>2. RunsOK'
  BY <1>1 DEF RunsOK, IInv
<1>3. PendingOK
  BY DEF IInv
<1>4. (page.pending <=> \E q \in runs' : q.mine) /\ OneMine(runs')
  BY <1>1, <1>3, MovingKeepsMine
<1> QED  BY <1>2, <1>4 DEF PendingOK

(* The end of a click leaves the draft alone. *)
LEMMA EndsIsSound ==
  ASSUME IInv, NEW r \in runs, NEW hash \in BOOLEAN, Ends(r, hash),
         UNCHANGED <<wallet, top, clicks, lookups>>
  PROVE  DraftOK' /\ LookupsOK' /\ RunsOK' /\ PendingOK'
<1>1. r \in RunsOf /\ page \in Pages /\ runs' = runs \ {r}
  BY DEF IInv, RunsOK, RunOK, DraftOK, Ends
<1>2. /\ page' \in Pages /\ page'.slug = page.slug /\ page'.step = page.step
      /\ page'.available = page.available /\ page'.vouched = page.vouched
      /\ page'.token = page.token /\ page'.timer = page.timer
      /\ page'.pending = IF r.mine THEN FALSE ELSE page.pending
  <2>1. r.index + 1 \in 0 .. 4 /\ r.slug \in Slugs
    BY <1>1 DEF RunsOf
  <2>2. CASE r.mine
    <3>1. PICK d \in 0 .. 4, s \in Slugs \cup {NoSlug} :
            page' = [page EXCEPT !.pending = FALSE, !.done = d, !.claimed = s]
      <4> DEFINE d == IF hash THEN r.index + 1 ELSE page.done
                 s == IF hash /\ r.index = 0 THEN r.slug ELSE page.claimed
      <4>1. d \in 0 .. 4 /\ s \in Slugs \cup {NoSlug}
        BY <1>1, <2>1 DEF Pages
      <4>2. page' = [page EXCEPT !.pending = FALSE, !.done = d, !.claimed = s]
        BY <2>2 DEF Ends
      <4> HIDE DEF d, s
      <4> QED  BY <4>1, <4>2
    <3> QED  BY <1>1, <2>2, <3>1 DEF Pages
  <2>3. CASE ~r.mine
    BY <1>1, <2>3 DEF Ends
  <2> QED  BY <2>2, <2>3
<1>3. DraftOK' /\ LookupsOK'
  BY <1>2 DEF IInv, DraftOK, LookupsOK, LookupOK, AvailabilityIsOfSlug
<1>4. RunsOK'
  BY <1>1 DEF IInv, RunsOK
<1>5. PendingOK'
  BY <1>1, <1>2 DEF IInv, PendingOK, OneMine
<1> QED  BY <1>3, <1>4, <1>5

-----------------------------------------------------------------------------
LEMMA InitIsSound == Init => IInv
<1> SUFFICES ASSUME Init PROVE IInv
  OBVIOUS
<1> USE OnboardingAssumption
<1>1. WalletOK /\ PromptOK
  BY DEF Init, WalletOK, PromptOK, Wallets, Prompts, NoPrompt, Someone, Nets, Chains, Conns
<1>2. SessionOK /\ DepsOK
  BY DEF Init, SessionOK, SessionIsOfConnected, DepsOK, Someone
<1>3. DraftOK /\ LookupsOK /\ RunsOK /\ PendingOK
  BY DraftStartsFresh DEF Init, DraftOK, LookupsOK, RunsOK, PendingOK, OneMine,
     AvailabilityIsOfSlug
<1>4. ChainsOK
  BY DEF Init, ChainsOK, PaysItsOwner, Unclaimed, Entries, Someone
<1> QED  BY <1>1, <1>2, <1>3, <1>4 DEF IInv

(* What a change of the wallet leaves of the identity a click remembers:   *)
(* nothing, if it is another account.                                      *)
LEMMA RunOutlivesWallet ==
  ASSUME WalletOK, NEW w \in Wallets, w.conn = wallet.conn + 1,
         \/ w.acct = wallet.acct /\ w.ident = wallet.ident
         \/ w.acct # wallet.acct /\ w.ident = w.conn,
         NEW r, RunOK(r, wallet)
  PROVE  RunOK(r, w)
BY DEF WalletOK, Wallets, Conns, RunOK, RunsOf

LEMMA SyncWalletIsSound ==
  ASSUME IInv, NEW a \in Someone, NEW net \in Nets, SyncWallet(a, net)
  PROVE  IInv'
<1> USE OnboardingAssumption
<1> DEFINE changed == a # wallet.acct
           proof == IF changed /\ (wallet.acct # Nobody \/ a = Nobody \/ session # a)
                      THEN Nobody ELSE session
           next == [acct |-> a, net |-> net, conn |-> wallet.conn + 1,
                    ident |-> IF changed THEN wallet.conn + 1 ELSE wallet.ident]
<1>1. /\ wallet.conn < MaxChanges /\ (a = Nobody => net = "other")
      /\ wallet' = next /\ session' = proof /\ Draw(next, proof, runs)
      /\ UNCHANGED <<signin, top, clicks, names, provider, pool>>
  BY DEF SyncWallet, chains
<1>2. wallet \in Wallets /\ wallet.conn \in Conns /\ wallet.ident \in Conns
  BY DEF IInv, WalletOK, Wallets
<1>3. next \in Wallets /\ next.conn = wallet.conn + 1 /\ next.ident <= next.conn
  BY <1>1, <1>2 DEF Wallets, Conns, IInv, WalletOK
<1>4. WalletOK'
  BY <1>1, <1>3 DEF WalletOK, Someone, Chains, Nets
<1>5. PromptOK'
  BY <1>1, <1>2, <1>3 DEF IInv, PromptOK, Prompts, Conns
<1>6. SessionOK'
  BY <1>1 DEF IInv, SessionOK, SessionIsOfConnected, Someone
<1>7. \A r \in runs : RunOK(r, wallet')
  <2>1. \/ next.acct = wallet.acct /\ next.ident = wallet.ident
        \/ next.acct # wallet.acct /\ next.ident = next.conn
    OBVIOUS
  <2>2. WalletOK /\ RunsOK
    BY DEF IInv
  <2> HIDE DEF next
  <2> QED  BY <1>1, <1>3, <2>1, <2>2, RunOutlivesWallet DEF RunsOK
<1>8. DepsOK' /\ DraftOK' /\ LookupsOK' /\ RunsOK' /\ PendingOK'
  <2> HIDE DEF next, proof
  <2>1. /\ DraftOK /\ LookupsOK /\ UNCHANGED <<top, clicks>>
        /\ Draw(wallet', proof, runs)
        /\ (page.pending <=> \E r \in runs : r.mine) /\ OneMine(runs)
    BY <1>1 DEF IInv, PendingOK
  <2> QED  BY <1>4, <1>7, <2>1, DrawIsSound
<1>9. ChainsOK'
  BY <1>1 DEF IInv, ChainsOK, PaysItsOwner
<1> QED  BY <1>4, <1>5, <1>6, <1>8, <1>9 DEF IInv

LEMMA SignInIsSound ==
  ASSUME IInv, SignIn
  PROVE  IInv'
<1> USE OnboardingAssumption
<1>1. /\ signin # NoPrompt /\ signin' = NoPrompt
      /\ UNCHANGED <<wallet, top, clicks, names, provider, pool>>
  BY DEF SignIn, chains
<1>2. WalletOK' /\ PromptOK' /\ ChainsOK'
  BY <1>1 DEF IInv, WalletOK, PromptOK, NoPrompt, Prompts, Conns, Someone, ChainsOK,
     PaysItsOwner
<1>3. CASE /\ StillConnected(signin.conn)
           /\ session' = signin.acct
           /\ Draw(wallet, signin.acct, runs)
  <2>1. SessionOK'
    BY <1>1, <1>3 DEF IInv, PromptOK, Prompts, StillConnected, SessionOK, SessionIsOfConnected
  <2>2. /\ DraftOK /\ LookupsOK /\ UNCHANGED <<top, clicks>>
        /\ Draw(wallet', signin.acct, runs)
        /\ \A r \in runs : RunOK(r, wallet')
        /\ (page.pending <=> \E r \in runs : r.mine) /\ OneMine(runs)
    BY <1>1, <1>3 DEF IInv, PendingOK, RunsOK
  <2>3. DepsOK' /\ DraftOK' /\ LookupsOK' /\ RunsOK' /\ PendingOK'
    BY <1>2, <2>2, DrawIsSound
  <2> QED  BY <1>2, <2>1, <2>3 DEF IInv
<1>4. CASE UNCHANGED <<session, deps, page, lookups, runs>>
  BY <1>1, <1>2, <1>4 DEF IInv, SessionOK, SessionIsOfConnected, DepsOK, DraftOK,
     AvailabilityIsOfSlug, LookupsOK, LookupOK, RunsOK, PendingOK
<1> QED  BY <1>3, <1>4 DEF SignIn

LEMMA PromptStepsAreSound ==
  ASSUME IInv, SessionExpires \/ AskSignIn
  PROVE  IInv'
<1> USE OnboardingAssumption
<1>1. UNCHANGED <<wallet, deps, page, top, lookups, runs, clicks, names, provider, pool>>
  BY DEF SessionExpires, AskSignIn, chains
<1>2. CASE SessionExpires
  <2>1. SessionOK' /\ PromptOK'
    BY <1>1, <1>2 DEF SessionExpires, IInv, SessionOK, SessionIsOfConnected, Someone, PromptOK
  <2> QED  BY <1>1, <2>1 DEF IInv, WalletOK, DepsOK, DraftOK, AvailabilityIsOfSlug,
              LookupsOK, LookupOK, RunsOK, PendingOK, ChainsOK, PaysItsOwner
<1>3. CASE AskSignIn
  <2>1. SessionOK' /\ PromptOK'
    BY <1>1, <1>3 DEF AskSignIn, IInv, SessionOK, SessionIsOfConnected, PromptOK, WalletOK,
       Wallets, Prompts, Conns
  <2> QED  BY <1>1, <2>1 DEF IInv, WalletOK, DepsOK, DraftOK, AvailabilityIsOfSlug,
              LookupsOK, LookupOK, RunsOK, PendingOK, ChainsOK, PaysItsOwner
<1> QED  BY <1>2, <1>3

-----------------------------------------------------------------------------
(* A step of the draft disturbs the draft alone. *)
LEMMA DraftStepIsSound ==
  ASSUME IInv, ByDraft, UNCHANGED runs, page'.pending = page.pending,
         DraftOK', LookupsOK'
  PROVE  IInv'
BY DEF ByDraft, chains, IInv, WalletOK, PromptOK, SessionOK, SessionIsOfConnected, DepsOK,
   RunsOK, PendingOK, ChainsOK, PaysItsOwner

LEMMA DraftingIsSound ==
  ASSUME IInv, Draft
  PROVE  IInv'
<1> USE OnboardingAssumption
<1>1. page \in Pages /\ page.token \in 0 .. MaxEdits
  BY DEF IInv, DraftOK, Pages
<1>2. ASSUME NEW s \in Slugs \cup {NoSlug}, EditSlug(s) PROVE IInv'
  <2> DEFINE t == s \in Slugs
  <2>1. /\ page.token < MaxEdits /\ page.step = 1
        /\ page' = [page EXCEPT !.slug = s, !.available = FALSE, !.vouched = NoSlug,
                                !.token = @ + 1, !.timer = t]
        /\ UNCHANGED <<top, lookups, runs>> /\ ByDraft
    BY <1>2 DEF EditSlug
  <2>2. t \in BOOLEAN /\ (t => s \in Slugs)
    OBVIOUS
  <2> HIDE DEF t
  <2>5. /\ page'.slug = s /\ page'.available = FALSE /\ page'.timer = t
        /\ page'.token = page.token + 1
        /\ page'.step = page.step /\ page'.pending = page.pending
    BY <1>1, <2>1, <2>2 DEF Pages
  <2>6. page.token + 1 \in 0 .. MaxEdits
    BY <1>1, <2>1
  <2>7. page' \in Pages
    BY <1>1, <2>1, <2>2, <2>6 DEF Pages
  <2>3. DraftOK'
    <3>1. page'.step # Review  BY <2>1, <2>5 DEF Review
    <3>2. top' = top /\ clicks' = clicks  BY <2>1 DEF ByDraft
    <3> QED  BY <2>2, <2>5, <2>7, <3>1, <3>2 DEF IInv, DraftOK, AvailabilityIsOfSlug
  <2>4. LookupsOK'
    BY <1>1, <2>1, <2>5 DEF IInv, LookupsOK, LookupOK, Lookups
  <2> QED  BY <2>1, <2>5, <2>3, <2>4, DraftStepIsSound
<1>3. CASE CheckFires
  <2> DEFINE l == [token |-> page.token, slug |-> page.slug,
                   free |-> names[page.slug].owner = Nobody]
  <2>1. /\ page.timer /\ page' = [page EXCEPT !.timer = FALSE]
        /\ lookups' = lookups \cup {l}
        /\ UNCHANGED <<top, runs>> /\ ByDraft
    BY <1>3 DEF CheckFires
  <2>2. /\ page' \in Pages /\ page'.timer = FALSE /\ page'.slug = page.slug
        /\ page'.available = page.available /\ page'.vouched = page.vouched
        /\ page'.step = page.step /\ page'.token = page.token /\ page'.pending = page.pending
    BY <1>1, <2>1 DEF Pages
  <2>3. DraftOK'
    BY <2>1, <2>2 DEF IInv, DraftOK, AvailabilityIsOfSlug, ByDraft
  <2>4. LookupOK(l)
    BY <1>1, <2>1 DEF LookupOK, Lookups, IInv, DraftOK
  <2>5. LookupsOK'
    <3> HIDE DEF l
    <3> QED  BY <2>1, <2>2, <2>4 DEF IInv, LookupsOK, LookupOK
  <2> QED  BY <2>1, <2>2, <2>3, <2>5, DraftStepIsSound
<1>4. ASSUME NEW l \in lookups, CheckLands(l) PROVE IInv'
  <2>1. lookups' = lookups \ {l} /\ UNCHANGED <<top, runs>> /\ ByDraft
    BY <1>4 DEF CheckLands
  <2>2. CASE OfInterest(l) /\ page' = [page EXCEPT !.available = l.free, !.vouched = l.slug]
    <3>1. l \in Lookups /\ l.slug = page.slug
      BY <2>2 DEF IInv, LookupsOK, LookupOK, OfInterest
    <3>2. /\ page' \in Pages /\ page'.timer = page.timer /\ page'.slug = l.slug
          /\ page'.vouched = l.slug
          /\ page'.step = page.step /\ page'.token = page.token /\ page'.pending = page.pending
      BY <1>1, <2>2, <3>1 DEF Pages, Lookups
    <3>3. DraftOK' /\ LookupsOK'
      BY <2>1, <3>1, <3>2 DEF IInv, DraftOK, AvailabilityIsOfSlug, ByDraft, LookupsOK,
         LookupOK, Lookups
    <3> QED  BY <2>1, <3>2, <3>3, DraftStepIsSound
  <2>3. CASE UNCHANGED page
    <3>1. DraftOK' /\ LookupsOK'
      BY <2>1, <2>3 DEF IInv, DraftOK, AvailabilityIsOfSlug, ByDraft, LookupsOK, LookupOK
    <3> QED  BY <2>1, <2>3, <3>1, DraftStepIsSound
  <2> QED  BY <1>4, <2>2, <2>3 DEF CheckLands
<1>5. ASSUME NEW k \in {1, Review}, RestoreStep(k) \/ GoStep PROVE IInv'
  <2>1. /\ UNCHANGED <<lookups, runs>> /\ ByDraft /\ top' \in {1, Review}
        /\ \E j \in {1, Review} :
             page' = [page EXCEPT !.step = j] /\ (j = Review => page.slug \in Slugs)
    BY <1>1, <1>5 DEF RestoreStep, GoStep, IInv, DraftOK, Pages, Review
  <2>2. PICK j \in {1, Review} :
          page' = [page EXCEPT !.step = j] /\ (j = Review => page.slug \in Slugs)
    BY <2>1
  <2>3. /\ page' \in Pages /\ page'.timer = page.timer /\ page'.slug = page.slug
        /\ page'.available = page.available /\ page'.vouched = page.vouched
        /\ page'.step = j /\ page'.token = page.token /\ page'.pending = page.pending
    BY <1>1, <2>2 DEF Pages
  <2>4. clicks' = clicks
    BY <2>1 DEF ByDraft
  <2>5. DraftOK' /\ LookupsOK'
    BY <2>1, <2>2, <2>3, <2>4 DEF IInv, DraftOK, AvailabilityIsOfSlug, LookupsOK, LookupOK
  <2> QED  BY <2>1, <2>3, <2>5, DraftStepIsSound
<1> QED  BY <1>2, <1>3, <1>4, <1>5 DEF Draft

-----------------------------------------------------------------------------
(* A step of a click that touches neither the session nor the chains. *)
LEMMA RunStepIsSound ==
  ASSUME IInv, ByRun, UNCHANGED <<session, deps>>,
         DraftOK', LookupsOK', RunsOK', PendingOK', ChainsOK'
  PROVE  IInv'
BY DEF ByRun, IInv, WalletOK, PromptOK, SessionOK, SessionIsOfConnected, DepsOK

LEMMA ClickIsSound ==
  ASSUME IInv, Click
  PROVE  IInv'
<1> USE OnboardingAssumption
<1> DEFINE r == [index |-> page.done, slug |-> page.slug, payTo |-> deps, from |-> Nobody,
                 conn |-> 0, ident |-> wallet.ident, mine |-> TRUE, at |-> "switch"]
<1>1. /\ deps # Nobody /\ page.step = Review /\ page.done < 4 /\ ~page.pending
      /\ clicks < MaxClicks /\ clicks' = clicks + 1
      /\ page' = [page EXCEPT !.pending = TRUE] /\ runs' = runs \cup {r}
      /\ UNCHANGED <<wallet, session, signin, deps, top, lookups, names, provider, pool>>
  BY DEF Click, chains
<1>2. page \in Pages /\ wallet \in Wallets
  BY DEF IInv, DraftOK, WalletOK
<1>3. /\ page' \in Pages /\ page'.timer = page.timer /\ page'.slug = page.slug
      /\ page'.available = page.available /\ page'.vouched = page.vouched
      /\ page'.step = page.step /\ page'.token = page.token /\ page'.pending = TRUE
  BY <1>1, <1>2 DEF Pages
<1>4. r.mine /\ RunOK(r, wallet)
  <2>1. page.done \in 0 .. 3 /\ page.slug \in Slugs
    BY <1>1, <1>2 DEF Pages, IInv, DraftOK
  <2>2. deps \in Accounts /\ deps = wallet.acct
    BY <1>1 DEF IInv, DepsOK, Someone
  <2>3. wallet.ident \in Conns /\ wallet.ident <= wallet.conn /\ 0 \in Conns
    BY <1>2 DEF IInv, WalletOK, Wallets, Conns
  <2>4. r \in RunsOf
    BY <2>1, <2>2, <2>3 DEF RunsOf, Someone, Places
  <2> QED  BY <2>2, <2>3, <2>4 DEF RunOK
<1> HIDE DEF r
<1>5. DraftOK' /\ LookupsOK'
  BY <1>1, <1>3 DEF IInv, DraftOK, AvailabilityIsOfSlug, LookupsOK, LookupOK
<1>6. RunsOK' /\ PendingOK'
  BY <1>1, <1>3, <1>4 DEF IInv, RunsOK, PendingOK, OneMine
<1> QED  BY <1>1, <1>5, <1>6 DEF IInv, WalletOK, PromptOK, SessionOK, SessionIsOfConnected,
            DepsOK, ChainsOK, PaysItsOwner

(* What walletClientFor binds a click to is the connected account, which,  *)
(* under the identity the click started with, is the one it acts for.      *)
LEMMA BoundIsOK ==
  ASSUME IInv, NEW r \in runs,
         wallet.acct = r.payTo
  PROVE  RunOK(Bound(r), wallet) /\ Bound(r).mine = r.mine
<1>1. r \in RunsOf /\ RunOK(r, wallet) /\ wallet \in Wallets
  BY DEF IInv, RunsOK, RunOK, WalletOK
<1>2. /\ Bound(r) \in RunsOf /\ Bound(r).at = "client"
      /\ Bound(r).from = wallet.acct /\ Bound(r).conn = wallet.conn
      /\ Bound(r).payTo = r.payTo /\ Bound(r).ident = r.ident /\ Bound(r).mine = r.mine
  BY <1>1 DEF Bound, RunsOf, Wallets, Places
<1> QED  BY <1>1, <1>2 DEF RunOK, Wallets, Conns

LEMMA EnsureChainIsSound ==
  ASSUME IInv, NEW r \in runs, EnsureChain(r)
  PROVE  IInv'
<1> DEFINE asked == [r EXCEPT !.at = "signin", !.from = wallet.acct, !.conn = wallet.conn]
<1>1. /\ UNCHANGED <<session, deps, lookups, names, provider, pool>> /\ ByRun
      /\ UNCHANGED <<wallet, top, clicks>>
  BY DEF EnsureChain, chains, ByRun
<1>2. ChainsOK'
  BY <1>1 DEF IInv, ChainsOK, PaysItsOwner
<1>3. CASE /\ SameWallet(r) /\ UNCHANGED page
           /\ Moves(r, Bound(r)) \/ Moves(r, asked)
  <2>1. r \in RunsOf /\ RunOK(r, wallet) /\ wallet \in Wallets
    BY DEF IInv, RunsOK, RunOK, WalletOK
  <2>2. wallet.acct = r.payTo
    BY <1>3, <2>1 DEF RunOK, SameWallet
  <2>3. DraftOK' /\ LookupsOK'
    BY <1>1, <1>3 DEF IInv, DraftOK, AvailabilityIsOfSlug, LookupsOK, LookupOK
  <2>4. CASE Moves(r, Bound(r))
    <3>1. RunOK(Bound(r), wallet) /\ Bound(r).mine = r.mine
      BY <2>2, BoundIsOK
    <3>2. RunsOK' /\ PendingOK'
      BY <1>1, <1>3, <2>4, <3>1, MovesIsSound
    <3> QED  BY <1>1, <1>2, <2>3, <3>2, RunStepIsSound
  <2>5. CASE Moves(r, asked)
    <3>1. /\ asked \in RunsOf /\ asked.at = "signin"
          /\ asked.from = wallet.acct /\ asked.conn = wallet.conn
          /\ asked.payTo = r.payTo /\ asked.ident = r.ident /\ asked.mine = r.mine
      BY <2>1 DEF RunsOf, Wallets, Places
    <3> HIDE DEF asked
    <3>2. RunOK(asked, wallet)
      BY <2>1, <2>2, <3>1 DEF RunOK, Wallets, Conns
    <3>3. RunsOK' /\ PendingOK'
      BY <1>1, <1>3, <2>5, <3>1, <3>2, MovesIsSound
    <3> QED  BY <1>1, <1>2, <2>3, <3>3, RunStepIsSound
  <2> QED  BY <1>3, <2>4, <2>5
<1>4. CASE Ends(r, FALSE)
  <2>1. DraftOK' /\ LookupsOK' /\ RunsOK' /\ PendingOK'
    BY <1>1, <1>4, EndsIsSound
  <2> QED  BY <1>1, <1>2, <2>1, RunStepIsSound
<1> QED  BY <1>3, <1>4 DEF EnsureChain

LEMMA SignForStepIsSound ==
  ASSUME IInv, NEW r \in runs, SignForStep(r)
  PROVE  IInv'
<1>1. r.at = "signin" /\ UNCHANGED <<names, provider, pool>> /\ ByRun
      /\ UNCHANGED <<wallet, signin, top, clicks>>
  BY DEF SignForStep, chains, ByRun
<1>2. ChainsOK' /\ WalletOK' /\ PromptOK'
  BY <1>1 DEF IInv, ChainsOK, PaysItsOwner, WalletOK, PromptOK
<1>3. r \in RunsOf /\ RunOK(r, wallet)
  BY DEF IInv, RunsOK, RunOK
<1>4. CASE /\ StillConnected(r.conn)
           /\ session' = r.from
           /\ Draw(wallet, r.from, (runs \ {r}) \cup {Bound(r)})
  <2>1. r.from = wallet.acct /\ wallet.acct = r.payTo
    BY <1>1, <1>3, <1>4 DEF RunOK, StillConnected
  <2>2. SessionOK'
    BY <1>1, <1>3, <1>4, <2>1 DEF SessionOK, SessionIsOfConnected, RunsOf
  <2>3. RunOK(Bound(r), wallet) /\ Bound(r).mine = r.mine
    BY <2>1, BoundIsOK
  <2> DEFINE R == (runs \ {r}) \cup {Bound(r)}
  <2>4. \A q \in R : RunOK(q, wallet')
    BY <1>1, <2>3 DEF IInv, RunsOK
  <2>5. PendingOK
    BY DEF IInv
  <2>6. (page.pending <=> \E q \in R : q.mine) /\ OneMine(R)
    BY <2>3, <2>5, MovingKeepsMine
  <2>7. Draw(wallet', r.from, R)
    BY <1>1, <1>4
  <2> HIDE DEF R
  <2>8. DraftOK /\ LookupsOK
    BY DEF IInv
  <2>9. DepsOK' /\ DraftOK' /\ LookupsOK' /\ RunsOK' /\ PendingOK'
    BY <1>1, <1>2, <2>4, <2>6, <2>7, <2>8, DrawIsSound
  <2> QED  BY <1>2, <2>2, <2>9 DEF IInv
<1>5. CASE Ends(r, FALSE) /\ UNCHANGED <<session, deps, lookups>>
  <2>1. DraftOK' /\ LookupsOK' /\ RunsOK' /\ PendingOK'
    BY <1>1, <1>5, EndsIsSound
  <2> QED  BY <1>1, <1>2, <1>5, <2>1, RunStepIsSound
<1> QED  BY <1>4, <1>5 DEF SignForStep

LEMMA RequestIsSound ==
  ASSUME IInv, NEW r \in runs, Request(r)
  PROVE  IInv'
<1> DEFINE asked == [r EXCEPT !.at = "popup"]
<1>1. /\ UNCHANGED <<session, deps, lookups, names, provider, pool>> /\ ByRun
      /\ UNCHANGED <<wallet, top, clicks>> /\ r.at = "client"
  BY DEF Request, chains, ByRun
<1>2. ChainsOK'
  BY <1>1 DEF IInv, ChainsOK, PaysItsOwner
<1>3. CASE Moves(r, asked) /\ UNCHANGED page
  <2>1. r \in RunsOf /\ RunOK(r, wallet)
    BY DEF IInv, RunsOK, RunOK
  <2>2. /\ asked \in RunsOf /\ asked.at = "popup"
        /\ asked.from = r.from /\ asked.conn = r.conn
        /\ asked.payTo = r.payTo /\ asked.ident = r.ident /\ asked.mine = r.mine
    BY <2>1 DEF RunsOf, Places
  <2> HIDE DEF asked
  <2>3. RunOK(asked, wallet)
    BY <1>1, <2>1, <2>2 DEF RunOK
  <2>4. RunsOK' /\ PendingOK'
    BY <1>1, <1>3, <2>2, <2>3, MovesIsSound
  <2>5. DraftOK' /\ LookupsOK'
    BY <1>1, <1>3 DEF IInv, DraftOK, AvailabilityIsOfSlug, LookupsOK, LookupOK
  <2> QED  BY <1>1, <1>2, <2>4, <2>5, RunStepIsSound
<1>4. CASE Ends(r, FALSE)
  <2>1. DraftOK' /\ LookupsOK' /\ RunsOK' /\ PendingOK'
    BY <1>1, <1>4, EndsIsSound
  <2> QED  BY <1>1, <1>2, <2>1, RunStepIsSound
<1> QED  BY <1>3, <1>4 DEF Request

LEMMA StepsAreOnChains ==
  \A i \in 0 .. 3 : Steps[i + 1].key \in {"claim", "register", "url", "sla"}
                 /\ Steps[i + 1].chain \in Chains
BY DEF Steps, Chains

LEMMA AnswerIsSound ==
  ASSUME IInv, NEW r \in runs, Answer(r)
  PROVE  IInv'
<1>1. /\ UNCHANGED <<session, deps, lookups, names, provider>> /\ ByRun
      /\ UNCHANGED <<wallet, top, clicks>> /\ r.at = "popup"
  BY DEF Answer, ByRun
<1>2. r \in RunsOf /\ r.from = r.payTo
  BY <1>1 DEF IInv, RunsOK, RunOK
<1>3. Tx(r) \in Broadcast /\ Chain(r) \in Chains
  BY <1>2, StepsAreOnChains DEF Tx, Chain, RunsOf, Broadcast, Txs
<1>4. PICK hash \in BOOLEAN : Ends(r, hash)
  BY DEF Answer
<1>5. DraftOK' /\ LookupsOK' /\ RunsOK' /\ PendingOK'
  BY <1>1, <1>4, EndsIsSound
<1>6. pool' \in [Chains -> Seq(Broadcast)]
  <2>1. pool \in [Chains -> Seq(Broadcast)]
    BY DEF IInv, ChainsOK
  <2>2. CASE UNCHANGED pool
    BY <2>1, <2>2
  <2>3. CASE pool' = [pool EXCEPT ![Chain(r)] = Append(@, Tx(r))]
    <3>1. Append(pool[Chain(r)], Tx(r)) \in Seq(Broadcast)
      BY <1>3, <2>1
    <3> QED  BY <1>3, <2>1, <2>3, <3>1
  <2> QED  BY <2>2, <2>3 DEF Answer
<1>7. ChainsOK'
  BY <1>1, <1>6 DEF IInv, ChainsOK, PaysItsOwner
<1> QED  BY <1>1, <1>5, <1>7, RunStepIsSound

-----------------------------------------------------------------------------
(* Mining and a rival's claim disturb the chains alone. *)
LEMMA ChainStepIsSound ==
  ASSUME IInv, ByChain, ChainsOK'
  PROVE  IInv'
BY DEF ByChain, IInv, WalletOK, PromptOK, SessionOK, SessionIsOfConnected, DepsOK, DraftOK,
   AvailabilityIsOfSlug, LookupsOK, LookupOK, RunsOK, PendingOK

(* A claim that pays whoever makes it keeps every name so. *)
LEMMA ClaimedPaysOwner ==
  ASSUME ChainsOK, NEW s \in Slugs, NEW a \in Someone \cup {Rival}
  PROVE  /\ Claimed(s, a, a) \in [Slugs -> Entries]
         /\ \A q \in Slugs : Claimed(s, a, a)[q].payTo = Claimed(s, a, a)[q].owner
<1> DEFINE entry == [Unclaimed EXCEPT !.owner = a, !.payTo = a]
<1>1. entry \in Entries /\ entry.payTo = entry.owner
  BY DEF Unclaimed, Entries
<1>2. Claimed(s, a, a) = IF names[s].owner # Nobody THEN names ELSE [names EXCEPT ![s] = entry]
  BY DEF Claimed
<1> HIDE DEF entry
<1> QED  BY <1>1, <1>2 DEF ChainsOK, PaysItsOwner

(* A record that is set leaves owner and payout address alone. *)
LEMMA WrittenPaysOwner ==
  ASSUME ChainsOK, NEW tx \in Broadcast, tx.key \in {"url", "sla"}
  PROVE  /\ Written(tx) \in [Slugs -> Entries]
         /\ \A q \in Slugs : Written(tx)[q].payTo = Written(tx)[q].owner
<1> DEFINE entry == [names[tx.slug] EXCEPT ![tx.key] = TRUE]
<1>1. tx.slug \in Slugs /\ names[tx.slug] \in Entries
  BY DEF ChainsOK, Broadcast, Txs
<1>2. entry \in Entries /\ entry.payTo = names[tx.slug].payTo
        /\ entry.owner = names[tx.slug].owner
  <2>1. CASE tx.key = "url"
    BY <1>1, <2>1 DEF Entries
  <2>2. CASE tx.key = "sla"
    BY <1>1, <2>2 DEF Entries
  <2> QED  BY <2>1, <2>2
<1>3. Written(tx) = IF names[tx.slug].owner # tx.from THEN names
                    ELSE [names EXCEPT ![tx.slug] = entry]
  BY DEF Written
<1> HIDE DEF entry
<1> QED  BY <1>1, <1>2, <1>3 DEF ChainsOK, PaysItsOwner

LEMMA RemoveAtIsSeq ==
  ASSUME NEW T, NEW s \in Seq(T), NEW i \in 1 .. Len(s)
  PROVE  RemoveAt(s, i) \in Seq(T)
BY DEF RemoveAt

LEMMA MineIsSound ==
  ASSUME IInv, NEW c \in Chains, NEW i \in 1 .. Len(pool[c]), Mine(c, i)
  PROVE  IInv'
<1> USE OnboardingAssumption
<1> DEFINE tx == pool[c][i]
<1>1. ChainsOK /\ pool \in [Chains -> Seq(Broadcast)] /\ pool[c] \in Seq(Broadcast)
  BY DEF IInv, ChainsOK
<1>2. tx \in Broadcast /\ tx.slug \in Slugs /\ tx.from \in Accounts /\ tx.payTo = tx.from
        /\ tx.key \in {"claim", "register", "url", "sla"}
  BY <1>1 DEF Broadcast, Txs
<1>3. ByChain /\ pool' = [pool EXCEPT ![c] = RemoveAt(@, i)]
  BY DEF Mine
<1>4. pool' \in [Chains -> Seq(Broadcast)]
  BY <1>1, <1>3, RemoveAtIsSeq
<1>5. \/ /\ tx.key = "register"
         /\ provider' = [provider EXCEPT ![tx.slug] = IF @ = Nobody THEN tx.from ELSE @]
         /\ UNCHANGED names
      \/ /\ tx.key = "claim"
         /\ names' = Claimed(tx.slug, tx.from, tx.payTo) /\ UNCHANGED provider
      \/ /\ tx.key \in {"url", "sla"}
         /\ names' = Written(tx) /\ UNCHANGED provider
  BY <1>2 DEF Mine
<1> HIDE DEF tx
<1>6. provider' \in [Slugs -> Someone]
  BY <1>1, <1>2, <1>5 DEF ChainsOK, Someone
<1>7. names' \in [Slugs -> Entries] /\ PaysItsOwner'
  <2>1. CASE UNCHANGED names
    BY <1>1, <2>1 DEF ChainsOK, PaysItsOwner
  <2>2. CASE names' = Claimed(tx.slug, tx.from, tx.payTo)
    <3>1. tx.from \in Someone \cup {Rival} /\ names' = Claimed(tx.slug, tx.from, tx.from)
      BY <1>2, <2>2 DEF Someone
    <3> QED  BY <1>1, <1>2, <3>1, ClaimedPaysOwner DEF PaysItsOwner
  <2>3. CASE tx.key \in {"url", "sla"} /\ names' = Written(tx)
    BY <1>1, <1>2, <2>3, WrittenPaysOwner DEF PaysItsOwner
  <2> QED  BY <1>5, <2>1, <2>2, <2>3
<1>8. ChainsOK'
  BY <1>4, <1>6, <1>7 DEF ChainsOK
<1> QED  BY <1>3, <1>8, ChainStepIsSound

LEMMA RivalClaimsIsSound ==
  ASSUME IInv, NEW s \in Slugs, RivalClaims(s)
  PROVE  IInv'
<1>1. names' = Claimed(s, Rival, Rival) /\ UNCHANGED <<provider, pool>> /\ ByChain
  BY DEF RivalClaims
<1>2. ChainsOK'
  BY <1>1, ClaimedPaysOwner DEF IInv, ChainsOK, PaysItsOwner
<1> QED  BY <1>1, <1>2, ChainStepIsSound

LEMMA NextIsSound == IInv /\ [Next]_vars => IInv'
<1> SUFFICES ASSUME IInv, [Next]_vars PROVE IInv'
  OBVIOUS
<1>1. CASE Wallet
  BY <1>1, SyncWalletIsSound, SignInIsSound, PromptStepsAreSound DEF Wallet, Nets
<1>2. CASE Draft
  BY <1>2, DraftingIsSound
<1>3. CASE Sign
  BY <1>3, ClickIsSound, EnsureChainIsSound, SignForStepIsSound, RequestIsSound,
     AnswerIsSound DEF Sign
<1>4. CASE Settle
  BY <1>4, MineIsSound, RivalClaimsIsSound DEF Settle
<1>5. CASE UNCHANGED vars
  BY <1>5 DEF vars, chains, IInv, WalletOK, PromptOK, SessionOK, SessionIsOfConnected, DepsOK,
     DraftOK, AvailabilityIsOfSlug, LookupsOK, LookupOK, RunsOK, PendingOK, ChainsOK,
     PaysItsOwner
<1> QED  BY <1>1, <1>2, <1>3, <1>4, <1>5 DEF Next

LEMMA AlwaysSound == Spec => []IInv
BY InitIsSound, NextIsSound, PTL DEF Spec

-----------------------------------------------------------------------------
(* Every state of the wizard is of the types declared for it, and it waits *)
(* exactly while one of its clicks is in flight.                           *)
THEOREM OnboardingTypes == Spec => []TypeOK
<1>1. IInv => TypeOK
  <2> SUFFICES ASSUME IInv PROVE TypeOK
    OBVIOUS
  <2>1. wallet \in Wallets /\ signin \in Prompts /\ session \in Someone /\ deps \in Someone
    BY DEF IInv, WalletOK, PromptOK, SessionOK, DepsOK
  <2>2. /\ page \in Pages /\ top \in {1, Review} /\ clicks \in 0 .. MaxClicks
        /\ lookups \subseteq Lookups /\ runs \subseteq RunsOf
    BY DEF IInv, DraftOK, LookupsOK, LookupOK, RunsOK, RunOK
  <2>3. \A s \in Slugs : names[s].owner \in Someone \cup {Rival} /\ provider[s] \in Someone
    BY DEF IInv, ChainsOK, Entries
  <2>4. \A c \in Chains : pool[c] \in Seq(Txs)
    <3> SUFFICES ASSUME NEW c \in Chains PROVE pool[c] \in Seq(Txs)
      OBVIOUS
    <3>1. pool[c] \in Seq(Broadcast)
      BY DEF IInv, ChainsOK
    <3>2. Broadcast \subseteq Txs
      BY DEF Broadcast
    <3> QED  BY <3>1, <3>2
  <2>5. page.pending <=> \E r \in runs : r.mine
    BY DEF IInv, PendingOK
  <2> QED  BY <2>1, <2>2, <2>3, <2>4, <2>5 DEF TypeOK, Wallets, Prompts, Pages, Lookups,
              RunsOf, Conns, Nets, Places
<1> QED  BY <1>1, AlwaysSound, PTL

(* session.js, wallet.js: whatever order prompts are answered and accounts *)
(* are switched in, the stored proof never names another account than the  *)
(* connected one.                                                          *)
THEOREM SessionsAreOfTheConnected == Spec => []SessionIsOfConnected
<1>1. IInv => SessionIsOfConnected
  BY DEF IInv, SessionOK
<1> QED  BY <1>1, AlwaysSound, PTL

(* wizard.js: however late a lookup answers, the slug that is offered is   *)
(* the slug it was about.                                                  *)
THEOREM AvailabilityIsAboutTheSlug == Spec => []AvailabilityIsOfSlug
<1>1. IInv => AvailabilityIsOfSlug
  BY DEF IInv, DraftOK
<1> QED  BY <1>1, AlwaysSound, PTL

(* wizard.js, wallet.js: whenever the wallet changes between a click and   *)
(* its transaction, a name that ends up claimed pays its owner.            *)
THEOREM NamesPayTheirOwner == Spec => []PaysItsOwner
<1>1. IInv => PaysItsOwner
  BY DEF IInv, ChainsOK
<1> QED  BY <1>1, AlwaysSound, PTL
=============================================================================
