--------------------------- MODULE SessionsProofs ---------------------------
(***************************************************************************)
(* Proofs about Sessions, for any number of tokens, links and requests.    *)
(*                                                                         *)
(* What a transaction found under its locks stays true until it commits,   *)
(* because whoever would change it needs one of them: the row locks are    *)
(* exclusive, and a token can only be added under a lock on the user.      *)
(***************************************************************************)
EXTENDS Sessions, TLAPS

Tx == [kind : Kinds, at : Stages, row : Tokens \cup Resets \cup {NoRow},
       heir : Tokens \cup {NoRow}, todo : SUBSET (Tokens \cup Resets),
       held : SUBSET (Tokens \cup Resets),
       user : {"none", "share", "update", "exclusive"}]

\* What request q relies on.
MintFits(q) ==
  /\ q.kind = "refresh" => q.row \in Tokens
  /\ q.heir # NoRow => q.at = "minted"
  /\ q.at \in {"mint", "minted"} => /\ q.kind = "refresh" /\ q.row \in q.held
                                    /\ tok[q.row] = "live" /\ status # "inactive"
  /\ q.at = "minted" => q.heir \in Tokens /\ tok[q.heir] = "free" /\ q.user = "share"

EnderFits(q) ==
  /\ q.kind \in Enders /\ q.at \in {"scan", "sweep"} => q.user = "exclusive"
  /\ q.kind \in Enders /\ q.at = "sweep" => Live \subseteq q.todo \cup q.held

ResetFits(q) ==
  /\ q.held \cap Resets \subseteq Open
  /\ q.kind = "reset" => q.row \in Resets
  /\ q.kind = "reset" /\ q.at \in {"use", "scan", "sweep"} => q.row \in q.held

Fits(q) == MintFits(q) /\ EnderFits(q) /\ ResetFits(q)
AllFit == \A c \in Clients : Fits(tx[c])

\* Locks on the user that exclude each other have one owner, so has an heir.
Apart == \A c, d \in Clients : c # d =>
  /\ <<tx[c].user, tx[d].user>> \notin Conflicts
  /\ tx[c].heir # NoRow => tx[d].heir # tx[c].heir

\* A chain begins with a token that was issued.
Rooted == \A t \in Tokens : tok[t] # "free" => tok[login[t]] # "free"

Sound == TypeOK /\ AllFit /\ Apart /\ Rooted /\ OneLivePerLogin

-----------------------------------------------------------------------------

LEMMA IdleFits == Idle \in Tx /\ Fits(Idle)
<1>1. Idle \in Tx
  BY DEF Idle, Tx, Kinds, Stages
<1>2. Fits(Idle)
  BY DEF Idle, Fits, MintFits, EnderFits, ResetFits, Enders
<1> QED BY <1>1, <1>2

LEMMA TypeOfTx == TypeOK => tx \in [Clients -> Tx]
BY DEF TypeOK, Tx

LEMMA SoundInit == Init => Sound
<1> SUFFICES ASSUME Init PROVE Sound
  OBVIOUS
<1>1. \A c \in Clients : tx[c] = Idle
  BY DEF Init
<1>2. TypeOK
  <2>1. \A c, d \in Clients : tx[c].held \cap tx[d].held = {}
    BY <1>1 DEF Idle
  <2> QED BY <2>1, IdleFits DEF Init, CreatedUser, TypeOK, Tx
<1>3. AllFit
  BY <1>1, IdleFits DEF AllFit
<1>4. Apart
  BY <1>1 DEF Apart, Idle, Conflicts
<1>5. Rooted /\ OneLivePerLogin
  BY DEF Init, Rooted, OneLivePerLogin, Live
<1> QED BY <1>2, <1>3, <1>4, <1>5 DEF Sound

-----------------------------------------------------------------------------
(* Steps that change no row.                                               *)

LEMMA SameData ==
  ASSUME UNCHANGED <<status, tok, login, link>>, NEW q, Fits(q)
  PROVE  Fits(q)'
BY DEF Fits, MintFits, EnderFits, ResetFits, Live, Open

\* Request c goes on as q, which fits and stays apart from the others.
LEMMA GoStep ==
  ASSUME Sound, NEW c \in Clients, NEW q \in Tx, Go(c, q), Fits(q),
         \A d \in Clients \ {c} : /\ q.held \cap tx[d].held = {}
                                  /\ <<q.user, tx[d].user>> \notin Conflicts
                                  /\ q.heir # NoRow => tx[d].heir # q.heir
  PROVE  Sound'
<1>1. /\ UNCHANGED <<status, tok, login, link>>
      /\ tx' \in [Clients -> Tx]
      /\ \A d \in Clients : tx'[d] = IF d = c THEN q ELSE tx[d]
  BY TypeOfTx DEF Go, Sound
<1>2. \A d, e \in Clients : d # e => tx'[d].held \cap tx'[e].held = {}
  BY <1>1 DEF Sound, TypeOK
<1>3. TypeOK'
  BY <1>1, <1>2 DEF Sound, TypeOK, Tx
<1>4. AllFit'
  <2> SUFFICES ASSUME NEW d \in Clients PROVE Fits(tx[d])'
    BY DEF AllFit
  <2>1. Fits(tx'[d])
    BY <1>1 DEF Sound, AllFit
  <2> QED BY <1>1, <2>1 DEF Fits, MintFits, EnderFits, ResetFits, Live, Open
<1>5. \A m, n : <<m, n>> \in Conflicts <=> <<n, m>> \in Conflicts
  BY DEF Conflicts
<1>6. Apart'
  BY <1>1, <1>5 DEF Sound, Apart
<1>7. (Rooted /\ OneLivePerLogin)'
  BY <1>1 DEF Sound, Rooted, OneLivePerLogin, Live
<1> QED BY <1>3, <1>4, <1>6, <1>7 DEF Sound

\* The same, when c takes no lock it did not have.
LEMMA NoNewLock ==
  ASSUME Sound, NEW c \in Clients, NEW q \in Tx, Go(c, q), Fits(q),
         q.held \subseteq tx[c].held, q.user \in {"none", tx[c].user}, q.heir \in {NoRow, tx[c].heir}
  PROVE  Sound'
<1>1. ASSUME NEW d \in Clients \ {c}
      PROVE  /\ q.held \cap tx[d].held = {}
             /\ <<q.user, tx[d].user>> \notin Conflicts
             /\ q.heir # NoRow => tx[d].heir # q.heir
  BY <1>1 DEF Sound, TypeOK, Apart, Conflicts
<1> QED BY <1>1, GoStep

LEMMA ToIdle ==
  ASSUME Sound, NEW c \in Clients, Go(c, Idle)
  PROVE  Sound'
<1>1. Idle.held = {} /\ Idle.user = "none" /\ Idle.heir = NoRow
  BY DEF Idle
<1> QED BY <1>1, IdleFits, NoNewLock

\* A request begins: it holds nothing yet.
LEMMA StartStep ==
  ASSUME Sound, NEW c \in Clients, NEW q \in Tx, Start(c, q), Fits(q),
         q.held = {}, q.user = "none", q.heir = NoRow
  PROVE  Sound'
BY NoNewLock DEF Start, Go

LEMMA AskFits ==
  ASSUME NEW kind \in Kinds, NEW row \in Tokens \cup Resets \cup {NoRow},
         kind = "reset" => row \in Resets, kind = "refresh" => row \in Tokens
  PROVE  /\ Ask(kind, row) \in Tx /\ Fits(Ask(kind, row))
         /\ Ask(kind, row).held = {} /\ Ask(kind, row).user = "none" /\ Ask(kind, row).heir = NoRow
<1> DEFINE q == Ask(kind, row)
<1>1. Idle \in Tx
  BY IdleFits
<1>2. q \in Tx
  BY <1>1 DEF Ask, Tx
<1>3. q.kind = kind /\ q.row = row
  BY <1>1 DEF Ask, Tx
<1>4. q.at = "start" /\ q.heir = NoRow /\ q.held = {} /\ q.user = "none"
  BY DEF Ask, Idle
<1> HIDE DEF q
<1>5. Fits(q)
  BY <1>3, <1>4 DEF Fits, MintFits, EnderFits, ResetFits
<1> QED BY <1>2, <1>4, <1>5 DEF q

LEMMA StartsStep ==
  ASSUME Sound, NEW c \in Clients,
         \/ StartLogin(c)
         \/ \E t \in Tokens : StartRefresh(c, t)
         \/ \E kind \in Enders : StartEnder(c, kind)
         \/ \E r \in Resets : StartReset(c, r)
  PROVE  Sound'
<1> USE DEF Kinds, Enders
<1>1. CASE StartLogin(c)
  BY <1>1, AskFits, StartStep DEF StartLogin
<1>2. ASSUME NEW t \in Tokens, StartRefresh(c, t) PROVE Sound'
  BY <1>2, AskFits, StartStep DEF StartRefresh
<1>3. ASSUME NEW kind \in Enders, StartEnder(c, kind) PROVE Sound'
  BY <1>3, AskFits, StartStep DEF StartEnder
<1>4. ASSUME NEW r \in Resets, StartReset(c, r) PROVE Sound'
  <2> DEFINE a == Ask("reset", r)  q == [a EXCEPT !.at = "links", !.todo = Open]
  <2>1. a \in Tx /\ Fits(a) /\ a.held = {} /\ a.user = "none" /\ a.heir = NoRow
    BY AskFits
  <2>2. a.kind = "reset"
    BY DEF Ask, Idle
  <2> HIDE DEF a
  <2>3. Open \in SUBSET (Tokens \cup Resets)
    BY DEF Open
  <2>4. q \in Tx /\ q.kind = "reset" /\ q.held = {} /\ q.user = "none" /\ q.heir = NoRow /\ q.at = "links"
        /\ q.row = a.row
    BY <2>1, <2>2, <2>3 DEF Tx, Stages
  <2> HIDE DEF q
  <2>5. Fits(q)
    BY <2>1, <2>2, <2>4 DEF Fits, MintFits, EnderFits, ResetFits
  <2>6. Start(c, q)
    BY <1>4 DEF StartReset, a, q
  <2> QED BY <2>4, <2>5, <2>6, StartStep
<1> QED BY <1>1, <1>2, <1>3, <1>4

LEMMA LockTokenStep ==
  ASSUME Sound, NEW c \in Clients, LockToken(c)
  PROVE  Sound'
<1> DEFINE q == tx[c]  t == q.row
<1>1. q \in Tx /\ Fits(q) /\ q.kind = "refresh" /\ q.at = "start"
  BY TypeOfTx DEF LockToken, At, Sound, AllFit
<1>2. t \in Tokens /\ RowFree(c, t) /\ q.heir = NoRow
  BY <1>1 DEF LockToken, Fits, MintFits
<1>3. ASSUME NEW at \in {"mint", "scan"}, Go(c, [q EXCEPT !.at = at, !.held = {t}]),
             at = "mint" => tok[t] = "live" /\ status # "inactive"
      PROVE  Sound'
  <2> DEFINE r == [q EXCEPT !.at = at, !.held = {t}]
  <2>1. /\ r \in Tx /\ r.kind = "refresh" /\ r.at = at /\ r.held = {t} /\ r.row = t
        /\ r.heir = NoRow /\ r.user = q.user
    BY <1>1, <1>2 DEF Tx, Stages
  <2> HIDE DEF r
  <2>2. Fits(r)
    BY <1>2, <1>3, <2>1, SessionsAssumption DEF Fits, MintFits, EnderFits, ResetFits, Enders
  <2>3. ASSUME NEW d \in Clients \ {c}
        PROVE  r.held \cap tx[d].held = {} /\ <<r.user, tx[d].user>> \notin Conflicts
    BY <1>2, <2>1 DEF RowFree, Sound, Apart
  <2> QED BY <1>3, <2>1, <2>2, <2>3, GoStep DEF r
<1>4. CASE Go(c, Idle)
  BY <1>4, ToIdle
<1> QED BY <1>3, <1>4 DEF LockToken, Rotatable

LEMMA MintStep ==
  ASSUME Sound, NEW c \in Clients, NEW t \in Tokens, Mint(c, t)
  PROVE  Sound'
<1> DEFINE q == tx[c]  r == [q EXCEPT !.at = "minted", !.heir = t, !.user = "share"]
<1>1. q \in Tx /\ Fits(q) /\ q.at = "mint"
  BY TypeOfTx DEF Mint, At, Sound, AllFit
<1>2. tok[t] = "free" /\ UserFree(c, "share") /\ \A d \in Clients : tx[d].heir # t
  BY DEF Mint, CreateRefreshToken
<1>3. /\ r \in Tx /\ r.kind = q.kind /\ r.at = "minted" /\ r.held = q.held /\ r.row = q.row
      /\ r.heir = t /\ r.user = "share" /\ r.todo = q.todo
  BY <1>1 DEF Tx, Stages
<1>4. Go(c, r)
  BY DEF Mint
<1> HIDE DEF r
<1>5. Fits(r)
  BY <1>1, <1>2, <1>3 DEF Fits, MintFits, EnderFits, ResetFits, Enders
<1>6. ASSUME NEW d \in Clients \ {c}
      PROVE  r.held \cap tx[d].held = {} /\ <<r.user, tx[d].user>> \notin Conflicts /\ tx[d].heir # r.heir
  BY <1>2, <1>3 DEF UserFree, Sound, TypeOK
<1> QED BY <1>3, <1>4, <1>5, <1>6, GoStep

LEMMA LockUserStep ==
  ASSUME Sound, NEW c \in Clients, LockUser(c)
  PROVE  Sound'
<1> DEFINE q == tx[c]  r == [q EXCEPT !.at = "scan", !.user = "exclusive"]
<1>1. q \in Tx /\ Fits(q) /\ q.at = "start" /\ q.kind \in Enders /\ UserFree(c, "exclusive")
  BY TypeOfTx DEF LockUser, LockForUpdate, At, Sound, AllFit
<1>2. CASE Go(c, Idle)
  BY <1>2, ToIdle
<1>3. CASE Go(c, r)
  <2>1. /\ r \in Tx /\ r.kind = q.kind /\ r.at = "scan" /\ r.held = q.held /\ r.row = q.row
        /\ r.heir = q.heir /\ r.user = "exclusive"
    BY <1>1 DEF Tx, Stages
  <2> HIDE DEF r
  <2>2. Fits(r)
    BY <1>1, <2>1 DEF Fits, MintFits, EnderFits, ResetFits, Enders
  <2>3. ASSUME NEW d \in Clients \ {c}
        PROVE  /\ r.held \cap tx[d].held = {} /\ <<r.user, tx[d].user>> \notin Conflicts
               /\ r.heir # NoRow => tx[d].heir # r.heir
    BY <1>1, <2>1 DEF UserFree, Sound, TypeOK, Apart
  <2> QED BY <1>3, <2>1, <2>2, <2>3, GoStep
<1> QED BY <1>2, <1>3 DEF LockUser, LockForUpdate

LEMMA UseAllStep ==
  ASSUME Sound, NEW c \in Clients, UseAll(c)
  PROVE  Sound'
<1> DEFINE q == tx[c]  r == [q EXCEPT !.at = "use", !.todo = Open \ q.held]
<1>1. q \in Tx /\ Fits(q) /\ q.at = "links" /\ q.kind = "reset"
  BY TypeOfTx DEF UseAll, At, Sound, AllFit
<1>2. CASE Go(c, Idle)
  BY <1>2, ToIdle
<1>3. CASE Go(c, r) /\ q.row \in q.held
  <2>0. Open \ q.held \in SUBSET (Tokens \cup Resets)
    BY DEF Open
  <2>1. /\ r \in Tx /\ r.kind = q.kind /\ r.at = "use" /\ r.held = q.held /\ r.row = q.row
        /\ r.heir = q.heir /\ r.user = q.user
    BY <1>1, <2>0 DEF Tx, Stages
  <2> HIDE DEF r
  <2>2. Fits(r)
    BY <1>1, <1>3, <2>1 DEF Fits, MintFits, EnderFits, ResetFits, Enders
  <2> QED BY <1>3, <2>1, <2>2, NoNewLock
<1> QED BY <1>2, <1>3 DEF UseAll, Found

LEMMA LockUserRowStep ==
  ASSUME Sound, NEW c \in Clients, LockUserRow(c)
  PROVE  Sound'
<1> DEFINE q == tx[c]  r == [q EXCEPT !.at = "scan", !.user = "update"]
<1>1. q \in Tx /\ Fits(q) /\ q.at = "use" /\ q.kind = "reset" /\ UserFree(c, "update") /\ Go(c, r)
  BY TypeOfTx DEF LockUserRow, At, Sound, AllFit
<1>2. /\ r \in Tx /\ r.kind = q.kind /\ r.at = "scan" /\ r.held = q.held /\ r.row = q.row
      /\ r.heir = q.heir /\ r.user = "update"
  BY <1>1 DEF Tx, Stages
<1> HIDE DEF r
<1>3. Fits(r)
  BY <1>1, <1>2 DEF Fits, MintFits, EnderFits, ResetFits, Enders
<1>4. ASSUME NEW d \in Clients \ {c}
      PROVE  /\ r.held \cap tx[d].held = {} /\ <<r.user, tx[d].user>> \notin Conflicts
             /\ r.heir # NoRow => tx[d].heir # r.heir
  BY <1>1, <1>2 DEF UserFree, Sound, TypeOK, Apart
<1> QED BY <1>1, <1>2, <1>3, <1>4, GoStep

LEMMA ScanStep ==
  ASSUME Sound, NEW c \in Clients, Scan(c)
  PROVE  Sound'
<1> DEFINE q == tx[c]  r == [q EXCEPT !.at = "sweep", !.todo = ToSweep(c)]
<1>1. q \in Tx /\ Fits(q) /\ q.at = "scan" /\ Go(c, r)
  BY TypeOfTx DEF Scan, Sound, AllFit
<1>2. ToSweep(c) \in SUBSET (Tokens \cup Resets) /\ Live \subseteq ToSweep(c) \cup q.held
  BY DEF ToSweep, Live
<1>3. /\ r \in Tx /\ r.kind = q.kind /\ r.at = "sweep" /\ r.held = q.held /\ r.row = q.row
      /\ r.heir = q.heir /\ r.user = q.user /\ r.todo = ToSweep(c)
  BY <1>1, <1>2 DEF Tx, Stages
<1> HIDE DEF r
<1>4. Fits(r)
  BY <1>1, <1>2, <1>3 DEF Fits, MintFits, EnderFits, ResetFits, Enders
<1> QED BY <1>1, <1>3, <1>4, NoNewLock

LEMMA LockRowStep ==
  ASSUME Sound, NEW c \in Clients, NEW x \in Tokens \cup Resets, LockRow(c, x)
  PROVE  Sound'
<1> DEFINE q == tx[c]  held == IF x \in Live \cup Open THEN q.held \cup {x} ELSE q.held
           r == [q EXCEPT !.todo = q.todo \ {x}, !.held = held]
<1>1. q \in Tx /\ Fits(q) /\ RowFree(c, x)
  BY TypeOfTx DEF LockRow, Sound, AllFit
<1>2. Go(c, r)
  BY DEF LockRow
<1>3. held \in SUBSET (Tokens \cup Resets) /\ q.todo \ {x} \in SUBSET (Tokens \cup Resets)
      /\ q.held \subseteq held /\ held \subseteq q.held \cup {x}
      /\ Live \cap (q.todo \cup q.held) \subseteq (q.todo \ {x}) \cup held
  BY <1>1 DEF Tx
<1>4. held \cap Resets \subseteq Open
  BY <1>1, SessionsAssumption DEF Fits, ResetFits, Live
<1> HIDE DEF held
<1>5. /\ r \in Tx /\ r.kind = q.kind /\ r.at = q.at /\ r.held = held /\ r.row = q.row
      /\ r.heir = q.heir /\ r.user = q.user /\ r.todo = q.todo \ {x}
  BY <1>1, <1>3 DEF Tx
<1> HIDE DEF r
<1>6. Fits(r)
  <2>1. MintFits(r)
    BY <1>1, <1>3, <1>5 DEF Fits, MintFits
  <2>2. EnderFits(r)
    BY <1>1, <1>3, <1>5 DEF Fits, EnderFits
  <2>3. ResetFits(r)
    BY <1>1, <1>3, <1>4, <1>5 DEF Fits, ResetFits
  <2> QED BY <2>1, <2>2, <2>3 DEF Fits
<1>7. ASSUME NEW d \in Clients \ {c}
      PROVE  /\ r.held \cap tx[d].held = {} /\ <<r.user, tx[d].user>> \notin Conflicts
             /\ r.heir # NoRow => tx[d].heir # r.heir
  BY <1>1, <1>3, <1>5 DEF RowFree, Sound, TypeOK, Apart
<1> QED BY <1>2, <1>5, <1>6, <1>7, GoStep

-----------------------------------------------------------------------------
(* Steps that write rows.                                                  *)

\* The one who writes is done, or had no transaction under way.
LEMMA WriteStep ==
  ASSUME Sound, NEW c \in Clients, tx' = [tx EXCEPT ![c] = Idle],
         status' \in {"pending", "active", "inactive"},
         tok' \in [Tokens -> {"free", "live", "rotated", "revoked"}],
         login' \in [Tokens -> Tokens],
         link' \in [Resets -> {"free", "open", "used"}],
         \A d \in Clients \ {c} : Fits(tx[d])',
         Rooted', OneLivePerLogin'
  PROVE  Sound'
<1>1. tx' \in [Clients -> Tx] /\ \A d \in Clients : tx'[d] = IF d = c THEN Idle ELSE tx[d]
  BY IdleFits, TypeOfTx DEF Sound
<1>2. Idle.held = {} /\ Idle.user = "none" /\ Idle.heir = NoRow
  BY DEF Idle
<1>3. TypeOK'
  <2>1. \A d, e \in Clients : d # e => tx'[d].held \cap tx'[e].held = {}
    BY <1>1, <1>2 DEF Sound, TypeOK
  <2> QED BY <1>1, <2>1 DEF TypeOK, Tx
<1>4. Apart'
  BY <1>1, <1>2 DEF Sound, Apart, Conflicts
<1>5. AllFit'
  <2>1. Fits(Idle)'
    BY DEF Idle, Fits, MintFits, EnderFits, ResetFits, Enders
  <2>2. ASSUME NEW d \in Clients \ {c} PROVE Fits(tx[d])'
    BY <2>2
  <2>3. Fits(tx[c])'
    <3>1. tx'[c] = Idle
      BY <1>1
    <3> QED BY <2>1, <3>1 DEF Fits, MintFits, EnderFits, ResetFits, Live, Open
  <2> QED BY <2>2, <2>3 DEF AllFit
<1> QED BY <1>3, <1>4, <1>5 DEF Sound

LEMMA StaysAsIs ==
  ASSUME Sound, NEW c \in Clients, tx[c] = Idle, tx' = tx
  PROVE  tx' = [tx EXCEPT ![c] = Idle]
BY TypeOfTx DEF Sound

\* A token is added or taken away only with the lock on the user free to share.
LEMMA SharedMeansNoSweep ==
  ASSUME Sound, NEW d \in Clients, <<"share", tx[d].user>> \notin Conflicts
  PROVE  ~(tx[d].kind \in Enders /\ tx[d].at = "sweep")
BY DEF Sound, AllFit, Fits, EnderFits, Conflicts

LEMMA VerifyEmailStep ==
  ASSUME Sound, NEW c \in Clients, VerifyEmail(c)
  PROVE  Sound'
<1>1. tx' = [tx EXCEPT ![c] = Idle] /\ UNCHANGED <<tok, login, link, tx>>
  BY StaysAsIs DEF VerifyEmail
<1>2. status' \in {"pending", "active", "inactive"} /\ (status' = "inactive" => status = "inactive")
  BY DEF VerifyEmail, Activated, Sound, TypeOK
<1>3. ASSUME NEW d \in Clients PROVE Fits(tx[d])'
  <2>1. Fits(tx[d])
    BY DEF Sound, AllFit
  <2> QED BY <1>1, <1>2, <2>1 DEF Fits, MintFits, EnderFits, ResetFits, Live, Open
<1>4. (Rooted /\ OneLivePerLogin)'
  BY <1>1 DEF Sound, Rooted, OneLivePerLogin, Live
<1> QED BY <1>1, <1>2, <1>3, <1>4, WriteStep DEF Sound, TypeOK

LEMMA LoginStep ==
  ASSUME Sound, NEW c \in Clients, NEW t \in Tokens, Login(c, t)
  PROVE  Sound'
<1>1. /\ tok[t] = "free" /\ UserFree(c, "share") /\ \A d \in Clients : tx[d].heir # t
      /\ tok' = [tok EXCEPT ![t] = "live"] /\ login' = [login EXCEPT ![t] = t]
      /\ tx' = [tx EXCEPT ![c] = Idle] /\ UNCHANGED <<status, link>>
  BY DEF Login, CreateRefreshToken, Ends
<1>2. /\ tok' \in [Tokens -> {"free", "live", "rotated", "revoked"}]
      /\ login' \in [Tokens -> Tokens]
      /\ \A u \in Tokens \ {t} : tok'[u] = tok[u] /\ login'[u] = login[u]
      /\ tok'[t] = "live" /\ login'[t] = t
  BY <1>1 DEF Sound, TypeOK
<1>3. ASSUME NEW d \in Clients \ {c} PROVE Fits(tx[d])'
  <2> DEFINE q == tx[d]
  <2>1. q \in Tx /\ Fits(q) /\ q.heir # t
    BY <1>1, TypeOfTx DEF Sound, AllFit
  <2>2. ~(q.kind \in Enders /\ q.at = "sweep")
    BY <1>1, SharedMeansNoSweep DEF UserFree
  <2>3. UNCHANGED q
    BY <1>1 DEF Sound, TypeOK
  <2>4. MintFits(q)'
    BY <1>1, <1>2, <2>1, <2>3 DEF Fits, MintFits
  <2>5. EnderFits(q)'
    BY <2>1, <2>2, <2>3 DEF Fits, EnderFits
  <2>6. ResetFits(q)'
    BY <1>1, <2>1, <2>3 DEF Fits, ResetFits, Open
  <2> QED BY <2>4, <2>5, <2>6 DEF Fits
<1>4. Rooted'
  BY <1>2 DEF Sound, TypeOK, Rooted
<1>5. OneLivePerLogin'
  <2>1. \A u \in Tokens : tok[u] = "live" => login[u] # t
    BY <1>1 DEF Sound, Rooted
  <2> QED BY <1>2, <2>1 DEF Sound, OneLivePerLogin, Live
<1> QED BY <1>1, <1>2, <1>3, <1>4, <1>5, WriteStep DEF Sound, TypeOK

LEMMA LogoutStep ==
  ASSUME Sound, NEW c \in Clients, NEW t \in Tokens, Logout(c, t)
  PROVE  Sound'
<1>1. /\ tx' = [tx EXCEPT ![c] = Idle] /\ tok[t] # "free" /\ RowFree(c, t)
      /\ UNCHANGED <<status, login, link, tx>>
      /\ tok' = [tok EXCEPT ![t] = IF @ = "live" THEN "revoked" ELSE @]
  BY StaysAsIs DEF Logout
<1>2. /\ tok' \in [Tokens -> {"free", "live", "rotated", "revoked"}]
      /\ \A u \in Tokens \ {t} : tok'[u] = tok[u]
      /\ tok'[t] \notin {"free", "live"}
  BY <1>1 DEF Sound, TypeOK
<1>3. Live' \subseteq Live
  BY <1>2 DEF Live
<1>4. ASSUME NEW d \in Clients \ {c} PROVE Fits(tx[d])'
  <2> DEFINE q == tx[d]
  <2>1. q \in Tx /\ Fits(q) /\ t \notin q.held
    BY <1>1, TypeOfTx DEF Sound, AllFit, RowFree
  <2>2. q.at = "minted" => q.heir # t
    BY <1>1, <2>1 DEF Fits, MintFits
  <2>3. Fits(q)' <=> (MintFits(q) /\ EnderFits(q) /\ ResetFits(q))'
    BY DEF Fits
  <2>4. MintFits(q)'
    BY <1>1, <1>2, <2>1, <2>2 DEF Fits, MintFits
  <2>5. EnderFits(q)'
    BY <1>1, <1>3, <2>1 DEF Fits, EnderFits
  <2>6. ResetFits(q)'
    BY <1>1, <2>1 DEF Fits, ResetFits, Open
  <2> QED BY <2>4, <2>5, <2>6 DEF Fits
<1>5. (Rooted /\ OneLivePerLogin)'
  BY <1>1, <1>2, <1>3 DEF Sound, TypeOK, Rooted, OneLivePerLogin
<1> QED BY <1>1, <1>2, <1>4, <1>5, WriteStep DEF Sound, TypeOK

LEMMA ForgotPasswordStep ==
  ASSUME Sound, NEW c \in Clients, NEW r \in Resets, ForgotPassword(c, r)
  PROVE  Sound'
<1>1. /\ tx' = [tx EXCEPT ![c] = Idle] /\ link[r] = "free" /\ UNCHANGED <<status, tok, login, tx>>
      /\ link' = [link EXCEPT ![r] = "open"]
  BY StaysAsIs DEF ForgotPassword
<1>2. link' \in [Resets -> {"free", "open", "used"}] /\ Open \subseteq Open'
  BY <1>1 DEF Sound, TypeOK, Open
<1>3. ASSUME NEW d \in Clients PROVE Fits(tx[d])'
  <2>1. Fits(tx[d])
    BY DEF Sound, AllFit
  <2> QED BY <1>1, <1>2, <2>1 DEF Fits, MintFits, EnderFits, ResetFits, Live
<1>4. (Rooted /\ OneLivePerLogin)'
  BY <1>1 DEF Sound, Rooted, OneLivePerLogin, Live
<1> QED BY <1>1, <1>2, <1>3, <1>4, WriteStep DEF Sound, TypeOK

\* The successor takes its predecessor's place in the chain.
LEMMA RotateStep ==
  ASSUME Sound, NEW c \in Clients, Rotate(c)
  PROVE  Sound'
<1> DEFINE t == tx[c].row  h == tx[c].heir
<1>1. /\ t \in Tokens /\ t \in tx[c].held /\ tok[t] = "live"
      /\ h \in Tokens /\ tok[h] = "free" /\ h # NoRow /\ tx[c].user = "share"
  BY SessionsAssumption DEF Rotate, At, Sound, AllFit, Fits, MintFits
<1>2. /\ tok' = [tok EXCEPT ![t] = "rotated", ![h] = "live"]
      /\ login' = [login EXCEPT ![h] = login[t]]
      /\ tx' = [tx EXCEPT ![c] = Idle] /\ UNCHANGED <<status, link>>
  BY DEF Rotate, Ends
<1> HIDE DEF t, h
<1>3. /\ tok' \in [Tokens -> {"free", "live", "rotated", "revoked"}]
      /\ login' \in [Tokens -> Tokens]
      /\ \A u \in Tokens \ {t, h} : tok'[u] = tok[u]
      /\ \A u \in Tokens \ {h} : login'[u] = login[u]
      /\ tok'[t] = "rotated" /\ tok'[h] = "live" /\ login'[h] = login[t] /\ t # h
  BY <1>1, <1>2 DEF Sound, TypeOK
<1>4. ASSUME NEW d \in Clients \ {c} PROVE Fits(tx[d])'
  <2> DEFINE q == tx[d]
  <2>1. q \in Tx /\ Fits(q) /\ t \notin q.held /\ q.heir # h
    BY <1>1, TypeOfTx DEF Sound, AllFit, TypeOK, Apart, h
  <2>2. ~(q.kind \in Enders /\ q.at = "sweep")
    BY <1>1, SharedMeansNoSweep DEF Sound, Apart
  <2>3. UNCHANGED q
    BY <1>2 DEF Sound, TypeOK
  <2>4. q.at = "minted" => q.heir # t
    BY <1>1, <2>1 DEF Fits, MintFits
  <2>5. q.at \in {"mint", "minted"} => q.row # t /\ q.row # h
    BY <1>1, <2>1 DEF Fits, MintFits
  <2>6. MintFits(q)'
    BY <1>2, <1>3, <2>1, <2>3, <2>4, <2>5 DEF Fits, MintFits
  <2>7. EnderFits(q)'
    BY <2>1, <2>2, <2>3 DEF Fits, EnderFits
  <2>8. ResetFits(q)'
    BY <1>2, <2>1, <2>3 DEF Fits, ResetFits, Open
  <2> QED BY <2>6, <2>7, <2>8 DEF Fits
<1>5. Rooted'
  BY <1>1, <1>3 DEF Sound, TypeOK, Rooted
<1>6. OneLivePerLogin'
  <2>1. Live' = (Live \ {t}) \cup {h} /\ t \in Live /\ h \notin Live
    BY <1>1, <1>3 DEF Live
  <2>2. \A u \in Live \ {t} : login[u] # login[t]
    BY <2>1 DEF Sound, OneLivePerLogin
  <2>3. \A u, v \in Live' : login'[u] = login'[v] => u = v
    <3> SUFFICES ASSUME NEW u \in Live', NEW v \in Live', login'[u] = login'[v], u # v PROVE FALSE
      OBVIOUS
    <3>1. u \in Tokens /\ v \in Tokens
      BY DEF Live
    <3>2. CASE u = h
      BY <1>3, <2>1, <2>2, <3>1, <3>2
    <3>3. CASE v = h
      BY <1>3, <2>1, <2>2, <3>1, <3>3
    <3>4. CASE u # h /\ v # h
      BY <1>3, <2>1, <3>1, <3>4 DEF Sound, OneLivePerLogin
    <3> QED BY <3>2, <3>3, <3>4
  <2> QED BY <2>3 DEF OneLivePerLogin
<1> QED BY <1>2, <1>3, <1>4, <1>5, <1>6, WriteStep DEF Sound, TypeOK

\* No rotation is past its checks when an account is closed: it would hold a
\* live token, or the lock on the user, that the closing holds.
LEMMA NobodyMinting ==
  ASSUME Sound, NEW c \in Clients, Finish(c), tx[c].kind = "deactivate", NEW d \in Clients \ {c}
  PROVE  tx[d].at \notin {"mint", "minted"}
<1>1. tx[c].kind \in Enders /\ tx[c].at = "sweep" /\ tx[c].todo = {}
  BY DEF Finish, Enders
<1>2. Live \subseteq tx[c].held
  BY <1>1 DEF Sound, AllFit, Fits, EnderFits
<1>3. ASSUME tx[d].at \in {"mint", "minted"} PROVE tx[d].row \in tx[d].held \cap Live
  BY <1>3 DEF Sound, AllFit, Fits, MintFits, Live
<1>4. tx[c].held \cap tx[d].held = {}
  BY DEF Sound, TypeOK
<1> QED BY <1>2, <1>3, <1>4

LEMMA FinishStep ==
  ASSUME Sound, NEW c \in Clients, Finish(c)
  PROVE  Sound'
<1> DEFINE held == tx[c].held
<1>1. /\ tok' = [t \in Tokens |-> IF t \in held \cap Live THEN "revoked" ELSE tok[t]]
      /\ link' = [r \in Resets |-> IF r \in held THEN "used" ELSE link[r]]
      /\ status' = IF tx[c].kind = "deactivate" THEN "inactive" ELSE status
      /\ tx' = [tx EXCEPT ![c] = Idle] /\ UNCHANGED login
  BY DEF Finish, Ends
<1>2. /\ tok' \in [Tokens -> {"free", "live", "rotated", "revoked"}]
      /\ link' \in [Resets -> {"free", "open", "used"}]
      /\ status' \in {"pending", "active", "inactive"}
  BY <1>1 DEF Sound, TypeOK
<1>3. Live' \subseteq Live /\ \A t \in Tokens : (tok'[t] = "free" <=> tok[t] = "free")
                         /\ (t \notin held => tok'[t] = tok[t])
  BY <1>1 DEF Live
<1>4. ASSUME NEW d \in Clients \ {c} PROVE Fits(tx[d])'
  <2> DEFINE q == tx[d]
  <2>1. q \in Tx /\ Fits(q) /\ q.held \cap held = {}
    BY TypeOfTx DEF Sound, AllFit, TypeOK
  <2>2. q.at \in {"mint", "minted"} => status' = status
    BY <1>1, NobodyMinting
  <2>3. UNCHANGED q
    BY <1>1 DEF Sound, TypeOK
  <2> HIDE DEF held
  <2>4. MintFits(q)'
    BY <1>3, <2>1, <2>2, <2>3 DEF Fits, MintFits
  <2>5. EnderFits(q)'
    BY <1>3, <2>1, <2>3 DEF Fits, EnderFits
  <2>6. q.held \cap Resets \subseteq Open'
    BY <1>1, <2>1 DEF Fits, ResetFits, Open
  <2>7. ResetFits(q)'
    BY <2>1, <2>3, <2>6 DEF Fits, ResetFits
  <2> QED BY <2>4, <2>5, <2>7 DEF Fits
<1>5. (Rooted /\ OneLivePerLogin)'
  BY <1>1, <1>3 DEF Sound, TypeOK, Rooted, OneLivePerLogin
<1> QED BY <1>1, <1>2, <1>4, <1>5, WriteStep DEF Sound, TypeOK

-----------------------------------------------------------------------------

LEMMA SoundStep == Sound /\ [Next]_vars => Sound'
<1> SUFFICES ASSUME Sound, [Next]_vars PROVE Sound'
  OBVIOUS
<1>1. ASSUME NEW c \in Clients, Step(c) PROVE Sound'
  BY <1>1, VerifyEmailStep, StartsStep, LockTokenStep, RotateStep, LockUserStep, UseAllStep, LockUserRowStep,
     ScanStep, FinishStep, ToIdle, LoginStep, LogoutStep, MintStep, ForgotPasswordStep, LockRowStep
     DEF Step, Fail
<1>2. CASE UNCHANGED vars
  <2>1. UNCHANGED <<status, tok, login, link, tx>>
    BY <1>2 DEF vars
  <2> QED BY <2>1 DEF Sound, TypeOK, AllFit, Fits, MintFits, EnderFits, ResetFits, Live, Open, Apart, Rooted,
                      OneLivePerLogin
<1> QED BY <1>1, <1>2 DEF Next

\* The inductive invariant.
THEOREM SoundAlways == Spec => []Sound
BY SoundInit, SoundStep, PTL DEF Spec

\* The row locks exclude each other (SELECT ... FOR UPDATE).
THEOREM TypeCorrect == Spec => []TypeOK
<1>1. Sound => TypeOK
  BY DEF Sound
<1> QED BY <1>1, SoundAlways, PTL

\* Of all the presentations of a refresh token one is exchanged
\* (RotateRefreshToken): the state is read again under the row's lock.
THEOREM OneLiveAlways == Spec => []OneLivePerLogin
<1>1. Sound => OneLivePerLogin
  BY DEF Sound
<1> QED BY <1>1, SoundAlways, PTL

\* "GetUserByIDForUpdate": a password change or a deactivation that is about to
\* commit holds every live token; while it has the user locked no rotation and
\* no login adds one behind the sweep of RevokeUserRefreshTokens.
THEOREM SweepAlwaysComplete == Spec => []SweepComplete
<1>1. Sound => SweepComplete
  BY DEF Sound, AllFit, Fits, EnderFits, SweepComplete
<1> QED BY <1>1, SoundAlways, PTL

LEMMA ClosedEmpty ==
  ASSUME Sound, NEW c \in Clients, Finish(c)
  PROVE  /\ Live' \subseteq Live
         /\ status # "inactive" /\ status' = "inactive" => Live' = {}
<1>1. tok' = [t \in Tokens |-> IF t \in tx[c].held \cap Live THEN "revoked" ELSE tok[t]]
  BY DEF Finish
<1>2. Live' \subseteq Live \ tx[c].held
  BY <1>1 DEF Live
<1>3. ASSUME status # "inactive", status' = "inactive" PROVE Live \subseteq tx[c].held
  <2>1. tx[c].kind \in Enders /\ tx[c].at = "sweep" /\ tx[c].todo = {}
    BY <1>3 DEF Finish, Enders
  <2> QED BY <2>1 DEF Sound, AllFit, Fits, EnderFits
<1> QED BY <1>2, <1>3

\* RotateRefreshToken, step 3b, against DeactivateTransaction: a deactivation
\* leaves no token live, and no rotation makes one live on a closed account;
\* a login past its check of the status does, with a token of its own.
THEOREM InactiveAlwaysEnds == Spec => InactiveEnds
<1> DEFINE Closes == /\ status # "inactive" /\ status' = "inactive" => Live' = {}
                     /\ status = "inactive" => \A t \in Live' \ Live : login'[t] = t
<1>1. ASSUME Sound, NEW c \in Clients, Step(c) PROVE Closes
  <2>1. ASSUME UNCHANGED <<status, tok>> PROVE Closes
    BY <2>1 DEF Live
  <2>2. CASE VerifyEmail(c)
    BY <2>2 DEF VerifyEmail, Activated, Live
  <2>3. ASSUME NEW t \in Tokens, Login(c, t) PROVE Closes
    BY <1>1, <2>3 DEF Login, Live, Sound, TypeOK
  <2>4. ASSUME NEW t \in Tokens, Logout(c, t) PROVE Closes
    BY <1>1, <2>4 DEF Logout, Live, Sound, TypeOK
  <2>5. CASE Rotate(c)
    <3>1. status' = status /\ status # "inactive"
      BY <1>1, <2>5 DEF Rotate, At, Sound, AllFit, Fits, MintFits
    <3> QED BY <3>1
  <2>6. CASE Finish(c)
    BY <1>1, <2>6, ClosedEmpty
  <2>7. ASSUME NEW r \in Resets, ForgotPassword(c, r) PROVE Closes
    BY <2>1, <2>7 DEF ForgotPassword
  <2>8. ASSUME NEW t \in Tokens, StartRefresh(c, t) \/ Mint(c, t) PROVE Closes
    BY <2>1, <2>8 DEF StartRefresh, Start, Mint, Go
  <2>9. ASSUME NEW r \in Resets, StartReset(c, r) PROVE Closes
    BY <2>1, <2>9 DEF StartReset, Start
  <2>10. ASSUME NEW kind \in Enders, StartEnder(c, kind) PROVE Closes
    BY <2>1, <2>10 DEF StartEnder, Start
  <2>11. ASSUME NEW x \in Tokens \cup Resets, LockRow(c, x) PROVE Closes
    BY <2>1, <2>11 DEF LockRow, Go
  <2>12. CASE StartLogin(c)
    BY <2>1, <2>12 DEF StartLogin, Start
  <2>13. CASE LockToken(c)
    BY <2>1, <2>13 DEF LockToken, Go
  <2>14. CASE LockUser(c)
    BY <2>1, <2>14 DEF LockUser, Go
  <2>15. CASE UseAll(c) \/ LockUserRow(c) \/ Scan(c) \/ Fail(c)
    BY <2>1, <2>15 DEF UseAll, LockUserRow, Scan, Fail, Go
  <2> QED BY <1>1, <2>2, <2>3, <2>4, <2>5, <2>6, <2>7, <2>8, <2>9, <2>10, <2>11, <2>12, <2>13, <2>14, <2>15 DEF Step
<1>2. Sound /\ [Next]_vars => [Closes]_vars
  BY <1>1 DEF Next
<1> QED BY <1>2, SoundAlways, PTL DEF Spec, InactiveEnds

\* ErrResetTokenUsed: whoever holds a link's row found it open, and keeps it so.
THEOREM LinkAlwaysUnspent == Spec => []LinkUnspent
<1>1. Sound => LinkUnspent
  BY DEF Sound, AllFit, Fits, ResetFits, LinkUnspent, Open
<1> QED BY <1>1, SoundAlways, PTL

\* VerifyUserEmail, ResetPasswordTransaction and ChangePasswordTransaction do
\* not bring a deactivated account back.
THEOREM InactiveStays == Spec => StaysInactive
<1>1. Sound /\ [Next]_vars => [status = "inactive" => status' = "inactive"]_vars
  BY DEF Next, Step, VerifyEmail, Activated, StartLogin, LockToken, Rotate, LockUser, UseAll, LockUserRow, Scan,
         Finish, Fail, Login, Logout, StartRefresh, Mint, ForgotPassword, StartReset, StartEnder, LockRow, Start, Go
<1> QED BY <1>1, SoundAlways, PTL DEF Spec, StaysInactive
=============================================================================
