--------------------------- MODULE OfficeProofs -----------------------------
(***************************************************************************)
(* What tlapm proves of the office: the sessions, the cases, the feedback  *)
(* loop, the onboarding of customers, the watchlists and what stands       *)
(* against guessing, for any number of officers, requests, processes,      *)
(* versions, names and samples.                                            *)
(* CaseTypeOK and DispositionRecorded are inductive together;              *)
(* FirstReasonStands and ClosedForGood follow from CaseTypeOK.             *)
(***************************************************************************)
EXTENDS Sessions, CaseLifecycle, FeedbackLoop, Onboarding, Screening, GuessLimits,
        Sums, FiniteSetTheorems, SequenceTheorems, TLAPS

-----------------------------------------------------------------------------
(* Sessions.                                                               *)

Phase == {"idle", "login", "verify", "exchange", "rotate", "compromise",
          "increment", "bump", "revoke", "publish"}

Caller == [at : Phase, role : Role \cup {"NULL"}, ver : 0..MaxVersion, tok : Nat]

(* The shape of every variable of a session, and of what a request carries. *)
SessionTyping ==
  /\ SessionTypeOK
  /\ call \in [Call -> Caller]
  /\ lost \in Seq({"db", "redis", "memory"})

(* What a request carries: a login and a publisher a version the row has   *)
(* had, an exchange a token with the role it was issued for.               *)
Bears(e, ver, toks) ==
  /\ e.at = "login" => e.role \in Role /\ e.ver \in 1..ver
  /\ e.at = "verify" => e.role \in Role
  /\ e.at = "publish" => e.ver \in 1..ver
  /\ e.at \in {"exchange", "rotate", "compromise"} =>
       /\ e.tok \in DOMAIN toks
       /\ e.role = toks[e.tok].role
       /\ e.at = "compromise" => toks[e.tok].family # NoFamily

(* Access tokens are of a version the row has had; a family is named after *)
(* its first token.                                                        *)
Carried ==
  /\ \A a \in access : a.ver <= version
  /\ \A t \in DOMAIN tokens : tokens[t].family <= Len(tokens)
  /\ \A c \in Call : Bears(call[c], version, tokens)

(* Appending to a sequence adds one element behind the others.             *)
LEMMA Appended ==
  ASSUME NEW S, NEW q \in Seq(S), NEW x \in S
  PROVE  /\ Append(q, x) \in Seq(S) /\ Len(Append(q, x)) = Len(q) + 1
         /\ Len(q) \in Nat /\ DOMAIN q = 1..Len(q) /\ \A i \in 1..Len(q) : q[i] \in S
         /\ DOMAIN Append(q, x) = 1..(Len(q) + 1)
         /\ \A i \in 1..Len(q) : Append(q, x)[i] = q[i]
         /\ Append(q, x)[Len(q) + 1] = x
OBVIOUS

(* What a sequence over S is.                                              *)
LEMMA SeqShape ==
  ASSUME NEW S, NEW q \in Seq(S)
  PROVE  Len(q) \in Nat /\ DOMAIN q = 1..Len(q) /\ \A i \in 1..Len(q) : q[i] \in S
OBVIOUS

(* A failed write is one more entry.                                       *)
LEMMA LostType ==
  ASSUME SessionTyping, NEW where \in {"db", "redis", "memory"}, Lost(where)
  PROVE  lost' \in Seq({"db", "redis", "memory"})
BY DEF Lost, SessionTyping

(* A failed write spoils the run, a dropped key does not mend it.          *)
LEMMA LostSpoils ==
  ASSUME SessionTyping
  PROVE  /\ \A where : Lost(where) => (Unfailing' <=> Unfailing /\ where = "memory")
         /\ lost' = lost => (Unfailing' <=> Unfailing)
<1>1. ASSUME NEW where, Lost(where)
      PROVE  Unfailing' <=> Unfailing /\ where = "memory"
  <2>1. /\ lost \in Seq({"db", "redis", "memory"}) /\ Len(lost) \in Nat
        /\ DOMAIN lost = 1..Len(lost) /\ lost' = Append(lost, where)
    BY <1>1, SeqShape DEF SessionTyping, Lost
  <2>2. /\ DOMAIN lost' = 1..(Len(lost) + 1) /\ lost'[Len(lost) + 1] = where
        /\ \A i \in 1..Len(lost) : lost'[i] = lost[i]
    BY <2>1
  <2> QED
    BY <2>1, <2>2 DEF Unfailing
<1>2. lost' = lost => (Unfailing' <=> Unfailing)
  BY DEF Unfailing
<1> QED
  BY <1>1, <1>2

(* A pair of tokens leaves the tokens well formed.                         *)
LEMMA IssueType ==
  ASSUME SessionAssumption, SessionTyping, Carried,
         NEW r \in Role, NEW v \in 1..version, NEW f \in 0..MaxTokens,
         f <= Len(tokens) + 1, Issue(r, v, f)
  PROVE  /\ access' \subseteq [role : Role, ver : 1..MaxVersion]
         /\ \A a \in access' : a.ver <= version
         /\ tokens' \in Seq([family : 0..MaxTokens, role : Role])
         /\ Len(tokens') = Len(tokens) + 1
         /\ DOMAIN tokens' = 1..Len(tokens') /\ DOMAIN tokens = 1..Len(tokens)
         /\ Len(tokens) \in Nat
         /\ \A t \in DOMAIN tokens : tokens'[t] = tokens[t]
         /\ tokens'[Len(tokens) + 1] = [family |-> f, role |-> r]
         /\ \A t \in DOMAIN tokens' : tokens'[t].family <= Len(tokens')
<1> DEFINE x == [family |-> f, role |-> r]
           S == [family : 0..MaxTokens, role : Role]
<1>1. x \in S /\ tokens \in Seq(S)
  BY DEF SessionTyping, SessionTypeOK
<1>2. tokens' = Append(tokens, x)
  BY DEF Issue
<1> HIDE DEF x, S
<1>3. /\ Append(tokens, x) \in Seq(S) /\ Len(Append(tokens, x)) = Len(tokens) + 1
      /\ Len(tokens) \in Nat /\ DOMAIN tokens = 1..Len(tokens)
      /\ \A i \in 1..Len(tokens) : tokens[i] \in S
      /\ DOMAIN Append(tokens, x) = 1..(Len(tokens) + 1)
      /\ \A i \in 1..Len(tokens) : Append(tokens, x)[i] = tokens[i]
      /\ Append(tokens, x)[Len(tokens) + 1] = x
  BY <1>1, Appended
<1>4. /\ access' \subseteq [role : Role, ver : 1..MaxVersion]
      /\ \A a \in access' : a.ver <= version
  BY SessionAssumption DEF Issue, SessionTyping, SessionTypeOK, Carried
<1>5. \A t \in 1..(Len(tokens) + 1) :
        Append(tokens, x)[t].family <= Len(tokens) + 1
  <2> TAKE t \in 1..(Len(tokens) + 1)
  <2>1. CASE t \in 1..Len(tokens)
    BY <1>3, <2>1, SessionAssumption DEF Carried, S
  <2>2. CASE t = Len(tokens) + 1
    BY <1>3, <2>2 DEF x
  <2> QED
    BY <1>3, <2>1, <2>2
<1> QED
  BY <1>2, <1>3, <1>4, <1>5 DEF x, S

(* Caller c goes on with e, the others stay.                              *)
Onward(c, e) ==
  call' \in [Call -> Caller] /\ call'[c] = e /\ \A d \in Call \ {c} : call'[d] = call[d]

(* A request that goes on leaves what the others carry alone, as the       *)
(* version only grows and tokens are only added.                           *)
LEMMA CarryOn ==
  ASSUME SessionTyping, Carried, NEW c \in Call, NEW e \in Caller,
         Onward(c, e), Bears(e, version', tokens'),
         version' \in Nat, version <= version', DOMAIN tokens \subseteq DOMAIN tokens',
         \A t \in DOMAIN tokens : tokens'[t] = tokens[t]
  PROVE  \A d \in Call : Bears(call'[d], version', tokens')
<1>1. call \in [Call -> Caller] /\ version \in Nat
  BY SessionAssumption DEF SessionTyping, SessionTypeOK
<1>3. ASSUME NEW d \in Call PROVE Bears(call'[d], version', tokens')
  <2>1. CASE d = c
    BY <2>1 DEF Onward
  <2>2. CASE d # c
    <3>1. call'[d] = call[d] /\ call[d] \in Caller
      BY <1>1, <2>2 DEF Onward
    <3>2. Bears(call[d], version, tokens)
      BY DEF Carried
    <3>3. Bears(call[d], version', tokens')
      BY <3>1, <3>2, <1>1 DEF Bears, Caller
    <3> QED
      BY <3>1, <3>3
  <2> QED
    BY <2>1, <2>2
<1> QED
  BY <1>3

(* A request that is over fits every version and all tokens.               *)
LEMMA CarryIdle ==
  ASSUME SessionAssumption
  PROVE  Idle \in Caller /\ Bears(Idle, version', tokens')
BY DEF Idle, Caller, Phase, Bears

(* A request that ends with a pair of tokens keeps the types.             *)
LEMMA NewPair ==
  ASSUME SessionAssumption, SessionTyping, Carried, NEW c \in Call,
         NEW r \in Role, NEW v \in 1..version, NEW f \in 0..MaxTokens,
         f <= Len(tokens) + 1, Issue(r, v, f),
         Bears(Idle, version', tokens'), Onward(c, Idle),
         revoked' \subseteq DOMAIN tokens, tickets' \subseteq Role,
         UNCHANGED <<userVars, cached, deadFamily, answered, muddled, lost>>
  PROVE  (SessionTyping /\ Carried)'
<1> USE DEF userVars
<1>1. /\ access' \subseteq [role : Role, ver : 1..MaxVersion]
      /\ \A a \in access' : a.ver <= version
      /\ tokens' \in Seq([family : 0..MaxTokens, role : Role])
      /\ Len(tokens') = Len(tokens) + 1
      /\ DOMAIN tokens' = 1..Len(tokens') /\ DOMAIN tokens = 1..Len(tokens)
      /\ Len(tokens) \in Nat
      /\ \A t \in DOMAIN tokens : tokens'[t] = tokens[t]
      /\ \A t \in DOMAIN tokens' : tokens'[t].family <= Len(tokens')
  BY IssueType
<1>2. version \in Nat /\ UNCHANGED version
  BY SessionAssumption DEF SessionTyping, SessionTypeOK
<1>3. Idle \in Caller
  BY CarryIdle, SessionAssumption
<1>4. \A d \in Call : Bears(call'[d], version', tokens')
  BY <1>1, <1>2, <1>3, CarryOn
<1>5. revoked' \subseteq DOMAIN tokens'
  BY <1>1
<1> QED
  BY <1>1, <1>2, <1>4, <1>5 DEF Onward, SessionTyping, SessionTypeOK, Carried

(* The types are kept, whatever requests overlap.                          *)
LEMMA SessionTyped == SessionSpec => [](SessionTyping /\ Carried)
<1> USE SessionAssumption
<1>1. SessionInit => SessionTyping /\ Carried
  <2> SUFFICES ASSUME SessionInit PROVE SessionTyping /\ Carried
    OBVIOUS
  <2>1. Idle \in Caller /\ Bears(Idle, version, tokens)
    BY DEF Idle, Caller, Phase, Bears
  <2>2. call \in [Call -> Caller] /\ \A c \in Call : call[c] = Idle
    BY <2>1 DEF SessionInit, SignedOut
  <2>3. SessionTyping
    BY <2>2 DEF SessionInit, SignedOut, SessionTyping, SessionTypeOK
  <2>4. \A a \in access : a.ver <= version
    BY DEF SessionInit, SignedOut
  <2>5. DOMAIN tokens = {}
    BY DEF SessionInit, SignedOut
  <2> QED
    BY <2>1, <2>2, <2>3, <2>4, <2>5 DEF Carried
<1>2. SessionTyping /\ Carried /\ [SessionNext]_sessionVars => (SessionTyping /\ Carried)'
  <2> SUFFICES ASSUME SessionTyping, Carried, [SessionNext]_sessionVars
               PROVE  (SessionTyping /\ Carried)'
    OBVIOUS
  <2>t. /\ role \in Role /\ version \in 1..MaxVersion /\ cached \in 0..MaxVersion
        /\ access \subseteq [role : Role, ver : 1..MaxVersion]
        /\ tokens \in Seq([family : 0..MaxTokens, role : Role])
        /\ Len(tokens) \in Nat /\ DOMAIN tokens = 1..Len(tokens)
        /\ \A t \in 1..Len(tokens) : tokens[t] \in [family : 0..MaxTokens, role : Role]
        /\ revoked \subseteq DOMAIN tokens /\ deadFamily \subseteq 1..MaxTokens
        /\ tickets \subseteq Role /\ answered \in 0..MaxVersion
        /\ lost \in Seq({"db", "redis", "memory"})
        /\ call \in [Call -> Caller]
    <3>1. /\ Len(tokens) \in Nat /\ DOMAIN tokens = 1..Len(tokens)
          /\ \A t \in 1..Len(tokens) : tokens[t] \in [family : 0..MaxTokens, role : Role]
      BY SeqShape DEF SessionTyping, SessionTypeOK
    <3> QED
      BY <3>1 DEF SessionTyping, SessionTypeOK
  <2>c. /\ \A a \in access : a.ver <= version
        /\ \A t \in DOMAIN tokens : tokens[t].family <= Len(tokens)
        /\ \A c \in Call : Bears(call[c], version, tokens) /\ call[c] \in Caller
    BY <2>t DEF Carried
  <2> USE DEF userVars, tokenVars, history
  <2>1. ASSUME NEW c \in Call, LoginRead(c)
        PROVE  (SessionTyping /\ Carried)'
    <3>e. PICK e \in Caller : e = [at |-> "login", role |-> role, ver |-> version,
                     tok |-> IF mfaOn THEN 1 ELSE 0]
      <4>1. /\ role \in Role \cup {"NULL"} /\ version \in 0..MaxVersion
            /\ (IF mfaOn THEN 1 ELSE 0) \in Nat /\ "login" \in Phase
        BY <2>t, SessionAssumption DEF Phase
      <4>2. [at |-> "login", role |-> role, ver |-> version,
             tok |-> IF mfaOn THEN 1 ELSE 0] \in Caller
        BY <4>1 DEF Caller
      <4> QED
        BY <4>2, Zenon
    <3>1. Bears(e, version', tokens') /\ Onward(c, e)
      BY <3>e, <2>1, <2>t, <2>c, SessionAssumption DEF Onward, LoginRead, Caller, Phase, Bears, At, Goes
    <3>2. \A d \in Call : Bears(call'[d], version', tokens')
      BY <3>1, <2>1, <2>t, CarryOn DEF LoginRead
    <3> QED
      BY <2>1, <2>t, <2>c, <3>1, <3>2 DEF LoginRead, Onward, SessionTyping, SessionTypeOK, Carried
  <2>2. ASSUME NEW c \in Call, LoginIssue(c)
        PROVE  (SessionTyping /\ Carried)'
    <3>1. Idle \in Caller /\ Bears(Idle, version', tokens') /\ Onward(c, Idle)
      BY <2>2, <2>t, CarryIdle, SessionAssumption DEF LoginIssue, Ends, Onward
    <3>2. call[c].role \in Role /\ call[c].ver \in 1..version
      BY <2>2, <2>c DEF LoginIssue, At, Bears
    <3>3. CASE call[c].tok = 1
      <4>1. /\ tickets' \subseteq Role
            /\ UNCHANGED <<userVars, cached, access, tokens, revoked, deadFamily, history>>
        BY <2>2, <2>t, <3>2, <3>3 DEF LoginIssue
      <4>2. \A d \in Call : Bears(call'[d], version', tokens')
        BY <3>1, <4>1, <2>t, CarryOn
      <4> QED
        BY <2>t, <2>c, <3>1, <4>1, <4>2 DEF Onward, SessionTyping, SessionTypeOK, Carried
    <3>4. CASE call[c].tok # 1
      <4>1. /\ Issue(call[c].role, call[c].ver, Len(tokens) + 1)
            /\ UNCHANGED <<userVars, cached, revoked, deadFamily, tickets, history>>
        BY <2>2, <3>4 DEF LoginIssue, IssuedVersion
      <4>2. Len(tokens) + 1 \in 0..MaxTokens
        BY <2>t, <4>1, SessionAssumption DEF Issue
      <4>3. revoked' \subseteq DOMAIN tokens /\ tickets' \subseteq Role
            /\ Len(tokens) + 1 <= Len(tokens) + 1
        BY <2>t, <4>1 DEF SessionTyping, SessionTypeOK
      <4>4. UNCHANGED <<userVars, cached, deadFamily, answered, muddled, lost>>
        BY <4>1 DEF history
      <4> QED
        BY <2>t, <3>1, <3>2, <4>1, <4>2, <4>3, <4>4, NewPair
    <3> QED
      BY <3>3, <3>4
  <2>4. ASSUME NEW c \in Call, VerifyIssue(c)
        PROVE  (SessionTyping /\ Carried)'
    <3>1. Idle \in Caller /\ Bears(Idle, version', tokens') /\ Onward(c, Idle)
      BY <2>4, <2>t, CarryIdle, SessionAssumption DEF VerifyIssue, Ends, Onward
    <3>2. call[c].role \in Role
      BY <2>4, <2>c DEF VerifyIssue, At, Bears
    <3>3. /\ Issue(call[c].role, 1, NoFamily) /\ tickets' \subseteq Role
          /\ UNCHANGED <<userVars, cached, revoked, deadFamily, history>>
      BY <2>4, <2>t DEF VerifyIssue
    <3> QED
      BY <2>t, <2>c, <3>1, <3>2, <3>3, NewPair, SessionAssumption DEF NoFamily
  <2>6. ASSUME NEW c \in Call, Rotate(c)
        PROVE  (SessionTyping /\ Carried)'
    <3>1. Idle \in Caller /\ Bears(Idle, version', tokens') /\ Onward(c, Idle)
      BY <2>6, <2>t, CarryIdle, SessionAssumption DEF Rotate, Ends, Onward
    <3>2. /\ call[c].tok \in DOMAIN tokens /\ call[c].role \in Role
          /\ Family(call[c].tok) \in 0..MaxTokens /\ Family(call[c].tok) <= Len(tokens)
      BY <2>6, <2>c, <2>t DEF Rotate, At, Bears, Family
    <3>3. CASE Issue(call[c].role, 1, Family(call[c].tok)) /\ UNCHANGED lost
               /\ revoked' = Used(call[c].tok)
      <4>1. /\ revoked' \subseteq DOMAIN tokens
            /\ UNCHANGED <<userVars, cached, deadFamily, tickets, answered, muddled, lost>>
        BY <2>6, <2>t, <3>2, <3>3 DEF Rotate, Used
      <4> QED
        BY <2>t, <2>c, <3>1, <3>2, <3>3, <4>1, NewPair, SessionAssumption
    <3>4. CASE Lost("redis") /\ UNCHANGED <<access, tokens, revoked>>
      <4>1. lost' \in Seq({"db", "redis", "memory"})
        BY <3>4, <2>t DEF Lost
      <4>2. UNCHANGED <<userVars, cached, tokenVars, answered, muddled>>
        BY <2>6, <3>4 DEF Rotate
      <4>3. \A d \in Call : Bears(call'[d], version', tokens')
        BY <3>1, <4>2, <2>t, CarryOn
      <4> QED
        BY <2>t, <2>c, <3>1, <4>1, <4>2, <4>3 DEF Onward, SessionTyping, SessionTypeOK, Carried
    <3> QED
      BY <2>6, <3>3, <3>4 DEF Rotate
  <2>3. ASSUME NEW c \in Call, VerifyRead(c)
        PROVE  (SessionTyping /\ Carried)'
    <3>p. PICK r \in Role : Goes(c, "verify", r, 1, 0)
      BY <2>3, <2>t DEF VerifyRead
    <3>1. \E e \in Caller : Bears(e, version', tokens') /\ Onward(c, e)
      <4> DEFINE e == [at |-> "verify", role |-> r, ver |-> 1, tok |-> 0]
      <4>1. e \in Caller /\ Bears(e, version', tokens') /\ call' = [call EXCEPT ![c] = e]
        BY <2>t, <3>p, SessionAssumption DEF Caller, Phase, Bears, Goes
      <4>2. Onward(c, e)
        BY <4>1, <2>t DEF Onward
      <4> QED
        BY <4>1, <4>2
    <3>2. \A d \in Call : Bears(call'[d], version', tokens')
      BY <3>1, <2>3, <2>t, <3>p, CarryOn DEF VerifyRead
    <3> QED
      BY <2>3, <2>t, <2>c, <3>p, <3>1, <3>2 DEF VerifyRead, Onward, SessionTyping, SessionTypeOK, Carried
  <2>5. ASSUME NEW c \in Call, ExchangeToken(c)
        PROVE  (SessionTyping /\ Carried)'
    <3>p. call[c].tok \in DOMAIN tokens /\ call[c].role = tokens[call[c].tok].role
      BY <2>5, <2>c DEF ExchangeToken, At, Bears
    <3>1. \E e \in Caller : Bears(e, version', tokens') /\ Onward(c, e)
      <4>1. CASE call[c].tok \notin revoked
        <5> DEFINE e == [at |-> "rotate", role |-> call[c].role, ver |-> call[c].ver, tok |-> call[c].tok]
        <5>1. e \in Caller /\ Bears(e, version', tokens') /\ call' = [call EXCEPT ![c] = e]
          BY <2>5, <2>t, <2>c, <3>p, <4>1 DEF ExchangeToken, Caller, Phase, Bears, At, Next1, Goes
        <5>2. Onward(c, e)
          BY <5>1, <2>t DEF Onward
        <5> QED
          BY <5>1, <5>2
      <4>2. CASE call[c].tok \in revoked /\ Family(call[c].tok) # NoFamily
        <5> DEFINE e == [at |-> "compromise", role |-> call[c].role, ver |-> call[c].ver, tok |-> call[c].tok]
        <5>1. e \in Caller /\ Bears(e, version', tokens') /\ call' = [call EXCEPT ![c] = e]
          BY <2>5, <2>t, <2>c, <3>p, <4>2 DEF ExchangeToken, Caller, Phase, Bears, At, Next1, Goes, Family
        <5>2. Onward(c, e)
          BY <5>1, <2>t DEF Onward
        <5> QED
          BY <5>1, <5>2
      <4>3. CASE call[c].tok \in revoked /\ Family(call[c].tok) = NoFamily
        <5> DEFINE e == Idle
        <5>1. e \in Caller /\ Bears(e, version', tokens') /\ call' = [call EXCEPT ![c] = e]
          BY <2>5, <2>t, <2>c, <3>p, <4>3 DEF ExchangeToken, Caller, Phase, Bears, At, Ends, Idle, Family
        <5>2. Onward(c, e)
          BY <5>1, <2>t DEF Onward
        <5> QED
          BY <5>1, <5>2
      <4> QED
        BY <4>1, <4>2, <4>3, <2>5 DEF ExchangeToken
    <3>2. \A d \in Call : Bears(call'[d], version', tokens')
      <4>1. version' = version /\ tokens' = tokens
        BY <2>5 DEF ExchangeToken
      <4> QED
        BY <3>1, <2>t, <4>1, CarryOn
    <3> QED
      BY <2>5, <2>t, <2>c, <3>p, <3>1, <3>2 DEF ExchangeToken, Onward, SessionTyping, SessionTypeOK, Carried
  <2>7. ASSUME NEW c \in Call, CompromiseFamily(c)
        PROVE  (SessionTyping /\ Carried)'
    <3>e. PICK e \in Caller : e = [at |-> "increment", role |-> call[c].role, ver |-> call[c].ver, tok |-> call[c].tok]
      BY <2>7, <2>t, <2>c, SessionAssumption DEF CompromiseFamily, Caller, Phase, Bears, At, Next1, Goes
    <3>1. Bears(e, version', tokens') /\ Onward(c, e)
      BY <3>e, <2>7, <2>t, <2>c, SessionAssumption DEF Onward, CompromiseFamily, Caller, Phase, Bears, At, Next1, Goes
    <3>2. \A d \in Call : Bears(call'[d], version', tokens')
      BY <3>1, <2>7, <2>t, CarryOn DEF CompromiseFamily, Family, Bears, NoFamily, At
    <3>3. Family(call[c].tok) \in 1..MaxTokens
      <4>1. call[c].tok \in DOMAIN tokens /\ tokens[call[c].tok].family # 0
        BY <2>7, <2>c DEF CompromiseFamily, At, Bears, NoFamily
      <4> QED
        BY <4>1, <2>t DEF Family
    <3> QED
      BY <2>7, <2>t, <2>c, <3>3, <3>1, <3>2 DEF CompromiseFamily, Onward, SessionTyping, SessionTypeOK, Carried
  <2>8. ASSUME NEW c \in Call, CompromiseCache(c)
        PROVE  (SessionTyping /\ Carried)'
    <3>e. PICK e \in Caller : e = [at |-> "bump", role |-> call[c].role, ver |-> call[c].ver, tok |-> call[c].tok]
      BY <2>8, <2>t, <2>c, SessionAssumption DEF CompromiseCache, Caller, Phase, Bears, At, Next1, Goes
    <3>1. Bears(e, version', tokens') /\ Onward(c, e)
      BY <3>e, <2>8, <2>t, <2>c, SessionAssumption DEF Onward, CompromiseCache, Caller, Phase, Bears, At, Next1, Goes
    <3>2. \A d \in Call : Bears(call'[d], version', tokens')
      BY <3>1, <2>8, <2>t, CarryOn DEF CompromiseCache
    <3> QED
      BY <2>8, <2>t, <2>c, <3>1, <3>2 DEF CompromiseCache, Onward, SessionTyping, SessionTypeOK, Carried
  <2>9. ASSUME NEW c \in Call, CompromiseRow(c)
        PROVE  (SessionTyping /\ Carried)'
    <3>p. version' \in 1..MaxVersion /\ version <= version' /\ lost' \in Seq({"db", "redis", "memory"})
      BY <2>9, <2>t, LostType DEF CompromiseRow, Bumped
    <3>1. \E e \in Caller : Bears(e, version', tokens') /\ Onward(c, e)
      <4> DEFINE e == Idle
      <4>1. e \in Caller /\ Bears(e, version', tokens') /\ call' = [call EXCEPT ![c] = e]
        BY <2>9, <2>t, <2>c, <3>p, SessionAssumption DEF CompromiseRow, Caller, Phase, Bears, At, Ends, Idle
      <4>2. Onward(c, e)
        BY <4>1, <2>t DEF Onward
      <4> QED
        BY <4>1, <4>2
    <3>2. \A d \in Call : Bears(call'[d], version', tokens')
      BY <3>1, <2>9, <2>t, <3>p, CarryOn DEF CompromiseRow
    <3> QED
      BY <2>9, <2>t, <2>c, <3>p, <3>1, <3>2 DEF CompromiseRow, Onward, SessionTyping, SessionTypeOK, Carried
  <2>10. ASSUME NEW c \in Call, ChangeRole(c)
        PROVE  (SessionTyping /\ Carried)'
    <3>p. PICK r \in Role : role' = r /\ Goes(c, "revoke", r, 0, 1)
      BY <2>10 DEF ChangeRole
    <3>1. \E e \in Caller : Bears(e, version', tokens') /\ Onward(c, e)
      <4> DEFINE e == [at |-> "revoke", role |-> r, ver |-> 0, tok |-> 1]
      <4>1. e \in Caller /\ Bears(e, version', tokens') /\ call' = [call EXCEPT ![c] = e]
        BY <2>10, <2>t, <2>c, <3>p, SessionAssumption DEF ChangeRole, Caller, Phase, Bears, At, Goes
      <4>2. Onward(c, e)
        BY <4>1, <2>t DEF Onward
      <4> QED
        BY <4>1, <4>2
    <3>2. \A d \in Call : Bears(call'[d], version', tokens')
      BY <3>1, <2>10, <2>t, <3>p, CarryOn DEF ChangeRole
    <3> QED
      BY <2>10, <2>t, <2>c, <3>p, <3>1, <3>2 DEF ChangeRole, Onward, SessionTyping, SessionTypeOK, Carried
  <2>11. ASSUME NEW c \in Call, RevokeStart(c)
        PROVE  (SessionTyping /\ Carried)'
    <3>e. PICK e \in Caller : e = [at |-> "revoke", role |-> "NULL", ver |-> 0, tok |-> 0]
      <4>1. "NULL" \in Role \cup {"NULL"} /\ 0 \in 0..MaxVersion /\ 0 \in Nat /\ "revoke" \in Phase
        BY SessionAssumption DEF Phase
      <4>2. [at |-> "revoke", role |-> "NULL", ver |-> 0, tok |-> 0] \in Caller
        BY <4>1 DEF Caller
      <4> QED
        BY <4>2, Zenon
    <3>1. Bears(e, version', tokens') /\ Onward(c, e)
      BY <3>e, <2>11, <2>t, <2>c, SessionAssumption DEF Onward, RevokeStart, Caller, Phase, Bears, At, Goes
    <3>2. \A d \in Call : Bears(call'[d], version', tokens')
      BY <3>1, <2>11, <2>t, CarryOn DEF RevokeStart
    <3> QED
      BY <2>11, <2>t, <2>c, <3>1, <3>2 DEF RevokeStart, Onward, SessionTyping, SessionTypeOK, Carried
  <2>12. ASSUME NEW c \in Call, RevokeRow(c)
        PROVE  (SessionTyping /\ Carried)'
    <3>p. version' \in 1..MaxVersion /\ version <= version' /\ lost' \in Seq({"db", "redis", "memory"})
      BY <2>12, <2>t, LostType DEF RevokeRow
    <3>1. \E e \in Caller : Bears(e, version', tokens') /\ Onward(c, e)
      <4>1. CASE version < MaxVersion /\ version' = version + 1 /\ Goes(c, "publish", call[c].role, version + 1, call[c].tok)
        <5> DEFINE e == [at |-> "publish", role |-> call[c].role, ver |-> version + 1, tok |-> call[c].tok]
        <5>1. e \in Caller /\ Bears(e, version', tokens') /\ call' = [call EXCEPT ![c] = e]
          BY <2>12, <2>t, <2>c, <3>p, <4>1 DEF RevokeRow, Caller, Phase, Bears, At, Goes
        <5>2. Onward(c, e)
          BY <5>1, <2>t DEF Onward
        <5> QED
          BY <5>1, <5>2
      <4>2. CASE UNCHANGED version /\ Goes(c, "publish", call[c].role, 1, call[c].tok)
        <5> DEFINE e == [at |-> "publish", role |-> call[c].role, ver |-> 1, tok |-> call[c].tok]
        <5>1. e \in Caller /\ Bears(e, version', tokens') /\ call' = [call EXCEPT ![c] = e]
          BY <2>12, <2>t, <2>c, <3>p, <4>2 DEF RevokeRow, Caller, Phase, Bears, At, Goes
        <5>2. Onward(c, e)
          BY <5>1, <2>t DEF Onward
        <5> QED
          BY <5>1, <5>2
      <4> QED
        BY <4>1, <4>2, <2>12 DEF RevokeRow
    <3>2. \A d \in Call : Bears(call'[d], version', tokens')
      BY <3>1, <2>12, <2>t, <3>p, CarryOn DEF RevokeRow
    <3> QED
      BY <2>12, <2>t, <2>c, <3>p, <3>1, <3>2 DEF RevokeRow, Onward, SessionTyping, SessionTypeOK, Carried
  <2>13. ASSUME NEW c \in Call, RevokeCache(c)
        PROVE  (SessionTyping /\ Carried)'
    <3>p. version' \in 1..MaxVersion /\ version <= version' /\ lost' \in Seq({"db", "redis", "memory"})
      BY <2>13, <2>t, LostType DEF RevokeCache
    <3>1. \E e \in Caller : Bears(e, version', tokens') /\ Onward(c, e)
      <4> DEFINE e == Idle
      <4>1. e \in Caller /\ Bears(e, version', tokens') /\ call' = [call EXCEPT ![c] = e]
        BY <2>13, <2>t, <2>c, <3>p, SessionAssumption DEF RevokeCache, Caller, Phase, Bears, At, Ends, Idle
      <4>2. Onward(c, e)
        BY <4>1, <2>t DEF Onward
      <4> QED
        BY <4>1, <4>2
    <3>2. \A d \in Call : Bears(call'[d], version', tokens')
      BY <3>1, <2>13, <2>t, <3>p, CarryOn DEF RevokeCache
    <3>3. cached' \in 0..MaxVersion /\ answered' \in 0..MaxVersion
      <4>1. call[c].ver \in 0..MaxVersion
        BY <2>t, <2>c DEF Caller
      <4> QED
        BY <2>13, <2>t, <4>1 DEF RevokeCache, Published
    <3> QED
      BY <2>13, <2>t, <2>c, <3>p, <3>1, <3>2, <3>3 DEF RevokeCache, Onward, SessionTyping, SessionTypeOK, Carried
  <2>14. ASSUME NEW c \in Call, NEW t \in DOMAIN tokens, ExchangeFamily(c, t)
        PROVE  (SessionTyping /\ Carried)'
    <3>e. PICK e \in Caller : e = [at |-> "exchange", role |-> tokens[t].role, ver |-> 1, tok |-> t]
      BY <2>14, <2>t, <2>c, SessionAssumption DEF ExchangeFamily, Caller, Phase, Bears, At, Goes
    <3>1. Bears(e, version', tokens') /\ Onward(c, e)
      BY <3>e, <2>14, <2>t, <2>c, SessionAssumption DEF Onward, ExchangeFamily, Caller, Phase, Bears, At, Goes
    <3>2. \A d \in Call : Bears(call'[d], version', tokens')
      BY <3>1, <2>14, <2>t, CarryOn DEF ExchangeFamily
    <3> QED
      BY <2>14, <2>t, <2>c, <3>1, <3>2 DEF ExchangeFamily, Onward, SessionTyping, SessionTypeOK, Carried
  <2>15. ASSUME NEW t \in DOMAIN tokens, Logout(t) PROVE (SessionTyping /\ Carried)'
    <3>1. lost' \in Seq({"db", "redis", "memory"}) /\ revoked' \subseteq DOMAIN tokens
      BY <2>15, <2>t, LostType DEF Logout
    <3>2. UNCHANGED <<userVars, cached, access, tokens, deadFamily, tickets, call, answered>>
      BY <2>15 DEF Logout
    <3> QED
      BY <3>1, <3>2, <2>t, <2>c DEF SessionTyping, SessionTypeOK, Carried
  <2>16. CASE TicketExpires
    BY <2>16, <2>t, <2>c DEF TicketExpires, Onward, SessionTyping, SessionTypeOK, Carried, Bears, Family
  <2>17. CASE UNCHANGED sessionVars
    BY <2>17, <2>t, <2>c DEF sessionVars, Onward, SessionTyping, SessionTypeOK, Carried, Bears, Family
  <2>18. CASE Evict
    <3>1. /\ cached' \in 0..MaxVersion /\ revoked' \subseteq revoked
          /\ deadFamily' \subseteq deadFamily /\ lost' \in Seq({"db", "redis", "memory"})
      BY <2>18, <2>t, LostType, SessionAssumption DEF Evict
    <3>2. UNCHANGED <<userVars, access, tokens, tickets, call, answered>>
      BY <2>18 DEF Evict
    <3> QED
      BY <3>1, <3>2, <2>t, <2>c DEF SessionTyping, SessionTypeOK, Carried
  <2> QED
    BY <2>1, <2>2, <2>3, <2>4, <2>5, <2>6, <2>7, <2>8, <2>9, <2>10, <2>11, <2>12,
       <2>13, <2>14, <2>15, <2>16, <2>17, <2>18 DEF SessionNext
<1> QED
  BY <1>1, <1>2, PTL DEF SessionSpec

(* A step that neither begins nor ends a publication.                      *)
Quietly ==
  /\ answered' = answered /\ version <= version'
  /\ ~evicted' => ~evicted /\ cached <= cached'
  /\ Clean' => Clean
  /\ \A p \in Call : call'[p].at = "publish" <=> At(p, "publish")
  /\ \A p \in Call : At(p, "publish") \/ At(p, "revoke") => call'[p] = call[p]

(* Only the two steps of a revocation touch the publications.              *)
LEMMA QuietStep ==
  ASSUME SessionTyping, Carried, [SessionNext]_sessionVars
  PROVE  Quietly \/ \E c \in Call : RevokeRow(c) \/ RevokeCache(c)
<1>t. /\ version \in Nat /\ cached \in Nat /\ call \in [Call -> Caller]
      /\ \A where : Lost(where) => (Unfailing' <=> Unfailing /\ where = "memory")
      /\ lost' = lost => (Unfailing' <=> Unfailing)
  <2>1. /\ \A where : Lost(where) => (Unfailing' <=> Unfailing /\ where = "memory")
        /\ lost' = lost => (Unfailing' <=> Unfailing)
    BY LostSpoils
  <2> QED
    BY <2>1, SessionAssumption DEF SessionTyping, SessionTypeOK
<1> USE DEF userVars, tokenVars, history, Quietly, Clean, At, Next1, Goes, Ends, Idle
<1>1. ASSUME NEW c \in Call, LoginRead(c) PROVE Quietly
  BY <1>1, <1>t DEF LoginRead
<1>2. ASSUME NEW c \in Call, LoginIssue(c) PROVE Quietly
  BY <1>2, <1>t DEF LoginIssue
<1>3. ASSUME NEW c \in Call, VerifyRead(c) PROVE Quietly
  BY <1>3, <1>t DEF VerifyRead
<1>4. ASSUME NEW c \in Call, VerifyIssue(c) PROVE Quietly
  BY <1>4, <1>t DEF VerifyIssue
<1>5. ASSUME NEW c \in Call, ExchangeToken(c) PROVE Quietly
  BY <1>5, <1>t DEF ExchangeToken
<1>6. ASSUME NEW c \in Call, Rotate(c) PROVE Quietly
  BY <1>6, <1>t DEF Rotate
<1>7. ASSUME NEW c \in Call, CompromiseFamily(c) PROVE Quietly
  BY <1>7, <1>t DEF CompromiseFamily
<1>8. ASSUME NEW c \in Call, CompromiseCache(c) PROVE Quietly
  BY <1>8, <1>t DEF CompromiseCache
<1>9. ASSUME NEW c \in Call, CompromiseRow(c) PROVE Quietly
  BY <1>9, <1>t DEF CompromiseRow, Bumped
<1>10. ASSUME NEW c \in Call, ChangeRole(c) PROVE Quietly
  BY <1>10, <1>t DEF ChangeRole
<1>11. ASSUME NEW c \in Call, RevokeStart(c) PROVE Quietly
  BY <1>11, <1>t DEF RevokeStart
<1>12. ASSUME NEW c \in Call, NEW t \in DOMAIN tokens, ExchangeFamily(c, t) PROVE Quietly
  BY <1>12, <1>t DEF ExchangeFamily
<1>13. ASSUME NEW t \in DOMAIN tokens, Logout(t) PROVE Quietly
  BY <1>13, <1>t DEF Logout
<1>14. CASE TicketExpires
  BY <1>14, <1>t DEF TicketExpires
<1>15. CASE UNCHANGED sessionVars
  BY <1>15, <1>t DEF sessionVars
<1>16. CASE Evict
  BY <1>16, <1>t DEF Evict
<1> QED
  BY <1>1, <1>2, <1>3, <1>4, <1>5, <1>6, <1>7, <1>8, <1>9, <1>10, <1>11, <1>12,
     <1>13, <1>14, <1>15, <1>16 DEF SessionNext

(* With no failed write there is one publication at a time, of a version   *)
(* no lower than any answered, and the row and the cache are no lower,     *)
(* the cache as long as Redis keeps it.                                    *)
OnePublication ==
  Clean =>
    /\ ~evicted => answered <= cached
    /\ answered <= version
    /\ \A p \in Call : At(p, "publish") => answered <= call[p].ver
    /\ \A p, q \in Call : At(p, "publish") /\ At(q, "publish") => p = q

(* The publications step by step.                                          *)
LEMMA OnePublicationStep ==
  ASSUME SessionTyping, SessionTyping', Carried, OnePublication, [SessionNext]_sessionVars
  PROVE  OnePublication'
<1>t. /\ version \in Nat /\ cached \in Nat /\ answered \in Nat
      /\ call \in [Call -> Caller]
      /\ \A c \in Call : call[c].ver \in Nat
      /\ \A c \in Call : At(c, "publish") => call[c].ver <= version
      /\ \A where : Lost(where) => (Unfailing' <=> Unfailing /\ where = "memory")
      /\ lost' = lost => (Unfailing' <=> Unfailing)
  <2>1. /\ \A where : Lost(where) => (Unfailing' <=> Unfailing /\ where = "memory")
        /\ lost' = lost => (Unfailing' <=> Unfailing)
    BY LostSpoils
  <2>2. call \in [Call -> Caller] /\ \A c \in Call : call[c] \in Caller
    BY DEF SessionTyping
  <2>3. \A c \in Call : At(c, "publish") => call[c].ver <= version
    BY <2>2, SessionAssumption DEF Carried, Bears, At, SessionTyping, SessionTypeOK, Caller
  <2> QED
    BY <2>1, <2>2, <2>3, SessionAssumption DEF SessionTyping, SessionTypeOK, Caller
<1>1. CASE Quietly
  <2>1. version' \in Nat /\ cached' \in Nat
    BY SessionAssumption DEF SessionTyping, SessionTypeOK
  <2> QED
    BY <1>1, <1>t, <2>1 DEF Quietly, OnePublication, At
<1>2. ASSUME NEW c \in Call, RevokeRow(c) PROVE OnePublication'
  <2> SUFFICES ASSUME Clean' PROVE OnePublication'
    BY DEF OnePublication
  <2>1. Clean /\ \A d \in Call : ~At(d, "publish")
    BY <1>2, <1>t DEF RevokeRow, Clean
  <2>2. version' = version + 1 /\ Goes(c, "publish", call[c].role, version + 1, call[c].tok)
    BY <1>2, <1>t DEF RevokeRow, Clean
  <2> QED
    BY <1>2, <1>t, <2>1, <2>2 DEF RevokeRow, OnePublication, At, Goes
<1>3. ASSUME NEW c \in Call, RevokeCache(c) PROVE OnePublication'
  <2> SUFFICES ASSUME Clean' PROVE OnePublication'
    BY DEF OnePublication
  <2>1. Clean /\ cached' = call[c].ver
    BY <1>3, <1>t DEF RevokeCache, Clean, Published
  <2> QED
    BY <1>3, <1>t, <2>1 DEF RevokeCache, OnePublication, At, Ends, Idle, userVars
<1> QED
  BY <1>1, <1>2, <1>3, QuietStep

(* A version is stale when a change of role has yet to raise the version,  *)
(* or when a revocation has answered with a higher one and the publication *)
(* under way is of a higher one too, or a role changed and its version is  *)
(* being published.                                                        *)
Changing == \E c \in Call : At(c, "revoke") /\ call[c].tok = 1
Outdone(v) ==
  /\ \A p \in Call : At(p, "publish") => v < call[p].ver
  /\ v < answered \/ \E p \in Call : At(p, "publish") /\ call[p].tok = 1
Stale == {v \in 1..MaxVersion : Changing \/ Outdone(v)}

(* A version that was in force stays stale while the role stays.           *)
LEMMA StaleStays ==
  ASSUME SessionTyping, SessionTyping', Carried, OnePublication,
         [SessionNext]_sessionVars, Clean', NEW v \in Stale, v <= version
  PROVE  v \in Stale'
<1>t. /\ version \in Nat /\ answered \in Nat /\ v \in Nat /\ v \in 1..MaxVersion
      /\ answered' \in Nat
      /\ call \in [Call -> Caller] /\ \A c \in Call : call[c] \in Caller
      /\ \A c \in Call : call[c].ver \in Nat
      /\ \A where : Lost(where) => (Unfailing' <=> Unfailing /\ where = "memory")
      /\ lost' = lost => (Unfailing' <=> Unfailing)
  <2>1. /\ \A where : Lost(where) => (Unfailing' <=> Unfailing /\ where = "memory")
        /\ lost' = lost => (Unfailing' <=> Unfailing)
    BY LostSpoils
  <2>2. call \in [Call -> Caller] /\ \A c \in Call : call[c] \in Caller
    BY DEF SessionTyping
  <2> QED
    BY <2>1, <2>2, SessionAssumption DEF SessionTyping, SessionTypeOK, Caller, Stale
<1>c. Changing \/ Outdone(v)
  BY DEF Stale
<1> SUFFICES Changing' \/ Outdone(v)'
  BY <1>t DEF Stale
<1>1. CASE Quietly
  <2>1. Changing => Changing'
    BY <1>1 DEF Quietly, Changing, At
  <2>2. Outdone(v) => Outdone(v)'
    BY <1>1, <1>t DEF Quietly, Outdone, At
  <2> QED
    BY <2>1, <2>2, <1>c
<1>2. ASSUME NEW c \in Call, RevokeRow(c) PROVE Changing' \/ Outdone(v)'
  <2>1. Clean /\ (\A d \in Call : ~At(d, "publish")) /\ At(c, "revoke")
        /\ answered' = answered
    BY <1>2, <1>t DEF RevokeRow, Clean, tokenVars
  <2>2. Goes(c, "publish", call[c].role, version + 1, call[c].tok)
    BY <1>2, <1>t DEF RevokeRow, Clean
  <2>3. /\ call'[c].at = "publish" /\ call'[c].ver = version + 1 /\ call'[c].tok = call[c].tok
        /\ \A d \in Call \ {c} : call'[d] = call[d]
    BY <2>2, <1>t DEF Goes
  <2>4. \A p \in Call : call'[p].at = "publish" => v < call'[p].ver
    BY <2>1, <2>3, <1>t DEF At
  <2>5. Changing => Changing' \/ (call'[c].at = "publish" /\ call'[c].tok = 1)
    BY <2>3 DEF Changing, At
  <2>6. Outdone(v) => v < answered'
    BY <2>1 DEF Outdone
  <2> QED
    BY <2>4, <2>5, <2>6, <1>c DEF Outdone, At
<1>3. ASSUME NEW c \in Call, RevokeCache(c) PROVE Changing' \/ Outdone(v)'
  <2>1. /\ Clean /\ At(c, "publish")
        /\ answered' = IF call[c].ver > answered THEN call[c].ver ELSE answered
    BY <1>3, <1>t DEF RevokeCache, Clean
  <2>2. call'[c].at = "idle" /\ \A d \in Call \ {c} : call'[d] = call[d]
    BY <1>3, <1>t DEF RevokeCache, Ends, Idle
  <2>3. \A d \in Call : At(d, "publish") => d = c
    BY <2>1 DEF OnePublication
  <2>4. \A d \in Call : ~(call'[d].at = "publish")
    BY <2>2, <2>3 DEF At
  <2>5. Changing => Changing'
    BY <2>1, <2>2 DEF Changing, At
  <2>6. Outdone(v) => v < answered'
    BY <2>1, <1>t DEF Outdone
  <2> QED
    BY <2>4, <2>5, <2>6, <1>c DEF Outdone, At
<1> QED
  BY <1>1, <1>2, <1>3, QuietStep

(* A change of role makes every version stale; what is below a stale       *)
(* version is stale.                                                       *)
LEMMA StaleAll ==
  ASSUME SessionTyping, NEW c \in Call, ChangeRole(c)
  PROVE  1..MaxVersion \subseteq Stale'
<1>1. call'[c].at = "revoke" /\ call'[c].tok = 1
  BY DEF ChangeRole, Goes, SessionTyping
<1> QED
  BY <1>1 DEF Stale, Changing, At

(* If a version is stale, the first one is.                                *)
LEMMA StaleDown ==
  ASSUME SessionAssumption, SessionTyping, NEW v \in Stale
  PROVE  1 \in Stale
<1>1. v \in 1..MaxVersion /\ answered \in Nat /\ \A c \in Call : call[c].ver \in Nat
  <2>1. \A c \in Call : call[c] \in Caller
    BY DEF SessionTyping
  <2> QED
    BY <2>1, SessionAssumption DEF SessionTyping, SessionTypeOK, Stale, Caller
<1>2. Outdone(v) => Outdone(1)
  BY <1>1 DEF Outdone
<1> QED
  BY <1>1, <1>2 DEF Stale

(* Whatever carries a role, or will be exchanged for a token that does,    *)
(* has the user's role or a stale version.                                 *)
RolesBound ==
  Clean =>
    /\ \A a \in access : a.role = role \/ a.ver \in Stale
    /\ \A r \in tickets : r = role \/ 1 \in Stale
    /\ \A t \in DOMAIN tokens : tokens[t].role = role \/ 1 \in Stale
    /\ \A c \in Call :
         /\ At(c, "login") => call[c].role = role \/ call[c].ver \in Stale
         /\ At(c, "verify") => call[c].role = role \/ 1 \in Stale

(* A role and a version in force stay so bound: the role is the user's or  *)
(* the version stale.                                                      *)
LEMMA BoundStays ==
  ASSUME SessionTyping, SessionTyping', Carried, OnePublication,
         [SessionNext]_sessionVars, Clean'
  PROVE  \A r, v : v \in 1..version /\ (r = role \/ v \in Stale) => r = role' \/ v \in Stale'
<1>t. version \in 1..MaxVersion /\ MaxVersion \in Nat
  BY SessionAssumption DEF SessionTyping, SessionTypeOK
<1>1. CASE \E c \in Call : ChangeRole(c)
  <2>1. 1..MaxVersion \subseteq Stale'
    BY <1>1, StaleAll
  <2> QED
    BY <2>1, <1>t
<1>2. CASE ~\E c \in Call : ChangeRole(c)
  <2>1. role' = role
    BY <1>2 DEF SessionNext, sessionVars, userVars, LoginRead, LoginIssue, VerifyRead,
       VerifyIssue, ExchangeToken, Rotate, CompromiseFamily, CompromiseCache,
       CompromiseRow, RevokeStart, RevokeRow, RevokeCache, ExchangeFamily, Logout,
       TicketExpires, Evict
  <2>2. \A v \in Stale : v <= version => v \in Stale'
    BY StaleStays
  <2> QED
    BY <2>1, <2>2, <1>t
<1> QED
  BY <1>1, <1>2

(* Roles and versions step by step.                                        *)
LEMMA RolesBoundStep ==
  ASSUME SessionTyping, SessionTyping', Carried, OnePublication, RolesBound,
         [SessionNext]_sessionVars
  PROVE  RolesBound'
<1> SUFFICES ASSUME Clean' PROVE RolesBound'
  BY DEF RolesBound
<1>t. /\ version \in Nat /\ version >= 1 /\ cached \in Nat /\ call \in [Call -> Caller]
      /\ access \subseteq [role : Role, ver : 1..MaxVersion]
      /\ tokens \in Seq([family : 0..MaxTokens, role : Role])
      /\ Len(tokens) \in Nat /\ DOMAIN tokens = 1..Len(tokens)
      /\ \A t \in 1..Len(tokens) : tokens[t] \in [family : 0..MaxTokens, role : Role]
  <2>2. /\ Len(tokens) \in Nat /\ DOMAIN tokens = 1..Len(tokens)
        /\ \A t \in 1..Len(tokens) : tokens[t] \in [family : 0..MaxTokens, role : Role]
    BY SeqShape DEF SessionTyping, SessionTypeOK
  <2>3. version \in Nat /\ version >= 1 /\ cached \in Nat
    BY SessionAssumption DEF SessionTyping, SessionTypeOK
  <2>4. call \in [Call -> Caller] /\ access \subseteq [role : Role, ver : 1..MaxVersion]
    BY DEF SessionTyping, SessionTypeOK
  <2>5. tokens \in Seq([family : 0..MaxTokens, role : Role])
    BY DEF SessionTyping, SessionTypeOK
  <2> QED
    BY <2>2, <2>3, <2>4, <2>5
<1>l. /\ \A where : Lost(where) => (Unfailing' <=> Unfailing /\ where = "memory")
      /\ lost' = lost => (Unfailing' <=> Unfailing)
  BY LostSpoils
<1>c. Clean
  <2>1. CASE Quietly
    BY <2>1 DEF Quietly
  <2>2. ASSUME NEW c \in Call, RevokeRow(c) PROVE Clean
    BY <2>2, <1>l DEF RevokeRow, Clean
  <2>3. ASSUME NEW c \in Call, RevokeCache(c) PROVE Clean
    BY <2>3, <1>l DEF RevokeCache, Clean
  <2> QED
    BY <2>1, <2>2, <2>3, QuietStep
<1>b. \A r, v : v \in 1..version /\ (r = role \/ v \in Stale) => r = role' \/ v \in Stale'
  BY BoundStays
<1>1. \A v \in Stale : 1 \in Stale
  BY StaleDown, SessionAssumption
(* Now the papers themselves, after the step, by the bound before it.      *)
<1>o. /\ \A a \in access : a.ver \in 1..version /\ (a.role = role \/ a.ver \in Stale)
      /\ \A r \in tickets : r = role \/ 1 \in Stale
      /\ \A t \in DOMAIN tokens : tokens[t].role = role \/ 1 \in Stale
      /\ \A c \in Call :
           /\ At(c, "login") => /\ call[c].role = role \/ call[c].ver \in Stale
                                /\ call[c].ver \in 1..version
           /\ At(c, "verify") => call[c].role = role \/ 1 \in Stale
           /\ At(c, "rotate") => /\ call[c].role = role \/ 1 \in Stale
  <2>1. \A a \in access : a.ver \in 1..version
    BY <1>t DEF Carried
  <2>2. \A c \in Call : At(c, "login") => call[c].ver \in 1..version
    BY DEF Carried, Bears, At
  <2>3. \A c \in Call : At(c, "rotate") =>
          call[c].tok \in DOMAIN tokens /\ call[c].role = tokens[call[c].tok].role
    BY DEF Carried, Bears, At
  <2> QED
    BY <2>1, <2>2, <2>3, <1>c DEF RolesBound
<1>2. 1 \in 1..version
  BY <1>t
<1>n. /\ \A a \in access : a.role = role' \/ a.ver \in Stale'
      /\ \A r \in tickets : r = role' \/ 1 \in Stale'
      /\ \A t \in DOMAIN tokens : tokens[t].role = role' \/ 1 \in Stale'
      /\ \A c \in Call :
           /\ At(c, "login") => /\ call[c].role = role' \/ call[c].ver \in Stale'
                                /\ call[c].role = role' \/ 1 \in Stale'
           /\ At(c, "verify") => call[c].role = role' \/ 1 \in Stale'
           /\ At(c, "rotate") => call[c].role = role' \/ 1 \in Stale'
  BY <1>o, <1>b, <1>1, <1>2
<1> DEFINE Held == /\ \A a \in access' : a.role = role' \/ a.ver \in Stale'
                   /\ \A r \in tickets' : r = role' \/ 1 \in Stale'
                   /\ \A t \in DOMAIN tokens' : tokens'[t].role = role' \/ 1 \in Stale'
           Borne == \A c \in Call :
             /\ call'[c].at = "login" => call'[c].role = role' \/ call'[c].ver \in Stale'
             /\ call'[c].at = "verify" => call'[c].role = role' \/ 1 \in Stale'
<1>k. SUFFICES Held /\ Borne
  BY DEF RolesBound, At
<1>p. ASSUME NEW r, NEW v, NEW f \in Nat, Issue(r, v, f), r = role' \/ v \in Stale',
             r = role' \/ 1 \in Stale', r \in Role, f \in 0..MaxTokens
      PROVE  /\ \A a \in access' : a.role = role' \/ a.ver \in Stale'
             /\ \A t \in DOMAIN tokens' : tokens'[t].role = role' \/ 1 \in Stale'
  <2> DEFINE x == [family |-> f, role |-> r]
             S == [family : 0..MaxTokens, role : Role]
  <2>1. x \in S /\ tokens \in Seq(S) /\ tokens' = Append(tokens, x)
    BY <1>p, <1>t DEF Issue
  <2> HIDE DEF S, x
  <2>2. /\ DOMAIN Append(tokens, x) = 1..(Len(tokens) + 1)
        /\ \A i \in 1..Len(tokens) : Append(tokens, x)[i] = tokens[i]
        /\ Append(tokens, x)[Len(tokens) + 1] = x
    BY <2>1, Appended
  <2>3. \A t \in DOMAIN tokens' : (t \in DOMAIN tokens /\ tokens'[t] = tokens[t]) \/ tokens'[t] = x
    BY <1>t, <2>1, <2>2
  <2>4. x.role = r
    BY DEF x
  <2>5. \A t \in DOMAIN tokens' : tokens'[t].role = role' \/ 1 \in Stale'
    BY <1>p, <1>n, <2>3, <2>4
  <2>6. \A a \in access' : a.role = role' \/ a.ver \in Stale'
    BY <1>p, <1>n DEF Issue
  <2> QED
    BY <2>5, <2>6
<1> USE DEF At
<1>r. \A c \in Call : call[c] \in Caller
  BY <1>t
<1>3. ASSUME NEW c \in Call, LoginRead(c) PROVE Held /\ Borne
  <2>1. UNCHANGED <<access, tickets, tokens, role>>
    BY <1>3 DEF LoginRead, userVars, tokenVars
  <2>2. call'[c].role = role /\ call'[c].at = "login" /\ \A d \in Call \ {c} : call'[d] = call[d]
    BY <1>3, <1>t DEF LoginRead, Goes
  <2> QED
    BY <2>1, <2>2, <1>n
<1>4. ASSUME NEW c \in Call, LoginIssue(c) PROVE Held /\ Borne
  <2>1. call'[c].at = "idle" /\ \A d \in Call \ {c} : call'[d] = call[d]
    BY <1>4, <1>t DEF LoginIssue, Ends, Idle
  <2>2. Borne
    BY <2>1, <1>n
  <2>3. At(c, "login") /\ call[c].role \in Role
    BY <1>4 DEF LoginIssue, Carried, Bears
  <2>4. CASE call[c].tok = 1
    <3>1. tickets' = tickets \cup {call[c].role} /\ UNCHANGED <<access, tokens>>
      BY <1>4, <2>4 DEF LoginIssue
    <3> QED
      BY <3>1, <2>2, <2>3, <1>n
  <2>5. CASE call[c].tok # 1
    <3>1. /\ Issue(call[c].role, call[c].ver, Len(tokens) + 1) /\ UNCHANGED tickets
      BY <1>4, <2>5 DEF LoginIssue, IssuedVersion
    <3>2. Len(tokens) + 1 \in 0..MaxTokens /\ Len(tokens) + 1 \in Nat
      BY <3>1, <1>t, SessionAssumption DEF Issue
    <3> QED
      BY <3>1, <3>2, <2>2, <2>3, <1>n, <1>p
  <2> QED
    BY <2>4, <2>5
<1>5. ASSUME NEW c \in Call, VerifyRead(c) PROVE Held /\ Borne
  <2>1. PICK r \in tickets : Goes(c, "verify", r, 1, 0)
    BY <1>5 DEF VerifyRead
  <2>2. UNCHANGED <<access, tickets, tokens, role>>
    BY <1>5 DEF VerifyRead, userVars, tokenVars
  <2>3. call'[c].role = r /\ call'[c].at = "verify" /\ \A d \in Call \ {c} : call'[d] = call[d]
    BY <2>1, <1>t DEF Goes
  <2> QED
    BY <2>2, <2>3, <1>n
<1>6. ASSUME NEW c \in Call, VerifyIssue(c) PROVE Held /\ Borne
  <2>1. /\ call'[c].at = "idle" /\ (\A d \in Call \ {c} : call'[d] = call[d])
        /\ tickets' \subseteq tickets /\ Issue(call[c].role, 1, NoFamily)
    BY <1>6, <1>t DEF VerifyIssue, Ends, Idle
  <2>2. At(c, "verify") /\ call[c].role \in Role /\ NoFamily \in Nat /\ NoFamily \in 0..MaxTokens
    BY <1>6, SessionAssumption DEF VerifyIssue, Carried, Bears, NoFamily
  <2> QED
    BY <2>1, <2>2, <1>n, <1>p
<1>7. ASSUME NEW c \in Call, Rotate(c) PROVE Held /\ Borne
  <2>1. /\ call'[c].at = "idle" /\ (\A d \in Call \ {c} : call'[d] = call[d])
        /\ UNCHANGED tickets
        /\ \/ Issue(call[c].role, 1, Family(call[c].tok))
           \/ UNCHANGED <<access, tokens>>
    BY <1>7, <1>t DEF Rotate, Ends, Idle
  <2>2. /\ At(c, "rotate") /\ call[c].tok \in DOMAIN tokens
        /\ call[c].role = tokens[call[c].tok].role
    BY <1>7 DEF Rotate, Carried, Bears
  <2>3. /\ call[c].role \in Role /\ Family(call[c].tok) \in Nat
        /\ Family(call[c].tok) \in 0..MaxTokens
    BY <2>2, <1>t, SessionAssumption DEF Family
  <2>4. CASE Issue(call[c].role, 1, Family(call[c].tok))
    BY <2>1, <2>2, <2>3, <2>4, <1>n, <1>p
  <2>5. CASE UNCHANGED <<access, tokens>>
    BY <2>1, <2>5, <1>n
  <2> QED
    BY <2>1, <2>4, <2>5
(* No other step issues anything or takes up a role.                       *)
<1>8. ASSUME UNCHANGED <<access, tokens>>, tickets' \subseteq tickets,
             \A d \in Call : call'[d] = call[d] \/ call'[d].at \notin {"login", "verify"}
      PROVE  Held /\ Borne
  BY <1>8, <1>n
<1> USE DEF userVars, tokenVars, history, Goes, Ends, Next1, Idle
<1>9. ASSUME NEW c \in Call, ExchangeToken(c) PROVE Held /\ Borne
  BY <1>8, <1>9, <1>t DEF ExchangeToken
<1>10. ASSUME NEW c \in Call, CompromiseFamily(c) PROVE Held /\ Borne
  BY <1>8, <1>10, <1>t DEF CompromiseFamily
<1>11. ASSUME NEW c \in Call, CompromiseCache(c) PROVE Held /\ Borne
  BY <1>8, <1>11, <1>t DEF CompromiseCache
<1>12. ASSUME NEW c \in Call, CompromiseRow(c) PROVE Held /\ Borne
  BY <1>8, <1>12, <1>t DEF CompromiseRow
<1>13. ASSUME NEW c \in Call, ChangeRole(c) PROVE Held /\ Borne
  BY <1>8, <1>13, <1>t DEF ChangeRole
<1>14. ASSUME NEW c \in Call, RevokeStart(c) PROVE Held /\ Borne
  BY <1>8, <1>14, <1>t DEF RevokeStart
<1>15. ASSUME NEW c \in Call, RevokeRow(c) PROVE Held /\ Borne
  BY <1>8, <1>15, <1>t DEF RevokeRow
<1>16. ASSUME NEW c \in Call, RevokeCache(c) PROVE Held /\ Borne
  BY <1>8, <1>16, <1>t DEF RevokeCache
<1>17. ASSUME NEW c \in Call, NEW t \in DOMAIN tokens, ExchangeFamily(c, t) PROVE Held /\ Borne
  BY <1>8, <1>17, <1>t DEF ExchangeFamily
<1>18. ASSUME NEW t \in DOMAIN tokens, Logout(t) PROVE Held /\ Borne
  BY <1>8, <1>18 DEF Logout
<1>19. CASE TicketExpires
  BY <1>8, <1>19 DEF TicketExpires
<1>20. CASE UNCHANGED sessionVars
  BY <1>8, <1>20 DEF sessionVars
<1>21. CASE Evict
  BY <1>8, <1>21 DEF Evict
<1> QED
  BY <1>3, <1>4, <1>5, <1>6, <1>7, <1>9, <1>10, <1>11, <1>12, <1>13, <1>14, <1>15,
     <1>16, <1>17, <1>18, <1>19, <1>20, <1>21 DEF SessionNext

(* The cached version outruns the row by no more than the compromise       *)
(* handlers between their two writes and those whose second one failed.    *)
LEMMA FreshLoginStep ==
  ASSUME SessionTyping, SessionTyping', Carried, FreshLoginAccepted,
         [SessionNext]_sessionVars
  PROVE  FreshLoginAccepted'
<1> DEFINE B == {c \in Call : At(c, "bump")}
           D == {i \in DOMAIN lost : lost[i] = "db"}
<1>t. /\ version \in Nat /\ cached \in Nat /\ version' \in Nat /\ cached' \in Nat
      /\ call \in [Call -> Caller] /\ lost \in Seq({"db", "redis", "memory"})
      /\ Len(lost) \in Nat /\ DOMAIN lost = 1..Len(lost)
      /\ call' \in [Call -> Caller]
  <2>1. Len(lost) \in Nat /\ DOMAIN lost = 1..Len(lost)
    BY SeqShape DEF SessionTyping
  <2> QED
    BY <2>1, SessionAssumption DEF SessionTyping, SessionTypeOK
<1>f. /\ IsFiniteSet(B) /\ IsFiniteSet(D) /\ IsFiniteSet(B') /\ IsFiniteSet(D')
      /\ Cardinality(B) \in Nat /\ Cardinality(D) \in Nat
      /\ Cardinality(B') \in Nat /\ Cardinality(D') \in Nat
  <2>1. DOMAIN lost' = 1..Len(lost') /\ Len(lost') \in Nat
    BY SeqShape DEF SessionTyping
  <2>2. IsFiniteSet(1..Len(lost)) /\ IsFiniteSet(1..Len(lost'))
    BY <1>t, <2>1, FS_Interval
  <2>3. D \in SUBSET (1..Len(lost)) /\ D' \in SUBSET (1..Len(lost'))
        /\ B \in SUBSET Call /\ B' \in SUBSET Call
    BY <1>t, <2>1
  <2>4. IsFiniteSet(B) /\ IsFiniteSet(D) /\ IsFiniteSet(B') /\ IsFiniteSet(D')
    BY <2>2, <2>3, FS_Subset, SessionAssumption
  <2> QED
    BY <2>4, FS_CardinalityType
<1>c. cached <= version + Cardinality(B) + Cardinality(D)
  BY DEF FreshLoginAccepted
<1>g. SUFFICES cached' <= version' + Cardinality(B') + Cardinality(D')
  BY DEF FreshLoginAccepted
<1>l. ASSUME NEW where \in {"db", "redis", "memory"}, Lost(where)
      PROVE  D' = IF where = "db" THEN D \cup {Len(lost) + 1} ELSE D
  <2>1. /\ lost' = Append(lost, where) /\ DOMAIN lost' = 1..(Len(lost) + 1)
        /\ \A i \in 1..Len(lost) : lost'[i] = lost[i]
        /\ lost'[Len(lost) + 1] = where
    <3>1. lost' = Append(lost, where)
      BY <1>l DEF Lost
    <3> QED
      BY <3>1, <1>t, Appended
  <2>2. \A i : i \in D' <=> (i \in D \/ (i = Len(lost) + 1 /\ where = "db"))
    BY <2>1, <1>t
  <2> HIDE DEF D
  <2> QED
    BY <2>2
<1>m. ASSUME NEW where \in {"db", "redis", "memory"}, Lost(where)
      PROVE  Cardinality(D') = IF where = "db" THEN Cardinality(D) + 1 ELSE Cardinality(D)
  <2>1. Len(lost) + 1 \notin D
    BY <1>t
  <2> HIDE DEF D
  <2> QED
    BY <1>l, <1>m, <1>f, <2>1, FS_AddElement
<1> HIDE DEF B, D
(* Most steps leave both counts alone and raise no cached version.         *)
<1>q. ASSUME cached' <= cached, version <= version', Cardinality(B') = Cardinality(B),
             Cardinality(D) <= Cardinality(D')
      PROVE  cached' <= version' + Cardinality(B') + Cardinality(D')
  BY <1>q, <1>c, <1>t, <1>f
<1>s. ASSUME \A c \in Call : call'[c].at = "bump" <=> At(c, "bump") PROVE B' = B
  BY <1>s DEF B, At
<1>u. lost' = lost => D' = D
  BY DEF D
<1>1. ASSUME NEW c \in Call, CompromiseCache(c)
      PROVE  cached' <= version' + Cardinality(B') + Cardinality(D')
  <2>1. /\ cached' = cached + 1 /\ version' = version /\ lost' = lost
        /\ ~At(c, "bump") /\ call'[c].at = "bump"
        /\ \A d \in Call \ {c} : call'[d] = call[d]
    BY <1>1, <1>t DEF CompromiseCache, Next1, Goes, At, userVars, history
  <2>2. B' = B \cup {c} /\ c \notin B
    BY <2>1 DEF B, At
  <2>3. Cardinality(B') = Cardinality(B) + 1
    BY <2>2, <1>f, FS_AddElement
  <2> QED
    BY <2>1, <2>3, <1>u, <1>c, <1>t, <1>f
<1>2. ASSUME NEW c \in Call, CompromiseRow(c)
      PROVE  cached' <= version' + Cardinality(B') + Cardinality(D')
  <2>1. /\ cached' = cached /\ At(c, "bump") /\ call'[c].at = "idle"
        /\ \A d \in Call \ {c} : call'[d] = call[d]
    BY <1>2, <1>t DEF CompromiseRow, Ends, Idle, At
  <2>2. B' = B \ {c} /\ c \in B
    BY <2>1 DEF B, At
  <2>3. Cardinality(B') = Cardinality(B) - 1
    BY <2>2, <1>f, FS_RemoveElement
  <2>4. CASE version' = version + 1 /\ lost' = lost
    BY <2>1, <2>3, <2>4, <1>u, <1>c, <1>t, <1>f
  <2>5. CASE version' = version /\ Lost("db")
    <3>1. Cardinality(D') = Cardinality(D) + 1
      BY <2>5, <1>m
    <3> QED
      BY <2>1, <2>3, <2>5, <3>1, <1>c, <1>t, <1>f
  <2> QED
    BY <1>2, <2>4, <2>5 DEF CompromiseRow, Bumped
<1>3. ASSUME NEW c \in Call, RevokeRow(c)
      PROVE  cached' <= version' + Cardinality(B') + Cardinality(D')
  <2>1. /\ cached' = cached /\ version <= version' /\ (lost' = lost \/ Lost("db"))
        /\ B' = B
    <3>1. \A d \in Call : call'[d].at = "bump" <=> At(d, "bump")
      BY <1>3, <1>t DEF RevokeRow, Goes, At
    <3> QED
      BY <3>1, <1>3, <1>t, <1>s DEF RevokeRow
  <2>2. Cardinality(D) <= Cardinality(D')
    BY <2>1, <1>u, <1>m, <1>f
  <2> QED
    BY <2>1, <2>2, <1>q, <1>f, <1>t
<1>4. ASSUME NEW c \in Call, RevokeCache(c)
      PROVE  cached' <= version' + Cardinality(B') + Cardinality(D')
  <2>1. /\ (cached' = call[c].ver /\ lost' = lost) \/ (cached' = cached /\ Lost("redis"))
        /\ version' = version /\ B' = B
    <3>1. \A d \in Call : call'[d].at = "bump" <=> At(d, "bump")
      BY <1>4, <1>t DEF RevokeCache, Ends, Idle, At
    <3> QED
      BY <3>1, <1>4, <1>t, <1>s DEF RevokeCache, Published, userVars
  <2>2. call[c].ver <= version /\ call[c].ver \in Nat
    BY <1>4, <1>t DEF RevokeCache, Carried, Bears, At, Caller
  <2>3. CASE cached' = call[c].ver /\ lost' = lost
    BY <2>1, <2>2, <2>3, <1>t, <1>f
  <2>4. CASE cached' = cached /\ Lost("redis")
    <3>1. Cardinality(D') = Cardinality(D)
      BY <2>4, <1>m
    <3> QED
      BY <2>1, <2>4, <3>1, <1>q, <1>f, <1>t
  <2> QED
    BY <2>1, <2>3, <2>4
<1>5. ASSUME cached' = cached, version' = version, lost' = lost \/ Lost("redis"),
             \A c \in Call : call'[c].at = "bump" <=> At(c, "bump")
      PROVE  cached' <= version' + Cardinality(B') + Cardinality(D')
  <2>1. B' = B
    BY <1>5, <1>s
  <2>2. Cardinality(D) <= Cardinality(D')
    BY <1>5, <1>u, <1>m, <1>f
  <2> QED
    BY <1>5, <2>1, <2>2, <1>q, <1>f, <1>t
<1> DEFINE Rest == /\ cached' = cached /\ version' = version
                   /\ lost' = lost \/ Lost("redis")
                   /\ \A c \in Call : call'[c].at = "bump" <=> At(c, "bump")
<1> USE DEF userVars, tokenVars, history, At, Next1, Goes, Ends, Idle
<1>6. ASSUME NEW c \in Call, LoginRead(c) PROVE Rest
  BY <1>6, <1>t DEF LoginRead
<1>7. ASSUME NEW c \in Call, LoginIssue(c) PROVE Rest
  BY <1>7, <1>t DEF LoginIssue
<1>8. ASSUME NEW c \in Call, VerifyRead(c) PROVE Rest
  BY <1>8, <1>t DEF VerifyRead
<1>9. ASSUME NEW c \in Call, VerifyIssue(c) PROVE Rest
  BY <1>9, <1>t DEF VerifyIssue
<1>10. ASSUME NEW c \in Call, ExchangeToken(c) PROVE Rest
  BY <1>10, <1>t DEF ExchangeToken
<1>11. ASSUME NEW c \in Call, Rotate(c) PROVE Rest
  BY <1>11, <1>t DEF Rotate
<1>12. ASSUME NEW c \in Call, CompromiseFamily(c) PROVE Rest
  BY <1>12, <1>t DEF CompromiseFamily
<1>13. ASSUME NEW c \in Call, ChangeRole(c) PROVE Rest
  BY <1>13, <1>t DEF ChangeRole
<1>14. ASSUME NEW c \in Call, RevokeStart(c) PROVE Rest
  BY <1>14, <1>t DEF RevokeStart
<1>15. ASSUME NEW c \in Call, NEW t \in DOMAIN tokens, ExchangeFamily(c, t) PROVE Rest
  BY <1>15, <1>t DEF ExchangeFamily
<1>16. ASSUME NEW t \in DOMAIN tokens, Logout(t) PROVE Rest
  BY <1>16, <1>t DEF Logout
<1>17. CASE TicketExpires
  <2>1. Rest
    BY <1>17, <1>t DEF TicketExpires
  <2> QED
    BY <2>1, <1>5
<1>18. CASE UNCHANGED sessionVars
  <2>1. Rest
    BY <1>18, <1>t DEF sessionVars
  <2> QED
    BY <2>1, <1>5
<1>19. CASE Evict
  <2>1. \A c \in Call : call'[c].at = "bump" <=> At(c, "bump")
    BY <1>19 DEF Evict
  <2>2. cached' <= cached /\ version' = version /\ Lost("memory")
    BY <1>19, <1>t DEF Evict
  <2>3. B' = B
    BY <2>1, <1>s
  <2>4. Cardinality(D) <= Cardinality(D')
    BY <2>2, <1>m, <1>f
  <2>5. version <= version'
    BY <2>2, <1>t
  <2> QED
    BY <2>2, <2>3, <2>4, <2>5, <1>q
<1> HIDE DEF userVars, tokenVars, history, At, Next1, Goes, Ends, Idle
<1> QED
  BY <1>1, <1>2, <1>3, <1>4, <1>5, <1>6, <1>7, <1>8, <1>9, <1>10, <1>11, <1>12,
     <1>13, <1>14, <1>15, <1>16, <1>17, <1>18, <1>19 DEF SessionNext

(* In a family of which no token was exchanged twice at once, whoever is   *)
(* rotating a token is alone and holds the only one that still works.      *)
Succession ==
  \A f \in 1..MaxTokens \ contested :
    /\ \A t, u \in DOMAIN tokens \ revoked : Family(t) = f /\ Family(u) = f => t = u
    /\ \A c \in Call : At(c, "rotate") /\ Family(call[c].tok) = f =>
         \A t \in DOMAIN tokens \ revoked : Family(t) = f => t = call[c].tok
    /\ \A c, d \in Call :
         /\ At(c, "rotate") /\ Family(call[c].tok) = f
         /\ At(d, "rotate") /\ Family(call[d].tok) = f
         => c = d

(* The families step by step: whoever exchanges or logs out revokes the    *)
(* last token first, and a token is added only to a family without one     *)
(* that works.                                                             *)
LEMMA SuccessionStep ==
  ASSUME SessionTyping, SessionTyping', Carried, Succession, [SessionNext]_sessionVars
  PROVE  Succession'
<1>t. /\ call \in [Call -> Caller]
      /\ tokens \in Seq([family : 0..MaxTokens, role : Role])
      /\ Len(tokens) \in Nat /\ DOMAIN tokens = 1..Len(tokens)
      /\ \A t \in DOMAIN tokens : tokens[t] \in [family : 0..MaxTokens, role : Role]
      /\ revoked \subseteq DOMAIN tokens
      /\ \A t \in DOMAIN tokens : Family(t) <= Len(tokens) /\ Family(t) \in Nat
      /\ \A c \in Call : At(c, "rotate") \/ At(c, "exchange") => call[c].tok \in DOMAIN tokens
      /\ MaxTokens \in Nat
  <2>1. /\ Len(tokens) \in Nat /\ DOMAIN tokens = 1..Len(tokens)
        /\ \A t \in 1..Len(tokens) : tokens[t] \in [family : 0..MaxTokens, role : Role]
    BY SeqShape DEF SessionTyping, SessionTypeOK
  <2>2. /\ call \in [Call -> Caller] /\ revoked \subseteq DOMAIN tokens
        /\ tokens \in Seq([family : 0..MaxTokens, role : Role])
    BY DEF SessionTyping, SessionTypeOK
  <2>3. \A t \in DOMAIN tokens : Family(t) <= Len(tokens) /\ Family(t) \in Nat
    BY <2>1, SessionAssumption DEF Carried, Family
  <2>4. \A c \in Call : At(c, "rotate") \/ At(c, "exchange") => call[c].tok \in DOMAIN tokens
    BY DEF Carried, Bears, At
  <2> QED
    BY <2>1, <2>2, <2>3, <2>4, SessionAssumption
(* A family of its own, or none, for a new token.                          *)
<1>n. ASSUME NEW r \in Role, NEW v, NEW f \in 0..MaxTokens, Issue(r, v, f)
      PROVE  /\ DOMAIN tokens' = DOMAIN tokens \cup {Len(tokens) + 1}
             /\ Len(tokens) + 1 \notin DOMAIN tokens
             /\ \A t \in DOMAIN tokens : tokens'[t] = tokens[t]
             /\ tokens'[Len(tokens) + 1].family = f
  <2> DEFINE x == [family |-> f, role |-> r]
             S == [family : 0..MaxTokens, role : Role]
  <2>1. x \in S /\ tokens \in Seq(S) /\ tokens' = Append(tokens, x)
    BY <1>n, <1>t DEF Issue
  <2>2. x.family = f
    OBVIOUS
  <2> HIDE DEF S, x
  <2>3. /\ DOMAIN Append(tokens, x) = 1..(Len(tokens) + 1)
        /\ \A i \in 1..Len(tokens) : Append(tokens, x)[i] = tokens[i]
        /\ Append(tokens, x)[Len(tokens) + 1] = x
    BY <2>1, Appended
  <2> QED
    BY <1>t, <2>1, <2>2, <2>3
(* Steps that add no token and put nobody to work on a rotation.           *)
<1> DEFINE Rest == /\ tokens' = tokens /\ revoked \subseteq revoked'
                   /\ contested \subseteq contested'
                   /\ \A c \in Call : call'[c].at = "rotate" =>
                        call[c].at = "rotate" /\ call'[c] = call[c]
<1>q. ASSUME Rest PROVE Succession'
  BY <1>q DEF Succession, Family, At
<1>a. ASSUME NEW r \in Role, NEW v, NEW f \in 0..MaxTokens, Issue(r, v, f),
             f = NoFamily \/ f = Len(tokens) + 1,
             UNCHANGED <<revoked, contested>>,
             \A c \in Call : call'[c].at = "rotate" => At(c, "rotate") /\ call'[c] = call[c]
      PROVE  Succession'
  <2> SUFFICES ASSUME NEW g \in 1..MaxTokens \ contested
               PROVE
    /\ \A t, u \in DOMAIN tokens' \ revoked :
         tokens'[t].family = g /\ tokens'[u].family = g => t = u
    /\ \A c \in Call : call'[c].at = "rotate" /\ tokens'[call'[c].tok].family = g =>
         \A t \in DOMAIN tokens' \ revoked : tokens'[t].family = g => t = call'[c].tok
    /\ \A c, d \in Call :
         /\ call'[c].at = "rotate" /\ tokens'[call'[c].tok].family = g
         /\ call'[d].at = "rotate" /\ tokens'[call'[d].tok].family = g
         => c = d
    BY <1>a DEF Succession, Family, At
  <2>1. /\ DOMAIN tokens' = DOMAIN tokens \cup {Len(tokens) + 1}
        /\ Len(tokens) + 1 \notin DOMAIN tokens
        /\ \A t \in DOMAIN tokens : tokens'[t] = tokens[t]
        /\ tokens'[Len(tokens) + 1].family = f
    BY <1>a, <1>n
  <2>2. \A c \in Call : call'[c].at = "rotate" =>
          /\ call[c].at = "rotate" /\ call'[c] = call[c] /\ call[c].tok \in DOMAIN tokens
          /\ tokens'[call'[c].tok] = tokens[call[c].tok]
    BY <1>a, <1>t, <2>1 DEF At
  <2>3. CASE g = f
    <3>1. \A t \in DOMAIN tokens : tokens'[t].family # g
      BY <1>a, <1>t, <2>1, <2>3 DEF Family, NoFamily
    <3> QED
      BY <2>1, <2>2, <3>1
  <2>4. CASE g # f
    <3>1. \A t \in DOMAIN tokens' : tokens'[t].family = g => t \in DOMAIN tokens /\ tokens'[t] = tokens[t]
      BY <2>1, <2>4
    <3> QED
      BY <2>1, <2>2, <3>1 DEF Succession, Family, At
  <2> QED
    BY <2>3, <2>4
<1> USE DEF userVars, tokenVars, history
<1>1. ASSUME NEW c \in Call, LoginRead(c) PROVE Rest
  BY <1>1, <1>t DEF LoginRead, At, Goes
<1>2. ASSUME NEW c \in Call, LoginIssue(c) PROVE Succession'
  <2>1. \A d \in Call : call'[d].at = "rotate" => At(d, "rotate") /\ call'[d] = call[d]
    BY <1>2, <1>t DEF LoginIssue, Ends, Idle, At
  <2>2. UNCHANGED <<revoked, contested>> /\ call[c].role \in Role
    BY <1>2 DEF LoginIssue, Carried, Bears, At
  <2>3. CASE UNCHANGED tokens
    BY <2>1, <2>2, <2>3, <1>q
  <2>4. CASE Issue(call[c].role, call[c].ver, Len(tokens) + 1)
    <3>1. Len(tokens) + 1 \in 0..MaxTokens
      BY <2>4, <1>t DEF Issue
    <3> QED
      BY <2>1, <2>2, <2>4, <3>1, <1>a
  <2> QED
    BY <1>2, <2>3, <2>4 DEF LoginIssue, IssuedVersion
<1>3. ASSUME NEW c \in Call, VerifyRead(c) PROVE Rest
  BY <1>3, <1>t DEF VerifyRead, At, Goes
<1>4. ASSUME NEW c \in Call, VerifyIssue(c) PROVE Succession'
  <2>1. \A d \in Call : call'[d].at = "rotate" => At(d, "rotate") /\ call'[d] = call[d]
    BY <1>4, <1>t DEF VerifyIssue, Ends, Idle, At
  <2>2. UNCHANGED <<revoked, contested>> /\ call[c].role \in Role /\ NoFamily \in 0..MaxTokens
    BY <1>4, <1>t DEF VerifyIssue, Carried, Bears, At, NoFamily
  <2>3. Issue(call[c].role, 1, NoFamily)
    BY <1>4 DEF VerifyIssue
  <2> QED
    BY <2>1, <2>2, <2>3, <1>a
<1>5. ASSUME NEW c \in Call, ExchangeToken(c) PROVE Succession'
  <2>1. /\ UNCHANGED <<tokens, revoked>> /\ contested \subseteq contested'
        /\ At(c, "exchange") /\ \A d \in Call \ {c} : call'[d] = call[d]
    BY <1>5, <1>t DEF ExchangeToken, Next1, Goes, Ends
  <2>2. CASE call[c].tok \in revoked
    <3>1. call'[c].at # "rotate"
      BY <1>5, <1>t, <2>2 DEF ExchangeToken, Next1, Goes, Ends, Idle
    <3> QED
      BY <2>1, <3>1, <1>q
  <2>3. CASE call[c].tok \notin revoked
    <3>1. /\ call'[c].at = "rotate" /\ call'[c].tok = call[c].tok
          /\ call[c].tok \in DOMAIN tokens
      BY <1>5, <1>t, <2>3 DEF ExchangeToken, Next1, Goes
    <3>2. (\E d \in Call \ {c} : At(d, "rotate") /\ call[d].tok = call[c].tok)
             => Family(call[c].tok) \in contested'
      BY <1>5 DEF ExchangeToken
    <3> SUFFICES ASSUME NEW g \in 1..MaxTokens \ contested'
                 PROVE
      /\ \A t, u \in DOMAIN tokens \ revoked :
           tokens[t].family = g /\ tokens[u].family = g => t = u
      /\ \A d \in Call : call'[d].at = "rotate" /\ tokens[call'[d].tok].family = g =>
           \A t \in DOMAIN tokens \ revoked : tokens[t].family = g => t = call'[d].tok
      /\ \A d, e \in Call :
           /\ call'[d].at = "rotate" /\ tokens[call'[d].tok].family = g
           /\ call'[e].at = "rotate" /\ tokens[call'[e].tok].family = g
           => d = e
      BY <2>1 DEF Succession, Family, At
    <3>3. /\ \A t, u \in DOMAIN tokens \ revoked :
               tokens[t].family = g /\ tokens[u].family = g => t = u
          /\ \A d \in Call : call[d].at = "rotate" /\ tokens[call[d].tok].family = g =>
               \A t \in DOMAIN tokens \ revoked : tokens[t].family = g => t = call[d].tok
          /\ \A d, e \in Call :
               /\ call[d].at = "rotate" /\ tokens[call[d].tok].family = g
               /\ call[e].at = "rotate" /\ tokens[call[e].tok].family = g
               => d = e
      BY <2>1 DEF Succession, Family, At
    <3>4. tokens[call[c].tok].family = g =>
            \A d \in Call \ {c} : ~(call[d].at = "rotate" /\ tokens[call[d].tok].family = g)
      BY <2>3, <3>1, <3>2, <3>3 DEF Family, At
    <3> QED
      BY <2>1, <2>3, <3>1, <3>3, <3>4
  <2> QED
    BY <2>2, <2>3
<1>6. ASSUME NEW c \in Call, Rotate(c) PROVE Succession'
  <2>1. /\ call'[c].at = "idle" /\ (\A d \in Call \ {c} : call'[d] = call[d])
        /\ contested' = contested /\ At(c, "rotate") /\ call[c].tok \in DOMAIN tokens
    BY <1>6, <1>t DEF Rotate, Ends, Idle
  <2>2. CASE UNCHANGED <<tokens, revoked>>
    <3>1. \A d \in Call : call'[d].at = "rotate" => At(d, "rotate") /\ call'[d] = call[d]
      BY <2>1 DEF At
    <3> QED
      BY <2>1, <2>2, <3>1, <1>q
  <2>3. CASE revoked' = revoked \cup {call[c].tok}
             /\ Issue(call[c].role, 1, Family(call[c].tok))
    <3>1. call[c].role \in Role /\ Family(call[c].tok) \in 0..MaxTokens
      BY <2>1, <1>t DEF Carried, Bears, At, Family
    <3>2. /\ DOMAIN tokens' = DOMAIN tokens \cup {Len(tokens) + 1}
          /\ Len(tokens) + 1 \notin DOMAIN tokens
          /\ \A t \in DOMAIN tokens : tokens'[t] = tokens[t]
          /\ tokens'[Len(tokens) + 1].family = Family(call[c].tok)
      BY <2>3, <3>1, <1>n
    <3> SUFFICES ASSUME NEW g \in 1..MaxTokens \ contested
                 PROVE
      /\ \A t, u \in DOMAIN tokens' \ revoked' :
           tokens'[t].family = g /\ tokens'[u].family = g => t = u
      /\ \A d \in Call : call'[d].at = "rotate" /\ tokens'[call'[d].tok].family = g =>
           \A t \in DOMAIN tokens' \ revoked' : tokens'[t].family = g => t = call'[d].tok
      /\ \A d, e \in Call :
           /\ call'[d].at = "rotate" /\ tokens'[call'[d].tok].family = g
           /\ call'[e].at = "rotate" /\ tokens'[call'[e].tok].family = g
           => d = e
      BY <2>1 DEF Succession, Family, At
    <3>3. /\ \A t, u \in DOMAIN tokens \ revoked :
               tokens[t].family = g /\ tokens[u].family = g => t = u
          /\ \A d \in Call : call[d].at = "rotate" /\ tokens[call[d].tok].family = g =>
               \A t \in DOMAIN tokens \ revoked : tokens[t].family = g => t = call[d].tok
          /\ \A d, e \in Call :
               /\ call[d].at = "rotate" /\ tokens[call[d].tok].family = g
               /\ call[e].at = "rotate" /\ tokens[call[e].tok].family = g
               => d = e
      BY DEF Succession, Family, At
    <3>4. \A d \in Call : call'[d].at = "rotate" =>
            /\ d # c /\ call[d].at = "rotate" /\ call'[d] = call[d]
            /\ tokens'[call'[d].tok] = tokens[call[d].tok]
      BY <2>1, <3>2, <1>t DEF At
    <3>5. CASE tokens[call[c].tok].family = g
      <4>1. \A t \in DOMAIN tokens' \ revoked' : tokens'[t].family = g => t = Len(tokens) + 1
        BY <2>1, <2>3, <3>2, <3>3, <3>5 DEF At
      <4>2. \A d \in Call : ~(call'[d].at = "rotate" /\ tokens'[call'[d].tok].family = g)
        BY <2>1, <3>3, <3>4, <3>5 DEF At
      <4> QED
        BY <4>1, <4>2
    <3>6. CASE tokens[call[c].tok].family # g
      <4>1. \A t \in DOMAIN tokens' \ revoked' : tokens'[t].family = g =>
              t \in DOMAIN tokens \ revoked /\ tokens'[t] = tokens[t]
        BY <2>3, <3>2, <3>6 DEF Family
      <4> QED
        BY <3>3, <3>4, <4>1
    <3> QED
      BY <3>5, <3>6
  <2> QED
    BY <1>6, <2>2, <2>3 DEF Rotate, Used
<1>7. ASSUME NEW c \in Call, CompromiseFamily(c) PROVE Rest
  BY <1>7, <1>t DEF CompromiseFamily, At, Next1, Goes
<1>8. ASSUME NEW c \in Call, CompromiseCache(c) PROVE Rest
  BY <1>8, <1>t DEF CompromiseCache, At, Next1, Goes
<1>9. ASSUME NEW c \in Call, CompromiseRow(c) PROVE Rest
  BY <1>9, <1>t DEF CompromiseRow, At, Ends, Idle
<1>10. ASSUME NEW c \in Call, ChangeRole(c) PROVE Rest
  BY <1>10, <1>t DEF ChangeRole, At, Goes
<1>11. ASSUME NEW c \in Call, RevokeStart(c) PROVE Rest
  BY <1>11, <1>t DEF RevokeStart, At, Goes
<1>12. ASSUME NEW c \in Call, RevokeRow(c) PROVE Rest
  BY <1>12, <1>t DEF RevokeRow, At, Goes
<1>13. ASSUME NEW c \in Call, RevokeCache(c) PROVE Rest
  BY <1>13, <1>t DEF RevokeCache, At, Ends, Idle
<1>14. ASSUME NEW c \in Call, NEW t \in DOMAIN tokens, ExchangeFamily(c, t) PROVE Rest
  BY <1>14, <1>t DEF ExchangeFamily, At, Goes
<1>15. ASSUME NEW t \in DOMAIN tokens, Logout(t) PROVE Rest
  BY <1>15, <1>t DEF Logout, At
<1>16. CASE TicketExpires
  <2>1. Rest
    BY <1>16 DEF TicketExpires, At
  <2> QED
    BY <2>1, <1>q
<1>17. CASE UNCHANGED sessionVars
  <2>1. Rest
    BY <1>17 DEF sessionVars, At
  <2> QED
    BY <2>1, <1>q
(* A revoked token that Redis drops takes its family out of the claim.     *)
<1>18. CASE Evict
  <2>1. UNCHANGED <<tokens, call>> /\ contested \subseteq contested'
    BY <1>18 DEF Evict
  <2>2. CASE revoked' = revoked
    BY <2>1, <2>2, <1>q
  <2>3. ASSUME NEW d \in revoked, revoked' = revoked \ {d},
               contested' = contested \cup {Family(d)}
        PROVE  Succession'
    <3>1. \A t \in DOMAIN tokens \ revoked' :
            tokens[t].family \notin contested' => t \in DOMAIN tokens \ revoked
      BY <2>3 DEF Family
    <3> QED
      BY <2>1, <3>1 DEF Succession, Family, At
  <2> QED
    BY <1>18, <2>2, <2>3 DEF Evict
<1> HIDE DEF Rest
<1> QED
  BY <1>q, <1>1, <1>2, <1>3, <1>4, <1>5, <1>6, <1>7, <1>8, <1>9, <1>10, <1>11, <1>12,
     <1>13, <1>14, <1>15, <1>16, <1>17, <1>18 DEF SessionNext

(* Every variable of the sessions keeps its type.                          *)
THEOREM SessionTypes == SessionSpec => []SessionTypeOK
<1>1. SessionTyping => SessionTypeOK
  BY DEF SessionTyping
<1> QED
  BY <1>1, SessionTyped, PTL

(* The four invariants together are inductive.                             *)
LEMMA SessionInduction == SessionSpec => [](OnePublication /\ RolesBound /\ FreshLoginAccepted /\ Succession)
<1> DEFINE I == OnePublication /\ RolesBound /\ FreshLoginAccepted /\ Succession
           T == SessionTyping /\ Carried
<1>1. SessionInit => I
  <2> SUFFICES ASSUME SessionInit PROVE I
    OBVIOUS
  <2>1. \A c \in Call : call[c].at = "idle"
    BY DEF SessionInit, SignedOut, Idle
  <2>2. OnePublication
    BY <2>1 DEF SessionInit, SignedOut, OnePublication, At
  <2>3. DOMAIN tokens = {} /\ access = {} /\ tickets = {}
    BY DEF SessionInit, SignedOut
  <2>4. RolesBound
    BY <2>1, <2>3 DEF RolesBound, At
  <2>5. Succession
    BY <2>1, <2>3 DEF Succession, At
  <2>6. FreshLoginAccepted
    <3>1. {c \in Call : At(c, "bump")} = {}
      BY <2>1 DEF At
    <3>2. {i \in DOMAIN lost : lost[i] = "db"} = {}
      BY DEF SessionInit, SignedOut
    <3>3. cached = 0 /\ version = 1 /\ Cardinality({}) = 0
      BY FS_EmptySet DEF SessionInit, SignedOut
    <3>4. 0 <= 1 + 0 + 0
      OBVIOUS
    <3> QED
      BY <3>1, <3>2, <3>3, <3>4, Zenon DEF FreshLoginAccepted
  <2> QED
    BY <2>2, <2>4, <2>5, <2>6
<1>2. T /\ T' /\ I /\ [SessionNext]_sessionVars => I'
  BY OnePublicationStep, RolesBoundStep, FreshLoginStep, SuccessionStep
<1> QED
  BY <1>1, <1>2, SessionTyped, PTL DEF SessionSpec

(* While Redis answers and still has the version of the last revocation,   *)
(* nothing issued before it is let in; a login by password that reads the  *)
(* row gets a token that is.                                               *)
THEOREM VersionGuardsTokens == SessionSpec => []TokensFollowVersion
<1>1. SessionTyping /\ OnePublication => RevocationStands
  <2> SUFFICES ASSUME SessionTyping, OnePublication, VersionKept PROVE RevocationStands
    BY DEF RevocationStands
  <2>1. answered <= cached
    BY DEF OnePublication, VersionKept
  <2>2. cached \in Nat /\ answered \in Nat /\ \A a \in access : a.ver \in Nat
    BY SessionAssumption DEF SessionTyping, SessionTypeOK
  <2>3. ASSUME NEW a \in access, NEW answers \in BOOLEAN, a.ver < answered,
               Accepted(a, answers)
        PROVE  ~answers
    BY <2>1, <2>2, <2>3 DEF Accepted
  <2>4. cached >= answered
    BY <2>1, <2>2
  <2> QED
    BY <2>3, <2>4 DEF RevocationStands
<1>2. FreshLoginAccepted /\ RevocationStands => TokensFollowVersion
  BY DEF TokensFollowVersion
<1> QED
  BY <1>1, <1>2, SessionInduction, SessionTyped, PTL

(* No access token that Redis is asked about is accepted with a role the   *)
(* user no longer has, while Redis has the version.                        *)
THEOREM NoFormerRole == SessionSpec => []RoleStands
<1>1. SessionTyping /\ OnePublication /\ RolesBound => RoleStands
  <2> SUFFICES ASSUME SessionTyping, OnePublication, RolesBound, VersionKept,
                      \A c \in Call : ~(call[c].at \in {"revoke", "publish"} /\ call[c].tok = 1),
                      NEW a \in access, NEW answers \in BOOLEAN, Accepted(a, answers),
                      answers
               PROVE  a.role = role
    BY DEF RoleStands
  <2>1. a.role = role \/ a.ver \in Stale
    BY DEF RolesBound, VersionKept
  <2>2. a.ver \in Stale => a.ver < answered
    BY DEF Stale, Changing, Outdone, At
  <2>3. /\ a.ver \in Nat /\ cached \in Nat /\ answered \in Nat
        /\ cached <= a.ver /\ answered <= cached
    BY SessionAssumption DEF SessionTyping, SessionTypeOK, Accepted, OnePublication,
       VersionKept
  <2> QED
    BY <2>1, <2>2, <2>3
<1> QED
  BY <1>1, SessionInduction, SessionTyped, PTL

(* A family has one refresh token that works, its last.                    *)
THEOREM OneSuccessor == SessionSpec => []SoleSuccessor
<1>1. Succession => SoleSuccessor
  BY DEF Succession, SoleSuccessor
<1> QED
  BY <1>1, SessionInduction, PTL

-----------------------------------------------------------------------------
(* Cases.                                                                  *)

(* Both are inductive together.                                            *)
CasesStand == CaseTypeOK /\ DispositionRecorded

(* A step of an officer.                                                   *)
OfficerStep(o) ==
  \/ AddCaseNote(o)
  \/ UpdateCase(o)
  \/ CloseCase(o)
  \/ RollBack(o)
  \/ \E c \in Case :
       \/ CreateCase(o, c)
       \/ NoteRead(o, c)
       \/ \E t \in PatchTarget : UpdateRead(o, c, t)
       \/ \E r \in Reason : CloseRead(o, c, r)

(* Every step is an officer's.                                             *)
LEMMA NextIsStep == CaseNext <=> \E o \in Officer : OfficerStep(o)
BY DEF CaseNext, OfficerStep

(* The idle request.                                                       *)
LEMMA NoReqTyped == NoReq \in Req /\ NoReq.op = "none"
BY DEF NoReq, Req, PatchTarget, Status, NoReason

(* A case that is not there, and one just opened.                          *)
LEMMA NoRowTyped ==
  /\ NoRow \in Row /\ NoRow.status = "none"
  /\ NoRow.reason = NoReason /\ NoRow.closed_at = "NULL"
  /\ [NoRow EXCEPT !.status = "OPEN"] \in Row
  /\ [NoRow EXCEPT !.status = "OPEN"] =
       [status |-> "OPEN", reason |-> NoReason, closed_at |-> "NULL"]
BY DEF NoRow, Row, Status

(* CaseTypeOK in two parts: what concerns requests, and the rows.          *)
Requests ==
  /\ req \in [Officer -> Req]
  /\ \A p \in Officer :
       req[p].op # "none" => req[p].on \in Case /\ case[req[p].on].status # "none"
  /\ \A p \in Officer : req[p].op = "close" => req[p].reason \in Reason

Rows ==
  /\ case \in [Case -> Row]
  /\ dispositions \in [Case -> SUBSET Reason]
  /\ noted \in [Case -> SUBSET Officer]
  /\ \A c \in Case : case[c].status = "none" => case[c] = NoRow

(* The types in their two parts.                                           *)
LEMMA TypeParts == CaseTypeOK <=> Requests /\ Rows
BY DEF CaseTypeOK, Requests, Rows

(* A read leaves the tables alone and types the request.                   *)
LEMMA ReadKeepsInv ==
  ASSUME CasesStand, NEW o \in Officer, NEW c \in Case,
         NEW op \in {"note", "patch", "close"}, NEW target \in PatchTarget,
         NEW reason \in Reason \cup {NoReason}, op = "close" => reason \in Reason,
         Reads(o, op, c, target, reason)
  PROVE  CasesStand'
<1> DEFINE new == [op |-> op, on |-> c, target |-> target, reason |-> reason]
<1>1. new \in Req
  BY DEF Req
<1>2. /\ case[c].status # "none" /\ req' = [req EXCEPT ![o] = new]
      /\ UNCHANGED <<case, dispositions, noted>>
  BY DEF Reads
<1>3. Requests'
  <2>1. \A p \in Officer : p # o => req'[p] = req[p]
    BY <1>2, TypeParts DEF CasesStand, Requests
  <2>2. req'[o] = new
    BY <1>2, TypeParts DEF CasesStand, Requests
  <2>3. req' \in [Officer -> Req]
    BY <1>1, <1>2, TypeParts DEF CasesStand, Requests
  <2> QED BY <2>1, <2>2, <2>3, <1>2, TypeParts DEF CasesStand, Requests
<1>4. Rows' /\ DispositionRecorded'
  BY <1>2, TypeParts DEF CasesStand, Rows, DispositionRecorded
<1> QED BY <1>3, <1>4, TypeParts DEF CasesStand, CaseTypeOK, Requests, Rows

(* A request that ends: the others keep their cases.                       *)
LEMMA EndKeepsRequests ==
  ASSUME CasesStand, NEW o \in Officer, Done(o),
         \A c \in Case : case[c].status # "none" => case'[c].status # "none"
  PROVE  Requests'
<1>1. req' \in [Officer -> Req]
  BY NoReqTyped DEF CasesStand, CaseTypeOK, Done
<1>2. \A p \in Officer : req'[p] = NoReq \/ req'[p] = req[p]
  BY DEF CasesStand, CaseTypeOK, Done
<1> QED BY <1>1, <1>2, NoReqTyped DEF CasesStand, CaseTypeOK, Requests

(* The types and the record of dispositions step by step.                  *)
LEMMA StepKeepsInv ==
  ASSUME CasesStand, NEW o \in Officer, OfficerStep(o)
  PROVE  CasesStand'
<1> DEFINE k == req[o].on
<1>0. CaseTypeOK /\ DispositionRecorded /\ Requests /\ Rows /\ req[o] \in Req
  BY TypeParts DEF CasesStand, CaseTypeOK
<1>1. CASE AddCaseNote(o)
  <2>1. k \in Case /\ noted' = [noted EXCEPT ![k] = @ \cup {o}]
    BY <1>0, <1>1 DEF AddCaseNote, Requests
  <2>2. Done(o) /\ UNCHANGED <<case, dispositions>>
    BY <1>1 DEF AddCaseNote
  <2>3. Requests'
    BY <2>2, EndKeepsRequests
  <2>4. Rows'
    BY <1>0, <2>1, <2>2 DEF Rows
  <2>5. DispositionRecorded'
    BY <1>0, <2>2 DEF DispositionRecorded
  <2> QED BY <2>3, <2>4, <2>5 DEF CasesStand, CaseTypeOK, Requests, Rows
<1>2. CASE UpdateCase(o)
  <2> DEFINE new == Patched(case[k], req[o].target)
  <2>1. /\ k \in Case /\ case[k].status # "none" /\ case[k] \in Row
        /\ req[o].target \in PatchTarget
    BY <1>0, <1>2 DEF UpdateCase, Requests, Rows, Req
  <2>2. case' = [case EXCEPT ![k] = new] /\ Done(o) /\ UNCHANGED <<dispositions, noted>>
    BY <1>2 DEF UpdateCase
  <2>3. new \in Row /\ new.status # "none"
    BY <2>1 DEF Row, PatchTarget, Status, Patched
  <2>4. case'[k] = new /\ \A c \in Case : c # k => case'[c] = case[c]
    BY <1>0, <2>1, <2>2 DEF Rows
  <2>5. Requests'
    BY <2>2, <2>3, <2>4, EndKeepsRequests
  <2>6. Rows'
    BY <1>0, <2>1, <2>2, <2>3, <2>4 DEF Rows
  <2>7. DispositionRecorded'
    <3>1. /\ new.reason = case[k].reason
          /\ new.status = "CLOSED" => \/ case[k].status = "CLOSED" /\ new.closed_at = case[k].closed_at
                                      \/ new.closed_at = "set"
          /\ case[k].closed_at = "set" => new.closed_at = "set"
      BY DEF Patched
    <3> QED BY <1>0, <2>2, <2>4, <3>1 DEF DispositionRecorded
  <2> QED BY <2>5, <2>6, <2>7 DEF CasesStand, CaseTypeOK, Requests, Rows
<1>3. CASE CloseCase(o)
  <2> DEFINE r == req[o].reason
             new == Closed(case[k], r)
  <2>1. k \in Case /\ case[k].status # "none" /\ case[k] \in Row /\ r \in Reason
    BY <1>0, <1>3 DEF CloseCase, Requests, Rows
  <2>2. /\ case' = [case EXCEPT ![k] = new] /\ Done(o) /\ UNCHANGED noted
        /\ dispositions' = [dispositions EXCEPT ![k] = @ \cup {r}]
    BY <1>3 DEF CloseCase
  <2>3. new \in Row /\ new.status = "CLOSED" /\ new.status # "none"
    BY <2>1 DEF Row, Status, Closed
  <2>4. /\ case'[k] = new /\ \A c \in Case : c # k => case'[c] = case[c]
        /\ dispositions'[k] = dispositions[k] \cup {r}
        /\ \A c \in Case : c # k => dispositions'[c] = dispositions[c]
    BY <1>0, <2>1, <2>2 DEF Rows
  <2>5. Requests'
    BY <2>2, <2>3, <2>4, EndKeepsRequests
  <2>6. Rows'
    BY <1>0, <2>1, <2>2, <2>3, <2>4 DEF Rows
  <2>7. DispositionRecorded'
    <3>1. CASE case[k].status = "CLOSED"
      <4>1. new = case[k]
        BY <3>1 DEF Closed
      <4> QED BY <1>0, <3>1, <4>1, <2>4 DEF DispositionRecorded
    <3>2. CASE case[k].status # "CLOSED"
      <4>1. new.reason = r /\ new.closed_at = "set"
        BY <3>2 DEF Closed
      <4> QED BY <1>0, <4>1, <2>4 DEF DispositionRecorded
    <3> QED BY <3>1, <3>2
  <2> QED BY <2>5, <2>6, <2>7 DEF CasesStand, CaseTypeOK, Requests, Rows
<1>4. CASE RollBack(o)
  <2>1. Done(o) /\ UNCHANGED <<case, dispositions, noted>>
    BY <1>4 DEF RollBack
  <2>2. Requests'
    BY <2>1, EndKeepsRequests
  <2>3. Rows' /\ DispositionRecorded'
    BY <1>0, <2>1 DEF Rows, DispositionRecorded
  <2> QED BY <2>2, <2>3 DEF CasesStand, CaseTypeOK, Requests, Rows
<1>5. ASSUME NEW c \in Case, CreateCase(o, c)
      PROVE  CasesStand'
  <2> DEFINE new == [status |-> "OPEN", reason |-> NoReason, closed_at |-> "NULL"]
  <2>1. /\ case[c].status = "none" /\ case' = [case EXCEPT ![c] = new]
        /\ UNCHANGED <<dispositions, noted, req>>
    BY <1>5, NoRowTyped DEF CreateCase
  <2>2. new \in Row
    BY NoRowTyped
  <2>3. case'[c] = new /\ \A d \in Case : d # c => case'[d] = case[d]
    BY <1>0, <2>1 DEF Rows
  <2>4. dispositions[c] = {}
    BY <1>0, <2>1, NoRowTyped DEF Rows, DispositionRecorded
  <2>5. Requests'
    BY <1>0, <2>1, <2>3 DEF Requests
  <2>6. Rows'
    BY <1>0, <2>1, <2>2, <2>3 DEF Rows
  <2>7. DispositionRecorded'
    BY <1>0, <2>1, <2>3, <2>4 DEF DispositionRecorded
  <2> QED BY <2>5, <2>6, <2>7 DEF CasesStand, CaseTypeOK, Requests, Rows
<1>6. ASSUME NEW c \in Case, NoteRead(o, c)
      PROVE  CasesStand'
  BY <1>6, ReadKeepsInv DEF NoteRead, PatchTarget
<1>7. ASSUME NEW c \in Case, NEW t \in PatchTarget, UpdateRead(o, c, t)
      PROVE  CasesStand'
  BY <1>7, ReadKeepsInv DEF UpdateRead
<1>8. ASSUME NEW c \in Case, NEW r \in Reason, CloseRead(o, c, r)
      PROVE  CasesStand'
  BY <1>8, ReadKeepsInv DEF CloseRead, PatchTarget
<1> QED BY <1>1, <1>2, <1>3, <1>4, <1>5, <1>6, <1>7, <1>8 DEF OfficerStep

(* Both hold at first.                                                     *)
LEMMA InitInv == CaseInit => CasesStand
BY NoReqTyped, NoRowTyped DEF CaseInit, CasesStand, CaseTypeOK, DispositionRecorded

(* Both stay.                                                              *)
LEMMA NextInv == CasesStand /\ [CaseNext]_caseVars => CasesStand'
<1> SUFFICES ASSUME CasesStand, [CaseNext]_caseVars PROVE CasesStand'
  OBVIOUS
<1>1. CASE CaseNext
  <2>1. PICK o \in Officer : OfficerStep(o)
    BY <1>1, NextIsStep
  <2> QED BY <2>1, StepKeepsInv
<1>2. CASE UNCHANGED caseVars
  BY <1>2 DEF CasesStand, CaseTypeOK, DispositionRecorded, caseVars
<1> QED BY <1>1, <1>2

(* Types and the record of dispositions, together.                         *)
THEOREM CaseInv == CaseSpec => []CasesStand
BY InitInv, NextInv, PTL DEF CaseSpec

(* The state of the case handlers is well typed; requests in flight work   *)
(* on existing cases.                                                      *)
THEOREM CaseTypeCorrect == CaseSpec => []CaseTypeOK
<1>1. CasesStand => CaseTypeOK
  BY DEF CasesStand
<1> QED BY <1>1, CaseInv, PTL

(* Whatever close, PATCH and note do at the same time, the reason a case   *)
(* was closed with is on its timeline and it has a closing date.           *)
THEOREM CaseDispositionRecorded == CaseSpec => []DispositionRecorded
<1>1. CasesStand => DispositionRecorded
  BY DEF CasesStand
<1> QED BY <1>1, CaseInv, PTL

(* How one step of an officer changes one row.                             *)
LEMMA StepOnClosed ==
  ASSUME CaseTypeOK, NEW o \in Officer, OfficerStep(o), NEW c \in Case,
         case[c].status = "CLOSED"
  PROVE  /\ case'[c].reason = case[c].reason
         /\ \/ case'[c] = case[c]
            \/ /\ req[o].op = "patch" /\ req[o].on = c
               /\ case'[c] = Patched(case[c], req[o].target)
<1>0. case \in [Case -> Row]
  BY DEF CaseTypeOK
<1>1. CASE UpdateCase(o)
  <2>1. case' = [case EXCEPT ![req[o].on] = Patched(case[req[o].on], req[o].target)]
    BY <1>1 DEF UpdateCase
  <2>2. CASE req[o].on = c
    BY <1>0, <1>1, <2>1, <2>2 DEF UpdateCase, Patched
  <2>3. CASE req[o].on # c
    BY <1>0, <2>1, <2>3
  <2> QED BY <2>2, <2>3
<1>2. CASE CloseCase(o)
  <2>1. case' = [case EXCEPT ![req[o].on] = Closed(case[req[o].on], req[o].reason)]
    BY <1>2 DEF CloseCase
  <2>2. Closed(case[c], req[o].reason) = case[c]
    BY DEF Closed
  <2>3. case'[c] = case[c]
    BY <1>0, <2>1, <2>2
  <2> QED BY <2>3
<1>3. ASSUME NEW d \in Case, CreateCase(o, d)
      PROVE  case'[c] = case[c]
  BY <1>0, <1>3 DEF CreateCase
<1>4. CASE UNCHANGED case
  BY <1>4
<1>5. \/ UpdateCase(o) \/ CloseCase(o) \/ UNCHANGED case
      \/ \E d \in Case : CreateCase(o, d)
  BY DEF OfficerStep, AddCaseNote, RollBack, NoteRead, UpdateRead, CloseRead, Reads
<1> QED BY <1>1, <1>2, <1>3, <1>4, <1>5

(* Of two closes that race, the first one's reason stands.                 *)
THEOREM CaseFirstReasonStands == CaseSpec => FirstReasonStands
<1> DEFINE A == \A c \in Case : case[c].status = "CLOSED" => case'[c].reason = case[c].reason
<1>1. CaseTypeOK /\ [CaseNext]_caseVars => [A]_caseVars
  <2> SUFFICES ASSUME CaseTypeOK, CaseNext PROVE A
    OBVIOUS
  <2>1. PICK o \in Officer : OfficerStep(o)
    BY NextIsStep
  <2> QED BY <2>1, StepOnClosed
<1> QED BY <1>1, CaseTypeCorrect, PTL DEF CaseSpec, FirstReasonStands

(* No step takes away that a case is closed with no older PATCH in flight. *)
LEMMA SealedStays ==
  ASSUME CaseTypeOK, NEW o \in Officer, OfficerStep(o), NEW c \in Case, Sealed(c)
  PROVE  Sealed(c)'
<1>1. case[c].status = "CLOSED" /\ case'[c].status = "CLOSED"
  <2>1. case[c].status = "CLOSED"
    BY DEF Sealed
  <2>2. CASE case'[c] = case[c]
    BY <2>1, <2>2
  <2>3. CASE /\ req[o].op = "patch" /\ req[o].on = c
             /\ case'[c] = Patched(case[c], req[o].target)
    <3>1. req[o].target \in {"keep", "CLOSED"}
      BY <2>3 DEF Sealed
    <3> QED BY <2>1, <2>3, <3>1 DEF Patched
  <2> QED BY <2>1, <2>2, <2>3, StepOnClosed
<1>2. ASSUME NEW p \in Officer, req'[p].op = "patch", req'[p].on = c
      PROVE  req'[p].target \in {"keep", "CLOSED"}
  <2>1. CASE req'[p] = req[p]
    BY <1>2, <2>1 DEF Sealed
  <2>2. CASE req'[p] = NoReq
    BY <1>2, <2>2, NoReqTyped
  <2>3. ASSUME NEW d \in Case, NEW t \in PatchTarget, UpdateRead(o, d, t), p = o
        PROVE  req'[p].target \in {"keep", "CLOSED"}
    <3>1. req'[p] = [op |-> "patch", on |-> d, target |-> t, reason |-> NoReason]
      BY <2>3 DEF UpdateRead, Reads, CaseTypeOK
    <3>2. d = c /\ req'[p].target = t
      BY <1>2, <3>1
    <3>3. t = "keep"
      BY <1>1, <2>3, <3>2 DEF UpdateRead, Valid
    <3> QED BY <3>2, <3>3
  <2>4. \/ req'[p] = req[p] \/ req'[p] = NoReq
        \/ p = o /\ \E d \in Case : \E t \in PatchTarget : UpdateRead(o, d, t)
    <3>1. CASE Done(o)
      BY <3>1 DEF Done, CaseTypeOK
    <3>2. ASSUME NEW d \in Case, CreateCase(o, d)
          PROVE  req'[p] = req[p]
      BY <3>2 DEF CreateCase
    <3>3. ASSUME NEW d \in Case, NoteRead(o, d) \/ \E r \in Reason : CloseRead(o, d, r)
          PROVE  req'[p] = req[p]
      <4>1. p # o => req'[p] = req[p]
        BY <3>3 DEF NoteRead, CloseRead, Reads, CaseTypeOK
      <4>2. req'[o].op # "patch"
        BY <3>3 DEF NoteRead, CloseRead, Reads, CaseTypeOK
      <4> QED BY <1>2, <4>1, <4>2
    <3>4. ASSUME NEW d \in Case, NEW t \in PatchTarget, UpdateRead(o, d, t), p # o
          PROVE  req'[p] = req[p]
      BY <3>4 DEF UpdateRead, Reads, CaseTypeOK
    <3> QED BY <3>1, <3>2, <3>3, <3>4 DEF OfficerStep, AddCaseNote, UpdateCase, CloseCase, RollBack
  <2> QED BY <2>1, <2>2, <2>3, <2>4
<1> QED BY <1>1, <1>2 DEF Sealed

(* Once closed with no older PATCH of its status in flight, a case stays   *)
(* closed: only a PATCH that read it before can reopen it.                 *)
THEOREM CaseClosedForGood == CaseSpec => ClosedForGood
<1> DEFINE A == \A c \in Case : Sealed(c) => Sealed(c)'
<1>1. CaseTypeOK /\ [CaseNext]_caseVars => [A]_caseVars
  <2> SUFFICES ASSUME CaseTypeOK, CaseNext PROVE A
    OBVIOUS
  <2>1. PICK o \in Officer : OfficerStep(o)
    BY NextIsStep
  <2> QED BY <2>1, SealedStays
<1> QED BY <1>1, CaseTypeCorrect, PTL DEF CaseSpec, ClosedForGood

-----------------------------------------------------------------------------
(* The feedback loop.                                                      *)

(* The shape of the state of the feedback loop.                            *)
IsTask(e) ==
  \/ e = NoTask
  \/ \E step \in {"due", "fit"}, s \in Server, n \in Nat : e = Task(step, s, n)
FeedbackTyping ==
  /\ samples \in Nat /\ recording \in [Recorder -> Server \cup {NoServer}]
  /\ model \in [Server -> Nat \cup {NoModel}]
  /\ DOMAIN training = Trainer /\ training = [t \in Trainer |-> training[t]]
  /\ \A t \in Trainer : IsTask(training[t])

(* A training that is on has a server and what it has read.                *)
LEMMA TaskFields ==
  ASSUME NEW e, IsTask(e), e.at # "none" PROVE e.on \in Server /\ e.read \in Nat
<1>1. e # NoTask
  BY DEF NoTask
<1>2. PICK step \in {"due", "fit"}, s \in Server, n \in Nat : e = Task(step, s, n)
  BY <1>1 DEF IsTask
<1> QED
  BY <1>2 DEF Task

(* The last multiple up to a number.                                       *)
LEMMA LastMultiple ==
  ASSUME NEW n \in Nat, NEW m \in Nat \ {0}
  PROVE  /\ (n \div m) * m \in Nat /\ (n \div m) * m <= n
         /\ ((n \div m) * m) % m = 0
<1> DEFINE q == n \div m
           k == q * m
           r == k % m
           p == k \div m
<1>1. q \in Nat /\ n = (m * q) + (n % m) /\ n % m \in 0..m - 1
  OBVIOUS
<1>2. k \in Nat /\ k <= n
  BY <1>1
<1>3. p \in Int /\ r \in 0..m - 1 /\ k = m * p + r
  BY <1>2
<1>4. ASSUME q - p >= 1 PROVE FALSE
  <2>1. m * (q - p) >= m /\ m * (q - p) = r
    BY <1>1, <1>3, <1>4
  <2> QED
    BY <2>1, <1>3
<1>5. ASSUME p - q >= 1 PROVE FALSE
  <2>1. m * (p - q) >= m /\ m * (p - q) = 0 - r
    BY <1>1, <1>3, <1>5
  <2> QED
    BY <2>1, <1>3
<1>6. p = q
  BY <1>1, <1>3, <1>4, <1>5
<1>7. r = 0
  BY <1>1, <1>3, <1>6
<1> QED
  BY <1>2, <1>7

(* The feedback loop keeps the shape of its state.                         *)
LEMMA FeedbackTyped == FeedbackSpec => []FeedbackTyping
<1> USE FeedbackAssumption
<1>1. FeedbackInit => FeedbackTyping
  BY DEF FeedbackInit, FeedbackTyping, IsTask, History
<1>2. FeedbackTyping /\ [FeedbackNext]_feedbackVars => FeedbackTyping'
  <2> SUFFICES ASSUME FeedbackTyping, [FeedbackNext]_feedbackVars PROVE FeedbackTyping'
    OBVIOUS
  <2>t. ASSUME NEW t \in Trainer, NEW e, IsTask(e), training' = [training EXCEPT ![t] = e]
        PROVE  /\ DOMAIN training' = Trainer /\ training' = [u \in Trainer |-> training'[u]]
               /\ \A u \in Trainer : IsTask(training'[u])
    BY <2>t DEF FeedbackTyping
  <2>n. IsTask(NoTask)
    BY DEF IsTask
  <2>d. ASSUME NEW s \in Server PROVE IsTask(Task("due", s, History)) /\ IsTask(Task("fit", s, History))
    BY DEF IsTask, History
  <2>f. ASSUME NEW t \in Trainer, training[t].at # "none"
        PROVE  training[t].on \in Server /\ training[t].read \in Nat
    <3>1. IsTask(training[t])
      BY DEF FeedbackTyping
    <3> QED
      BY <2>f, <3>1, TaskFields
  <2>1. ASSUME NEW s \in Server, NEW r \in Recorder, Record(r, s) PROVE FeedbackTyping'
    <3>1. recording' \in [Recorder -> Server \cup {NoServer}]
      BY <2>1 DEF Record, FeedbackTyping
    <3>2. UNCHANGED training \/ \E t \in Trainer : training' = [training EXCEPT ![t] = Task("due", s, History)]
      BY <2>1 DEF Record
    <3>3. /\ DOMAIN training' = Trainer /\ training' = [u \in Trainer |-> training'[u]]
          /\ \A u \in Trainer : IsTask(training'[u])
      BY <3>2, <2>t, <2>d DEF FeedbackTyping
    <3> QED
      BY <2>1, <3>1, <3>3 DEF Record, FeedbackTyping
  <2>2. ASSUME NEW s \in Server, RetrainNow(s) PROVE FeedbackTyping'
    <3>1. PICK t \in Trainer : training' = [training EXCEPT ![t] = Task("due", s, History)]
      BY <2>2 DEF RetrainNow
    <3> QED
      BY <2>2, <3>1, <2>t, <2>d DEF RetrainNow, FeedbackTyping
  <2>3. ASSUME NEW s \in Server, ScoreUntrained(s) PROVE FeedbackTyping'
    <3>1. PICK t \in Trainer : training' = [training EXCEPT ![t] = Task("fit", s, History)]
      BY <2>3 DEF ScoreUntrained
    <3> QED
      BY <2>3, <3>1, <2>t, <2>d DEF ScoreUntrained, FeedbackTyping
  <2>4. ASSUME NEW s \in Server, RestartServer(s) PROVE FeedbackTyping'
    <3>1. /\ model' \in [Server -> Nat \cup {NoModel}]
          /\ recording' \in [Recorder -> Server \cup {NoServer}]
      BY <2>4 DEF RestartServer, FeedbackTyping, History
    <3>2. /\ DOMAIN training' = Trainer /\ training' = [u \in Trainer |-> training'[u]]
          /\ \A u \in Trainer : IsTask(training'[u])
      BY <2>4, <2>n DEF RestartServer, FeedbackTyping
    <3> QED
      BY <2>4, <3>1, <3>2 DEF RestartServer, FeedbackTyping
  <2>5. ASSUME NEW r \in Recorder, Commit(r) PROVE FeedbackTyping'
    BY <2>5 DEF Commit, FeedbackTyping
  <2>6. ASSUME NEW t \in Trainer, TrainRead(t) PROVE FeedbackTyping'
    <3>1. IsTask(Task("fit", training[t].on, samples))
      BY <2>6, <2>f DEF TrainRead, FeedbackTyping, IsTask
    <3>2. \E e : IsTask(e) /\ training' = [training EXCEPT ![t] = e]
      BY <2>6, <3>1, <2>n DEF TrainRead
    <3> QED
      BY <2>6, <3>2, <2>t DEF TrainRead, FeedbackTyping
  <2>7. ASSUME NEW t \in Trainer, TrainInstall(t) PROVE FeedbackTyping'
    BY <2>7, <2>f, <2>t, <2>n DEF TrainInstall, FeedbackTyping
  <2>8. ASSUME NEW t \in Trainer, TrainFails(t) PROVE FeedbackTyping'
    BY <2>8, <2>t, <2>n DEF TrainFails, FeedbackTyping
  <2>9. CASE UNCHANGED feedbackVars
    BY <2>9 DEF feedbackVars, FeedbackTyping
  <2> QED
    BY <2>1, <2>2, <2>3, <2>4, <2>5, <2>6, <2>7, <2>8, <2>9 DEF FeedbackNext
<1> QED
  BY <1>1, <1>2, PTL DEF FeedbackSpec

(* The samples, with the one that is being recorded.                       *)
Counted == samples + (IF Open = {} THEN 0 ELSE 1)

(* Trainings that will learn enough of the first d samples, the last of    *)
(* them apart: they have not read, or have read that many.                 *)
Learning(d) ==
  {t \in Trainer : training[t].at = "due" \/ (training[t].at = "fit" /\ training[t].read >= d - 1)}
Learned(d) == {s \in Server : model[s] >= d - 1}
Due == {d \in 1..Counted : d % Every = 0}

(* As long as there is no excuse: one sample is recorded at a time, and up *)
(* to each multiple some server has learned or some training will.         *)
Taught ==
  excuses = {} =>
    /\ \A q, r \in Open : q = r
    /\ \A d \in Due : Learning(d) # {} \/ Learned(d) # {}

(* Samples and trainings step by step.                                     *)
LEMMA TaughtStep ==
  ASSUME FeedbackTyping, FeedbackTyping', Taught, [FeedbackNext]_feedbackVars PROVE Taught'
<1> USE FeedbackAssumption
<1> SUFFICES ASSUME excuses' = {}
             PROVE  /\ \A q, r \in Open' : q = r
                    /\ \A d \in Due' : Learning(d)' # {} \/ Learned(d)' # {}
  BY DEF Taught
<1> DEFINE Kept == /\ \A q, r \in Open' : q = r
                   /\ \A d \in Due' : Learning(d)' # {} \/ Learned(d)' # {}
<1>i. ASSUME excuses = {}
      PROVE  /\ \A q, r \in Open : q = r
             /\ \A d \in Due : Learning(d) # {} \/ Learned(d) # {}
  BY <1>i DEF Taught
<1>n. samples \in Nat /\ Counted \in Nat /\ Counted \in {samples, samples + 1}
  BY DEF FeedbackTyping, Counted
<1>d. \A d \in Due : d \in Nat /\ d >= 2 /\ d - 1 <= samples
  <2>1. ASSUME NEW d \in Due PROVE d # 1
    <3>1. 1 % Every = 1
      OBVIOUS
    <3> QED
      BY <2>1, <3>1 DEF Due
  <2> QED
    BY <2>1, <1>n DEF Due
(* A training that has nothing to do begins: none is lost.                 *)
<1>b. ASSUME excuses = {}, UNCHANGED <<samples, recording, model>>, NEW t \in Trainer, NEW e,
             training[t] = NoTask, training' = [training EXCEPT ![t] = e]
      PROVE  Kept
  <2>1. Open' = Open /\ Due' = Due
    BY <1>b DEF Open, Due, Counted
  <2>2. \A d \in Due : Learning(d) \subseteq Learning(d)' /\ Learned(d)' = Learned(d)
    BY <1>b DEF Learning, Learned, NoTask, FeedbackTyping
  <2> QED
    BY <1>b, <1>i, <2>1, <2>2
<1>1. ASSUME NEW s \in Server, NEW r \in Recorder, Record(r, s) PROVE Kept
  <2>1. /\ excuses = {} /\ Open = {} /\ recording' = [recording EXCEPT ![r] = s]
        /\ UNCHANGED <<samples, model>>
    BY <1>1 DEF Record
  <2>2. Open' = {r}
    BY <2>1 DEF Open, FeedbackTyping
  <2>3. Counted = samples /\ Counted' = samples + 1
    BY <2>1, <2>2, <1>n DEF Counted
  <2>4. /\ \A t \in Trainer : training'[t] = training[t] \/ training[t] = NoTask
        /\ (samples + 1) % Every = 0 => \E t \in Trainer : training'[t].at = "due"
    <3>1. CASE (samples + 1) % Every = 0
      <4>1. PICK t \in Trainer : /\ training[t] = NoTask
                                 /\ training' = [training EXCEPT ![t] = Task("due", s, History)]
        BY <1>1, <3>1, <1>n DEF Record, Count
      <4> QED
        BY <4>1 DEF FeedbackTyping, Task
    <3>2. CASE (samples + 1) % Every # 0
      BY <1>1, <3>2 DEF Record, Count
    <3> QED
      BY <3>1, <3>2
  <2>5. ASSUME NEW d \in Due' PROVE Learning(d)' # {} \/ Learned(d)' # {}
    <3>1. CASE d = samples + 1
      BY <3>1, <2>4, <2>5, <2>3 DEF Due, Learning
    <3>2. CASE d # samples + 1
      <4>1. d \in Due
        BY <2>3, <2>5, <3>2, <1>n DEF Due
      <4>2. Learning(d) \subseteq Learning(d)' /\ Learned(d)' = Learned(d)
        BY <2>1, <2>4 DEF Learning, Learned, NoTask
      <4> QED
        BY <4>1, <4>2, <2>1, <1>i
    <3> QED
      BY <3>1, <3>2
  <2> QED
    BY <2>2, <2>5
<1>2. ASSUME NEW s \in Server, RetrainNow(s) PROVE Kept
  BY <1>2, <1>b DEF RetrainNow
<1>3. ASSUME NEW s \in Server, ScoreUntrained(s) PROVE Kept
  BY <1>3, <1>b DEF ScoreUntrained
<1>4. ASSUME NEW s \in Server, RestartServer(s) PROVE Kept
  BY <1>4 DEF RestartServer
<1>5. ASSUME NEW r \in Recorder, Commit(r) PROVE Kept
  <2>1. /\ excuses = {} /\ r \in Open /\ recording' = [recording EXCEPT ![r] = NoServer]
        /\ samples' = samples + 1 /\ UNCHANGED <<training, model>>
    BY <1>5 DEF Commit, Open
  <2>2. Open' = {}
    BY <2>1, <1>i DEF Open, FeedbackTyping
  <2>3. Counted' = Counted
    BY <2>1, <2>2, <1>n DEF Counted
  <2>4. Due' = Due /\ \A d \in Due : Learning(d)' = Learning(d) /\ Learned(d)' = Learned(d)
    BY <2>1, <2>3 DEF Due, Learning, Learned
  <2> QED
    BY <2>1, <2>2, <2>4, <1>i
<1>k. ASSUME excuses = {}, UNCHANGED <<samples, recording>>,
             \A d \in Due : /\ Learned(d) \subseteq Learned(d)'
                            /\ Learning(d) # {} => Learning(d)' # {} \/ Learned(d)' # {}
      PROVE  Kept
  <2>1. Open' = Open /\ Due' = Due
    BY <1>k DEF Open, Due, Counted
  <2> QED
    BY <1>k, <1>i, <2>1
<1>6. ASSUME NEW t \in Trainer, TrainRead(t) PROVE Kept
  <2>1. excuses = {} /\ UNCHANGED <<samples, recording, model>> /\ training[t].at = "due"
    BY <1>6 DEF TrainRead
  <2>2. ASSUME NEW d \in Due, Learning(d) # {} PROVE Learning(d)' # {}
    <3>1. samples # 0 /\ samples >= d - 1 /\ d \in Nat
      BY <1>d, <1>n
    <3>2. training' = [training EXCEPT ![t] = Task("fit", training[t].on, samples)]
      BY <1>6, <3>1 DEF TrainRead
    <3>3. t \in Learning(d)'
      BY <3>1, <3>2 DEF Learning, Task, FeedbackTyping
    <3> QED
      BY <3>3
  <2> QED
    BY <2>1, <2>2, <1>k DEF Learned
<1>7. ASSUME NEW t \in Trainer, TrainInstall(t) PROVE Kept
  <2>1. /\ excuses = {} /\ UNCHANGED <<samples, recording>> /\ training[t].at = "fit"
        /\ ~(training[t].read < model[training[t].on])
        /\ model' = [model EXCEPT ![training[t].on] = training[t].read]
        /\ training' = [training EXCEPT ![t] = NoTask]
    BY <1>7 DEF TrainInstall
  <2>2. training[t].on \in Server /\ training[t].read \in Nat
    <3>1. IsTask(training[t])
      BY DEF FeedbackTyping
    <3> QED
      BY <2>1, <3>1, TaskFields
  <2>3. /\ model'[training[t].on] = training[t].read
        /\ \A s \in Server : model'[s] >= model[s] /\ model[s] \in Int /\ model'[s] \in Int
    BY <2>1, <2>2 DEF FeedbackTyping, NoModel
  <2>4. \A d \in Due : Learned(d) \subseteq Learned(d)'
    BY <2>3, <1>d DEF Learned
  <2>5. ASSUME NEW d \in Due, NEW u \in Learning(d) PROVE Learning(d)' # {} \/ Learned(d)' # {}
    <3>1. CASE u = t
      BY <2>1, <2>2, <2>3, <2>5, <3>1 DEF Learning, Learned
    <3>2. CASE u # t
      <4>1. training'[u] = training[u]
        BY <2>1, <3>2 DEF FeedbackTyping, Learning
      <4> QED
        BY <4>1, <2>5 DEF Learning
    <3> QED
      BY <3>1, <3>2
  <2> QED
    BY <2>1, <2>4, <2>5, <1>k
<1>8. ASSUME NEW t \in Trainer, TrainFails(t) PROVE Kept
  BY <1>8 DEF TrainFails
<1>9. CASE UNCHANGED feedbackVars
  BY <1>9, <1>k DEF feedbackVars, Learned, Learning
<1> QED
  BY <1>1, <1>2, <1>3, <1>4, <1>5, <1>6, <1>7, <1>8, <1>9 DEF FeedbackNext

(* When nothing is under way, some server has learned from every sample up *)
(* to the last multiple, but for one.                                      *)
THEOREM SamplesLearned == FeedbackSpec => []FeedbackLearned
<1> USE FeedbackAssumption
<1>1. FeedbackInit => Taught
  BY DEF FeedbackInit, Taught, Open, Due, Counted
<1>2. FeedbackTyping /\ FeedbackTyping' /\ Taught /\ [FeedbackNext]_feedbackVars => Taught'
  BY TaughtStep
<1>3. FeedbackTyping /\ Taught => FeedbackLearned
  <2> SUFFICES ASSUME FeedbackTyping, Taught, Open = {}, excuses = {},
                      \A t \in Trainer : training[t] = NoTask,
                      (samples \div Every) * Every > 0
               PROVE  \E s \in Server : model[s] >= (samples \div Every) * Every - 1
    BY DEF FeedbackLearned
  <2> DEFINE due == (samples \div Every) * Every
  <2>1. due \in 1..samples /\ due % Every = 0
    BY LastMultiple DEF FeedbackTyping
  <2>2. due \in Due
    BY <2>1 DEF Due, Counted, FeedbackTyping
  <2>3. Learning(due) = {}
    BY DEF Learning, NoTask
  <2>4. Learned(due) # {}
    BY <2>2, <2>3 DEF Taught
  <2> QED
    BY <2>4 DEF Learned
<1> QED
  BY <1>1, <1>2, <1>3, FeedbackTyped, PTL DEF FeedbackSpec

-----------------------------------------------------------------------------
(* Onboarding.                                                             *)

BoardSteps == {"insert", "company", "account", "owners", "undo"} \cup Ended

(* The shape of a request and of the state of onboarding.                  *)
IsForm(e) ==
  \/ e = NoForm
  \/ \E step \in BoardSteps, n \in Number, t \in Title, k \in Company,
        o \in SUBSET Owner, left \in SUBSET Owner : \E person :
       e = Request(step, n, t, k, o, left, person)
BoardTyping ==
  /\ DOMAIN form = Form /\ form = [f \in Form |-> form[f]]
  /\ \A f \in Form : IsForm(form[f])
  /\ accounts \subseteq [id : Form, number : Number, name : Title] /\ inUse \subseteq Form
  /\ title \in [Company -> Title \cup {Nobody}]
  /\ belongs \subseteq Form \X Company /\ owns \subseteq Owner \X Company
  /\ \A a, b \in accounts : a.number = b.number => a = b

(* A request under way has the fields of one.                              *)
LEMMA FormFields ==
  ASSUME NEW e, IsForm(e), e.step # "no"
  PROVE  /\ e.step \in BoardSteps /\ e.number \in Number /\ e.name \in Title
         /\ e.company \in Company /\ e.owners \in SUBSET Owner /\ e.left \in SUBSET Owner
<1>1. e # NoForm
  BY DEF NoForm
<1>2. PICK step \in BoardSteps, n \in Number, t \in Title, k \in Company,
           o \in SUBSET Owner, left \in SUBSET Owner : \E person :
        e = Request(step, n, t, k, o, left, person)
  BY <1>1 DEF IsForm
<1> QED
  BY <1>2 DEF Request

(* What a request becomes when it goes on.                                 *)
LEMMA FormGoesOn ==
  ASSUME NEW e, IsForm(e), e.step # "no", NEW step \in BoardSteps, NEW left \in SUBSET Owner
  PROVE  /\ IsForm(Now(e, step, left)) /\ Now(e, step, left).step = step
         /\ Now(e, step, left).left = left /\ Now(e, step, left).number = e.number
         /\ Now(e, step, left).name = e.name /\ Now(e, step, left).company = e.company
         /\ Now(e, step, left).owners = e.owners /\ Now(e, step, left).person = e.person
<1>1. /\ e.number \in Number /\ e.name \in Title /\ e.company \in Company
      /\ e.owners \in SUBSET Owner
  BY FormFields
<1> QED
  BY <1>1 DEF IsForm, Now, Request

(* What a step makes of a request.                                         *)
LEMMA FormMoves ==
  ASSUME BoardTyping, NEW f \in Form, form[f].step # "no", NEW step \in BoardSteps,
         NEW left \in SUBSET Owner, form'[f] = Now(form[f], step, left)
  PROVE  /\ IsForm(form'[f]) /\ form'[f].step = step /\ form'[f].left = left
         /\ form'[f].number = form[f].number /\ form'[f].name = form[f].name
         /\ form'[f].company = form[f].company /\ form'[f].owners = form[f].owners
         /\ form'[f].person = form[f].person
<1>1. IsForm(form[f])
  BY DEF BoardTyping
<1> QED
  BY <1>1, FormGoesOn

(* Onboarding keeps the shape of its state.                                *)
LEMMA BoardTyped == BoardSpec => []BoardTyping
<1> USE OnboardingAssumption
<1>1. BoardInit => BoardTyping
  BY DEF BoardInit, BoardTyping, IsForm
<1>2. BoardTyping /\ [BoardNext]_boardingVars => BoardTyping'
  <2> SUFFICES ASSUME BoardTyping, [BoardNext]_boardingVars PROVE BoardTyping'
    OBVIOUS
  <2>f. ASSUME NEW f \in Form, form[f].step # "no"
        PROVE  /\ form[f].number \in Number /\ form[f].name \in Title
               /\ form[f].company \in Company /\ form[f].left \in SUBSET Owner
               /\ form[f].step \in BoardSteps
    BY <2>f, FormFields DEF BoardTyping
  <2>m. ASSUME NEW f \in Form, form[f].step # "no", NEW step \in BoardSteps, Moves(f, step)
        PROVE  DOMAIN form' = Form /\ form' = [g \in Form |-> form'[g]] /\ \A g \in Form : IsForm(form'[g])
    <3>1. /\ form' = [form EXCEPT ![f] = Now(form[f], step, form[f].left)]
          /\ form'[f] = Now(form[f], step, form[f].left)
      BY <2>m DEF Moves, BoardTyping
    <3>2. IsForm(form'[f])
      BY <2>m, <2>f, <3>1, FormMoves
    <3> QED
      BY <3>1, <3>2 DEF BoardTyping
  <2> USE DEF graphVars, BoardSteps, Ended
  <2>1. ASSUME NEW f \in Form, Screen(f) PROVE BoardTyping'
    <3>1. PICK n \in Number, t \in Title, k \in Company, o \in SUBSET Owner, person \in BOOLEAN :
            form' = [form EXCEPT ![f] = Request("insert", n, t, k, o, o, person)]
      BY <2>1 DEF Screen
    <3>2. IsForm(Request("insert", n, t, k, o, o, person))
      BY DEF IsForm
    <3> QED
      BY <2>1, <3>1, <3>2 DEF Screen, BoardTyping
  <2>2. ASSUME NEW f \in Form, InsertAccount(f) PROVE BoardTyping'
    <3>1. form[f].step = "insert"
      BY <2>2 DEF InsertAccount, InStep
    <3> DEFINE a == [id |-> f, number |-> form[f].number, name |-> form[f].name]
    <3>2. a \in [id : Form, number : Number, name : Title]
      BY <3>1, <2>f
    <3>3. CASE Taken(f)
      BY <2>2, <3>1, <3>3, <2>m DEF InsertAccount, BoardTyping
    <3>4. CASE ~Taken(f)
      <4>1. accounts' = accounts \cup {a} /\ Moves(f, IF form[f].person THEN "created" ELSE "company")
        BY <2>2, <3>4 DEF InsertAccount, Stored
      <4>2. DOMAIN form' = Form /\ form' = [g \in Form |-> form'[g]] /\ \A g \in Form : IsForm(form'[g])
        BY <4>1, <3>1, <2>m
      <4>3. \A c, b \in accounts' : c.number = b.number => c = b
        BY <4>1, <3>4 DEF BoardTyping, Taken
      <4> QED
        BY <2>2, <3>2, <4>1, <4>2, <4>3 DEF InsertAccount, BoardTyping
    <3> QED
      BY <3>3, <3>4
  <2>13. ASSUME NEW f \in Form, InsertFails(f) PROVE BoardTyping'
    <3>1. form[f].step = "insert" /\ Moves(f, "failed")
      BY <2>13 DEF InsertFails, InStep
    <3> DEFINE a == [id |-> f, number |-> form[f].number, name |-> form[f].name]
    <3>2. a \in [id : Form, number : Number, name : Title]
      BY <3>1, <2>f
    <3>3. DOMAIN form' = Form /\ form' = [g \in Form |-> form'[g]] /\ \A g \in Form : IsForm(form'[g])
      BY <3>1, <2>m
    <3>4. UNCHANGED accounts \/ (~Taken(f) /\ accounts' = accounts \cup {a})
      BY <2>13 DEF InsertFails, Stored
    <3>5. \A c, b \in accounts' : c.number = b.number => c = b
      BY <3>4 DEF BoardTyping, Taken
    <3> QED
      BY <2>13, <3>2, <3>3, <3>4, <3>5 DEF InsertFails, BoardTyping
  <2>3. ASSUME NEW f \in Form, MergeCompany(f) PROVE BoardTyping'
    BY <2>3, <2>m, <2>f DEF MergeCompany, InStep, BoardTyping
  <2>4. ASSUME NEW f \in Form, MergeAccount(f) PROVE BoardTyping'
    BY <2>4, <2>m, <2>f DEF MergeAccount, InStep, BoardTyping
  <2>5. ASSUME NEW f \in Form, MergeOwner(f) PROVE BoardTyping'
    <3>1. form[f].step = "owners"
      BY <2>5 DEF MergeOwner, InStep
    <3>2. PICK o \in form[f].left :
            /\ form' = [form EXCEPT ![f] = Now(form[f], "owners", form[f].left \ {o})]
            /\ owns' = IF Found(form[f].company) THEN owns \cup {<<o, form[f].company>>} ELSE owns
      BY <2>5 DEF MergeOwner
    <3>3. form[f].left \in SUBSET Owner /\ form[f].left \ {o} \in SUBSET Owner /\ o \in Owner
          /\ form[f].company \in Company
      BY <3>1, <2>f
    <3>a. form'[f] = Now(form[f], "owners", form[f].left \ {o})
      BY <3>2 DEF BoardTyping
    <3>b. IsForm(form'[f])
      BY <3>1, <3>3, <3>a, FormMoves
    <3>4. DOMAIN form' = Form /\ form' = [g \in Form |-> form'[g]] /\ \A g \in Form : IsForm(form'[g])
      BY <3>2, <3>b DEF BoardTyping
    <3> QED
      BY <2>5, <3>2, <3>3, <3>4 DEF MergeOwner, BoardTyping
  <2>6. ASSUME NEW f \in Form, Answer(f) PROVE BoardTyping'
    BY <2>6, <2>m DEF Answer, InStep, BoardTyping
  <2>7. ASSUME NEW f \in Form, GraphFails(f) PROVE BoardTyping'
    BY <2>7, <2>m DEF GraphFails, InStep, BoardTyping
  <2>8. ASSUME NEW f \in Form, Compensate(f) PROVE BoardTyping'
    <3>1. accounts' \subseteq accounts /\ owns' = owns
      BY <2>8 DEF Compensate, Unlinked
    <3> QED
      BY <2>8, <3>1, <2>m DEF Compensate, InStep, BoardTyping
  <2>9. ASSUME NEW f \in Form, Kill(f) PROVE BoardTyping'
    BY <2>9, <2>m DEF Kill, BoardTyping
  <2>10. ASSUME NEW a \in accounts, UseAccount(a) PROVE BoardTyping'
    BY <2>10 DEF UseAccount, BoardTyping
  <2>11. CASE UNCHANGED boardingVars
    BY <2>11 DEF boardingVars, BoardTyping
  <2> QED
    BY <2>1, <2>2, <2>3, <2>4, <2>5, <2>6, <2>7, <2>8, <2>9, <2>10, <2>11, <2>13 DEF BoardNext
<1> QED
  BY <1>1, <1>2, PTL DEF BoardSpec

(* A request has no account before it inserts one; one that has written    *)
(* the company finds it under the name it gave,                            *)
(* until it is renamed; one that has linked the account has it linked, and *)
(* with it the owners that are not left; one that was answered has its     *)
(* account, or none.                                                       *)
HasAccount(f) == \E a \in accounts : a.id = f /\ a.number = form[f].number
Whole(f) ==
  /\ form[f].step \in {"company", "account", "owners", "created"} => HasAccount(f)
  /\ form[f].step \in {"company", "account", "owners"} => ~form[f].person
  /\ form[f].step \in {"no", "insert"} => \A a \in accounts : a.id # f
  /\ form[f].step \in {"insert", "company", "account"} => form[f].left = form[f].owners
  /\ form[f].step = "created" /\ ~form[f].person => form[f].left = {}
  /\ form[f].step \in {"account", "owners", "created"} /\ ~form[f].person =>
       /\ title[form[f].company] # Nobody
       /\ form[f].company \notin renamed => title[form[f].company] = form[f].name
  /\ form[f].step \in {"owners", "created"} /\ ~form[f].person =>
       /\ <<f, form[f].company>> \in belongs
       /\ \A o \in form[f].owners \ form[f].left : <<o, form[f].company>> \in owns
  /\ form[f].step = "failed" =>
       (\A a \in accounts : a.id # f) \/ f \in inUse \/ Excused(f)

(* What another request does leaves it whole.                              *)
LEMMA WholeStays ==
  ASSUME BoardTyping, NEW f \in Form, Whole(f), form'[f] = form[f],
         \A a : a.id = f => (a \in accounts <=> a \in accounts'),
         \A k \in Company : /\ title[k] # Nobody => title'[k] # Nobody
                            /\ k \notin renamed' /\ title[k] # Nobody =>
                                 k \notin renamed /\ title'[k] = title[k],
         belongs \subseteq belongs', owns \subseteq owns', inUse \subseteq inUse',
         mischief \subseteq mischief'
  PROVE  Whole(f)'
<1>1. HasAccount(f)' = HasAccount(f)
  BY DEF HasAccount
<1>2. form[f].step \in {"account", "owners", "created"} => form[f].company \in Company
  BY FormFields DEF BoardTyping
<1> QED
  BY <1>1, <1>2 DEF Whole, Excused

(* The accounts step by step.                                              *)
LEMMA WholeStep ==
  ASSUME BoardTyping, BoardTyping', \A f \in Form : Whole(f), [BoardNext]_boardingVars
  PROVE  \A f \in Form : Whole(f)'
<1> USE OnboardingAssumption
<1> SUFFICES ASSUME NEW g \in Form PROVE Whole(g)'
  OBVIOUS
<1>u. ASSUME form'[g] = form[g], \A a : a.id = g => (a \in accounts <=> a \in accounts'),
             UNCHANGED <<title, renamed>>,
             belongs \subseteq belongs', owns \subseteq owns', inUse \subseteq inUse',
             mischief \subseteq mischief'
      PROVE  Whole(g)'
  BY <1>u, WholeStays
<1>f. ASSUME NEW f \in Form, form[f].step # "no"
      PROVE  /\ form[f].number \in Number /\ form[f].name \in Title
             /\ form[f].company \in Company /\ form[f].left \in SUBSET Owner
             /\ form[f].step \in BoardSteps
  BY <1>f, FormFields DEF BoardTyping
<1>m. ASSUME NEW f \in Form, form[f].step # "no", NEW step \in BoardSteps, Moves(f, step)
      PROVE  /\ form'[f].step = step /\ form'[f].left = form[f].left
             /\ form'[f].number = form[f].number /\ form'[f].name = form[f].name
             /\ form'[f].company = form[f].company /\ form'[f].owners = form[f].owners
             /\ form'[f].person = form[f].person
             /\ \A h \in Form : h # f => form'[h] = form[h]
  <2>1. /\ form'[f] = Now(form[f], step, form[f].left)
        /\ \A h \in Form : h # f => form'[h] = form[h]
    BY <1>m DEF Moves, BoardTyping
  <2>2. form[f].left \in SUBSET Owner
    BY <1>m, <1>f
  <2> QED
    BY <1>m, <2>1, <2>2, FormMoves
<1>x. ASSUME NEW what, NEW f \in Form, Upset(what, f)
      PROVE  mischief \subseteq mischief' /\ <<what, f>> \in mischief'
  BY <1>x DEF Upset
<1> USE DEF graphVars, BoardSteps, Ended
<1>1. ASSUME NEW f \in Form, Screen(f) PROVE Whole(g)'
  <2>1. CASE f = g
    <3>1. PICK n \in Number, t \in Title, k \in Company, o \in SUBSET Owner, person \in BOOLEAN :
            form' = [form EXCEPT ![f] = Request("insert", n, t, k, o, o, person)]
      BY <1>1 DEF Screen
    <3>2. form'[g] = Request("insert", n, t, k, o, o, person)
      BY <2>1, <3>1 DEF BoardTyping
    <3>3. form'[g].step = "insert" /\ form'[g].left = form'[g].owners
      BY <3>2 DEF Request
    <3>4. \A a \in accounts' : a.id # g
      <4>1. form[g].step = "no"
        BY <1>1, <2>1 DEF Screen, NoForm
      <4> QED
        BY <1>1, <4>1 DEF Screen, Whole
    <3> QED
      BY <3>3, <3>4 DEF Whole
  <2>2. CASE f # g
    <3>1. form'[g] = form[g]
      BY <1>1, <2>2 DEF Screen, BoardTyping
    <3> QED
      BY <1>1, <3>1, <1>u DEF Screen
  <2> QED
    BY <2>1, <2>2
<1>2. ASSUME NEW f \in Form, InsertAccount(f) PROVE Whole(g)'
  <2>1. form[f].step = "insert"
    BY <1>2 DEF InsertAccount, InStep
  <2> DEFINE a == [id |-> f, number |-> form[f].number, name |-> form[f].name]
  <2>2. CASE Taken(f)
    <3>1. Moves(f, "conflict") /\ UNCHANGED accounts
      BY <1>2, <2>2 DEF InsertAccount
    <3>2. CASE f = g
      <4>1. form'[g].step = "conflict"
        BY <3>1, <3>2, <2>1, <1>m
      <4> QED
        BY <4>1 DEF Whole
    <3>3. CASE f # g
      BY <1>2, <3>1, <3>3, <2>1, <1>m, <1>u DEF InsertAccount
    <3> QED
      BY <3>2, <3>3
  <2>3. CASE ~Taken(f)
    <3>1. accounts' = accounts \cup {a} /\ Moves(f, IF form[f].person THEN "created" ELSE "company")
      BY <1>2, <2>3 DEF InsertAccount, Stored
    <3>2. CASE f = g
      <4>1. /\ form'[g].step = IF form[f].person THEN "created" ELSE "company"
            /\ form'[g].left = form[g].left /\ form'[g].owners = form[g].owners
            /\ form'[g].person = form[g].person /\ form'[g].number = form[g].number
        BY <2>1, <3>1, <3>2, <1>m
      <4>2. HasAccount(g)'
        <5>1. a \in accounts' /\ a.id = g /\ a.number = form'[g].number
          BY <3>1, <3>2, <4>1
        <5> HIDE DEF a
        <5> QED
          BY <5>1 DEF HasAccount
      <4>3. form[g].left = form[g].owners
        BY <2>1, <3>2 DEF Whole
      <4>4. CASE form[f].person
        BY <3>2, <4>1, <4>2, <4>4 DEF Whole
      <4>5. CASE ~form[f].person
        BY <3>2, <4>1, <4>2, <4>3, <4>5 DEF Whole
      <4> QED
        BY <4>4, <4>5
    <3>3. CASE f # g
      <4>1. form'[g] = form[g]
        BY <2>1, <3>1, <3>3, <1>m
      <4>2. \A b : b.id = g => (b \in accounts <=> b \in accounts')
        BY <3>1, <3>3
      <4> QED
        BY <1>2, <4>1, <4>2, <1>u DEF InsertAccount
    <3> QED
      BY <3>2, <3>3
  <2> QED
    BY <2>2, <2>3
<1>13. ASSUME NEW f \in Form, InsertFails(f) PROVE Whole(g)'
  <2>1. form[f].step = "insert" /\ Moves(f, "failed")
    BY <1>13 DEF InsertFails, InStep
  <2> DEFINE a == [id |-> f, number |-> form[f].number, name |-> form[f].name]
  <2>2. \/ UNCHANGED <<accounts, mischief>>
        \/ /\ accounts' = accounts \cup {a}
           /\ mischief \subseteq mischief' /\ <<"commit", f>> \in mischief'
    BY <1>13, <1>x DEF InsertFails, Stored
  <2>3. CASE f = g
    <3>1. form'[g].step = "failed"
      BY <2>1, <2>3, <1>m
    <3>2. (\A b \in accounts' : b.id # g) \/ g \in inUse' \/ Excused(g)'
      <4>1. CASE UNCHANGED <<accounts, mischief>>
        BY <4>1, <2>1, <2>3 DEF Whole
      <4>2. CASE <<"commit", f>> \in mischief'
        BY <4>2, <2>3 DEF Excused
      <4> QED
        BY <2>2, <4>1, <4>2
    <3> QED
      BY <3>1, <3>2 DEF Whole
  <2>4. CASE f # g
    <3>1. \A b : b.id = g => (b \in accounts <=> b \in accounts')
      BY <2>2, <2>4
    <3>2. form'[g] = form[g] /\ mischief \subseteq mischief'
      BY <2>1, <2>2, <2>4, <1>m
    <3> QED
      BY <1>13, <3>1, <3>2, <1>u DEF InsertFails
  <2> QED
    BY <2>3, <2>4
<1>3. ASSUME NEW f \in Form, MergeCompany(f) PROVE Whole(g)'
  <2>1. /\ form[f].step = "company" /\ Moves(f, "account") /\ form[f].name \in Title
        /\ form[f].company \in Company /\ title' = [title EXCEPT ![form[f].company] = form[f].name]
        /\ renamed' = IF title[form[f].company] \in {Nobody, form[f].name} THEN renamed
                      ELSE renamed \cup {form[f].company}
        /\ UNCHANGED <<accounts, inUse, belongs, owns, mischief>>
    BY <1>3, <1>f DEF MergeCompany, InStep
  <2>2. CASE f = g
    <3>1. /\ form'[g].step = "account" /\ form'[g].left = form[g].left
          /\ form'[g].number = form[g].number /\ form'[g].name = form[g].name
          /\ form'[g].company = form[g].company /\ form'[g].owners = form[g].owners
          /\ form'[g].person = form[g].person
      BY <2>1, <2>2, <1>m
    <3>2. title'[form[g].company] = form[g].name /\ form[g].name # Nobody
      BY <2>1, <2>2 DEF BoardTyping
    <3>3. HasAccount(g)'
      <4>1. HasAccount(g)
        BY <2>1, <2>2 DEF Whole
      <4> QED
        BY <2>1, <3>1, <4>1 DEF HasAccount
    <3>4. ~form[g].person /\ form[g].left = form[g].owners
      BY <2>1, <2>2 DEF Whole
    <3> QED
      BY <3>1, <3>2, <3>3, <3>4 DEF Whole
  <2>3. CASE f # g
    <3>1. form'[g] = form[g]
      BY <2>1, <2>3, <1>m
    <3>2. \A k \in Company : /\ title[k] # Nobody => title'[k] # Nobody
                             /\ k \notin renamed' /\ title[k] # Nobody =>
                                  k \notin renamed /\ title'[k] = title[k]
      BY <2>1 DEF BoardTyping
    <3> QED
      BY <2>1, <3>1, <3>2, WholeStays
  <2> QED
    BY <2>2, <2>3
<1>4. ASSUME NEW f \in Form, MergeAccount(f) PROVE Whole(g)'
  <2>1. /\ form[f].step = "account" /\ Moves(f, "owners")
        /\ belongs' = IF Found(form[f].company) THEN belongs \cup {<<f, form[f].company>>} ELSE belongs
        /\ UNCHANGED <<accounts, inUse, title, owns, renamed, mischief>>
    BY <1>4 DEF MergeAccount, InStep
  <2>2. CASE f = g
    <3>1. /\ form'[g].step = "owners" /\ form'[g].left = form[g].left
          /\ form'[g].number = form[g].number /\ form'[g].name = form[g].name
          /\ form'[g].company = form[g].company /\ form'[g].owners = form[g].owners
          /\ form'[g].person = form[g].person
      BY <2>1, <2>2, <1>m
    <3>2. /\ ~form[g].person /\ form[g].left = form[g].owners /\ HasAccount(g)
          /\ title[form[g].company] # Nobody
          /\ form[g].company \notin renamed => title[form[g].company] = form[g].name
      BY <2>1, <2>2 DEF Whole
    <3>3. HasAccount(g)' /\ <<g, form[g].company>> \in belongs'
      BY <2>1, <2>2, <3>1, <3>2 DEF HasAccount, Found
    <3> QED
      BY <2>1, <3>1, <3>2, <3>3 DEF Whole
  <2>3. CASE f # g
    BY <2>1, <2>3, <1>m, <1>u
  <2> QED
    BY <2>2, <2>3
<1>5. ASSUME NEW f \in Form, MergeOwner(f) PROVE Whole(g)'
  <2>1. form[f].step = "owners" /\ UNCHANGED <<accounts, inUse, title, belongs, renamed, mischief>>
    BY <1>5 DEF MergeOwner, InStep
  <2>2. PICK o \in form[f].left :
          /\ form' = [form EXCEPT ![f] = Now(form[f], "owners", form[f].left \ {o})]
          /\ owns' = IF Found(form[f].company) THEN owns \cup {<<o, form[f].company>>} ELSE owns
    BY <1>5 DEF MergeOwner
  <2>3. form[f].left \ {o} \in SUBSET Owner
    BY <2>1, <1>f
  <2>4. /\ form'[f].step = "owners" /\ form'[f].left = form[f].left \ {o}
        /\ form'[f].number = form[f].number /\ form'[f].name = form[f].name
        /\ form'[f].company = form[f].company /\ form'[f].owners = form[f].owners
        /\ form'[f].person = form[f].person
        /\ \A h \in Form : h # f => form'[h] = form[h]
    <3>1. /\ form'[f] = Now(form[f], "owners", form[f].left \ {o})
          /\ \A h \in Form : h # f => form'[h] = form[h]
      BY <2>2 DEF BoardTyping
    <3>2. form[f].step # "no" /\ "owners" \in BoardSteps
      BY <2>1
    <3> DEFINE rest == form[f].left \ {o}
    <3>3. rest \in SUBSET Owner /\ form'[f] = Now(form[f], "owners", rest)
      BY <3>1, <2>3
    <3>4. IsForm(form[f])
      BY DEF BoardTyping
    <3> HIDE DEF BoardSteps, Ended, rest
    <3>5. /\ form'[f].step = "owners" /\ form'[f].left = rest
          /\ form'[f].number = form[f].number /\ form'[f].name = form[f].name
          /\ form'[f].company = form[f].company /\ form'[f].owners = form[f].owners
          /\ form'[f].person = form[f].person
      BY <3>2, <3>3, <3>4, FormGoesOn
    <3> QED
      BY <3>1, <3>5 DEF rest
  <2>5. CASE f = g
    <3>1. /\ ~form[g].person /\ HasAccount(g) /\ <<g, form[g].company>> \in belongs
          /\ title[form[g].company] # Nobody
          /\ form[g].company \notin renamed => title[form[g].company] = form[g].name
          /\ \A p \in form[g].owners \ form[g].left : <<p, form[g].company>> \in owns
      BY <2>1, <2>5 DEF Whole
    <3>2. owns' = owns \cup {<<o, form[g].company>>}
      BY <2>2, <2>5, <3>1 DEF Found
    <3>3. HasAccount(g)'
      BY <2>1, <2>4, <2>5, <3>1 DEF HasAccount
    <3>4. \A p \in form'[g].owners \ form'[g].left : <<p, form'[g].company>> \in owns'
      BY <2>4, <2>5, <3>1, <3>2
    <3> QED
      BY <2>1, <2>4, <2>5, <3>1, <3>3, <3>4 DEF Whole
  <2>6. CASE f # g
    <3>1. owns \subseteq owns'
      BY <2>2
    <3> QED
      BY <2>1, <2>4, <2>6, <3>1, <1>u
  <2> QED
    BY <2>5, <2>6
<1>6. ASSUME NEW f \in Form, Answer(f) PROVE Whole(g)'
  <2>1. /\ form[f].step = "owners" /\ form[f].left = {} /\ Moves(f, "created")
        /\ UNCHANGED <<accounts, inUse, title, belongs, owns, renamed, mischief>>
    BY <1>6 DEF Answer, InStep
  <2>2. CASE f = g
    <3>1. /\ form'[g].step = "created" /\ form'[g].left = {}
          /\ form'[g].number = form[g].number /\ form'[g].name = form[g].name
          /\ form'[g].company = form[g].company /\ form'[g].owners = form[g].owners
          /\ form'[g].person = form[g].person
      BY <2>1, <2>2, <1>m
    <3>2. /\ HasAccount(g) /\ <<g, form[g].company>> \in belongs
          /\ title[form[g].company] # Nobody
          /\ form[g].company \notin renamed => title[form[g].company] = form[g].name
          /\ \A p \in form[g].owners : <<p, form[g].company>> \in owns
      BY <2>1, <2>2 DEF Whole
    <3>3. HasAccount(g)'
      BY <2>1, <3>1, <3>2 DEF HasAccount
    <3> QED
      BY <2>1, <3>1, <3>2, <3>3 DEF Whole
  <2>3. CASE f # g
    BY <2>1, <2>3, <1>m, <1>u
  <2> QED
    BY <2>2, <2>3
<1>e. ASSUME NEW f \in Form, form[f].step # "no", NEW step \in {"undo", "killed"}, Moves(f, step),
             UNCHANGED <<accounts, inUse, title, belongs, owns, renamed>>, mischief \subseteq mischief'
      PROVE  Whole(g)'
  <2>1. CASE f = g
    <3>1. form'[g].step = step
      BY <1>e, <2>1, <1>m
    <3> QED
      BY <3>1 DEF Whole
  <2>2. CASE f # g
    BY <1>e, <2>2, <1>m, <1>u
  <2> QED
    BY <2>1, <2>2
<1>7. ASSUME NEW f \in Form, GraphFails(f) PROVE Whole(g)'
  BY <1>7, <1>e, <1>x DEF GraphFails
<1>8. ASSUME NEW f \in Form, Compensate(f) PROVE Whole(g)'
  <2>1. /\ form[f].step = "undo" /\ Moves(f, "failed")
        /\ UNCHANGED <<inUse, title, belongs, owns, renamed>> /\ mischief \subseteq mischief'
        /\ \/ accounts' = {a \in accounts : a.id # f}
           \/ f \in inUse /\ UNCHANGED accounts
           \/ <<"compensation", f>> \in mischief' /\ UNCHANGED accounts
    BY <1>8, <1>x DEF Compensate, InStep, Unlinked
  <2>2. CASE f = g
    <3>1. form'[g].step = "failed"
      BY <2>1, <2>2, <1>m
    <3>2. (\A a \in accounts' : a.id # g) \/ g \in inUse' \/ Excused(g)'
      BY <2>1, <2>2 DEF Excused
    <3> QED
      BY <3>1, <3>2 DEF Whole
  <2>3. CASE f # g
    <3>1. \A a : a.id = g => (a \in accounts <=> a \in accounts')
      BY <2>1, <2>3
    <3> QED
      BY <2>1, <2>3, <3>1, <1>m, <1>u
  <2> QED
    BY <2>2, <2>3
<1>9. ASSUME NEW f \in Form, Kill(f) PROVE Whole(g)'
  BY <1>9, <1>e, <1>x DEF Kill
<1>10. ASSUME NEW a \in accounts, UseAccount(a) PROVE Whole(g)'
  BY <1>10, <1>u DEF UseAccount
<1>11. CASE UNCHANGED boardingVars
  BY <1>11, <1>u DEF boardingVars
<1> QED
  BY <1>1, <1>2, <1>3, <1>4, <1>5, <1>6, <1>7, <1>8, <1>9, <1>10, <1>11, <1>13 DEF BoardNext

AllWhole == \A f \in Form : Whole(f)

(* Onboarding keeps the types of its state.                                *)
THEOREM BoardTypes == BoardSpec => []BoardTypeOK
<1>1. BoardTyping => BoardTypeOK
  BY DEF BoardTyping, BoardTypeOK
<1> QED
  BY <1>1, BoardTyped, PTL

(* An account that was created is whole, and one that failed is gone.      *)
THEOREM AccountsWhole == BoardSpec => []WholeOrGone
<1>1. BoardInit => AllWhole
  BY DEF BoardInit, AllWhole, Whole, NoForm
<1>2. BoardTyping /\ BoardTyping' /\ AllWhole /\ [BoardNext]_boardingVars => AllWhole'
  BY WholeStep DEF AllWhole
<1>3. AllWhole => WholeOrGone
  <2> SUFFICES ASSUME AllWhole, NEW f \in Form
               PROVE  /\ form[f].step = "created" =>
                           /\ HasAccount(f)
                           /\ ~form[f].person =>
                                /\ <<f, form[f].company>> \in belongs
                                /\ form[f].company \notin renamed =>
                                     form[f].owners \subseteq Dossier(form[f].name)
                      /\ form[f].step = "failed" =>
                           \/ \A a \in accounts : a.id # f
                           \/ f \in inUse \/ Excused(f)
    BY DEF WholeOrGone, HasAccount
  <2>1. Whole(f)
    BY DEF AllWhole
  <2>2. ASSUME form[f].step = "created", ~form[f].person, form[f].company \notin renamed,
               NEW o \in form[f].owners
        PROVE  o \in Dossier(form[f].name)
    <3>1. <<o, form[f].company>> \in owns /\ title[form[f].company] = form[f].name
      BY <2>1, <2>2 DEF Whole
    <3> QED
      BY <3>1 DEF Dossier
  <2> QED
    BY <2>1, <2>2 DEF Whole
<1> QED
  BY <1>1, <1>2, <1>3, BoardTyped, PTL DEF BoardSpec

-----------------------------------------------------------------------------
(* The watchlists.                                                         *)

(* Types, and the growth of the indices.                                   *)
DutyTyped(e) ==
  /\ e.step \in 0..6 /\ e.got \subseteq Document /\ e.hits \subseteq Customers
  /\ e.rows \subseteq Customers
  /\ (e.step # 6 => e.todo \subseteq Document) /\ (e.step = 6 => e.todo \subseteq e.rows)
JobsTyped == job = [j \in Job |-> job[j]] /\ \A j \in Job : DutyTyped(job[j])
QueriesTyped ==
  /\ query = [q \in Query |-> query[q]]
  /\ \A q \in Query : query[q].at # "idle" => query[q].name \in Name
IndicesTyped ==
  /\ lists \in [Feed -> SUBSET Name] /\ docs \subseteq Document /\ visible \subseteq docs
  /\ escalated \subseteq Customers
EntriesTyped ==
  /\ hour \in Nat /\ synced \in [Document -> Nat]
  /\ \A e \in results : e.name \in Name /\ e.at \in Nat /\ e.at <= hour /\ hour <= e.at + 1
ScreenTyped == JobsTyped /\ QueriesTyped /\ IndicesTyped /\ EntriesTyped

(* What the feeds and the vendors yield are documents.                     *)
LEMMA FetchedTyped ==
  ASSUME IndicesTyped, NEW live \in SUBSET Feed
  PROVE  Fetched(live) \subseteq Document
  <1>1. Vendor \subseteq Document /\ Fallback \in [Feed -> SUBSET Name]
    BY ScreeningAssumption DEF Document, Index
  <1>2. \A f \in Feed : lists[f] \subseteq Name /\ Fallback[f] \subseteq Name
    BY <1>1 DEF IndicesTyped
  <1>3. (UNION {IF f \in live THEN lists[f] ELSE Fallback[f] : f \in Feed}) \subseteq Name
    BY <1>2
  <1>4. "sanctions" \in Index
    BY DEF Index
  <1> HIDE DEF Index
  <1> QED
    BY <1>1, <1>3, <1>4 DEF Fetched, Document

(* Where in a synchronisation a step is.                                   *)
LEMMA Positions ==
  ASSUME NEW j \in Job
  PROVE  /\ On(j, "fetch") => job[j].step = 1
         /\ On(j, "index") => job[j].step = 2
         /\ On(j, "refresh") => job[j].step = 3
         /\ On(j, "scan") => job[j].step = 4
         /\ On(j, "read") => job[j].step = 5
         /\ On(j, "rescreen") => job[j].step = 6
  <1>1. DOMAIN Steps = 1..6
    BY DEF Steps
  <1>2. /\ Steps[1] = "fetch" /\ Steps[2] = "index" /\ Steps[3] = "refresh"
        /\ Steps[4] = "scan" /\ Steps[5] = "read" /\ Steps[6] = "rescreen"
    BY DEF Steps
  <1> HIDE DEF Steps
  <1>3. \A i \in 1..6 : i = 1 \/ i = 2 \/ i = 3 \/ i = 4 \/ i = 5 \/ i = 6
    OBVIOUS
  <1> QED
    BY <1>1, <1>2, <1>3 DEF On

(* Where the re-screening reads its accounts.                              *)
LEMMA ReadingIsFive == Reading = 5
  <1>1. DOMAIN Steps = 1..6
    BY DEF Steps
  <1>2. /\ Steps[1] = "fetch" /\ Steps[2] = "index" /\ Steps[3] = "refresh"
        /\ Steps[4] = "scan" /\ Steps[5] = "read" /\ Steps[6] = "rescreen"
    BY DEF Steps
  <1> HIDE DEF Steps
  <1>3. \A i \in 1..6 : i = 1 \/ i = 2 \/ i = 3 \/ i = 4 \/ i = 5 \/ i = 6
    OBVIOUS
  <1>4. \A i \in DOMAIN Steps : Steps[i] = "read" <=> i = 5
    BY <1>1, <1>2, <1>3
  <1>5. 5 \in DOMAIN Steps
    BY <1>1
  <1> QED
    BY <1>4, <1>5 DEF Reading

(* A job that goes on has the duty it goes on with, the others keep theirs.*)
LEMMA DutyTaken ==
  ASSUME JobsTyped, NEW j \in Job, NEW step, NEW got, NEW todo, NEW rows, NEW hits, NEW aborted,
         Takes(j, Duty(step, got, todo, rows, hits, aborted))
  PROVE  /\ job'[j].step = step /\ job'[j].got = got /\ job'[j].todo = todo
         /\ job'[j].rows = rows /\ job'[j].hits = hits /\ job'[j].aborted = aborted
         /\ \A i \in Job \ {j} : job'[i] = job[i]
         /\ job' = [i \in Job |-> job'[i]]
  BY DEF Takes, Duty, JobsTyped
(* So it is with the requests.                                             *)
LEMMA QueryAsked ==
  ASSUME QueriesTyped, NEW q \in Query, NEW at, NEW n, NEW since, NEW found, NEW overlapped,
         Asks(q, Search(at, n, since, found, overlapped))
  PROVE  /\ query'[q].at = at /\ query'[q].name = n /\ query'[q].since = since
         /\ query'[q].found = found /\ query'[q].overlapped = overlapped
         /\ \A r \in Query \ {q} : query'[r] = query[r]
         /\ query' = [r \in Query |-> query'[r]]
  BY DEF Asks, Search, QueriesTyped

(* A request begins, or is over.                                           *)
LEMMA Awaits ==
  ASSUME QueriesTyped, NEW q \in Query, NEW at, NEW n, NEW since,
         Asks(q, Search(at, n, since, FALSE, FALSE))
  PROVE  /\ query'[q].at = at /\ query'[q].name = n /\ query'[q].since = since
         /\ \A r \in Query \ {q} : query'[r] = query[r]
         /\ query' = [r \in Query |-> query'[r]]
  BY DEF Asks, Search, QueriesTyped

(* The others keep their duties.                                           *)
LEMMA JobsGoOn ==
  ASSUME JobsTyped, NEW j \in Job, job' = [i \in Job |-> job'[i]], DutyTyped(job[j])',
         \A i \in Job \ {j} : job'[i] = job[i]
  PROVE  JobsTyped'
  <1>1. ASSUME NEW i \in Job PROVE DutyTyped(job[i])'
    <2>1. CASE i = j
      BY <2>1
    <2>2. CASE i # j
      BY <2>2 DEF JobsTyped, DutyTyped
    <2> QED
      BY <2>1, <2>2
  <1> QED
    BY <1>1 DEF JobsTyped

(* The jobs step by step.                                                  *)
LEMMA JobsStay == ScreenTyped /\ [ScreenNext]_screenVars => JobsTyped'
  <1> SUFFICES ASSUME ScreenTyped, [ScreenNext]_screenVars PROVE JobsTyped'
    OBVIOUS
  <1> USE DEF ScreenTyped
  <1>1. ASSUME UNCHANGED job PROVE JobsTyped'
    BY <1>1 DEF JobsTyped, DutyTyped
  <1>2. ASSUME NEW j \in Job,
           \/ SyncStart(j) \/ Fetch(j) \/ IndexDocument(j) \/ RefreshAll(j) \/ Scan(j)
           \/ SyncOnly(j) \/ RescreenStart(j)
           \/ RescreenRead(j) \/ Rescreen(j) \/ RescreenCommit(j)
        PROVE JobsTyped'
    <2>0. DutyTyped(job[j])
      BY DEF JobsTyped
    <2>1. CASE SyncStart(j)
      <3>1. Takes(j, Duty(1, {}, {}, {}, {}, FALSE))
        BY <2>1 DEF SyncStart
      <3>5. /\ job'[j].step = 1 /\ job'[j].got = {} /\ job'[j].todo = {}
            /\ job'[j].rows = {} /\ job'[j].hits = {}
            /\ \A i \in Job \ {j} : job'[i] = job[i]
            /\ job' = [i \in Job |-> job'[i]]
        BY <3>1 DEF Takes, Duty, JobsTyped
      <3> QED
        BY <3>5, JobsGoOn DEF DutyTyped
    <2>2. CASE Fetch(j)
      <3>1. PICK got \in SUBSET Document : Takes(j, Duty(job[j].step + 1, got, got, {}, {}, FALSE))
        BY <2>2, FetchedTyped DEF Fetch
      <3>2. job[j].step = 1
        BY <2>2, Positions DEF Fetch
      <3>5. /\ job'[j].step = job[j].step + 1 /\ job'[j].got = got /\ job'[j].todo = got
            /\ job'[j].rows = {} /\ job'[j].hits = {}
            /\ \A i \in Job \ {j} : job'[i] = job[i]
            /\ job' = [i \in Job |-> job'[i]]
        BY <3>1 DEF Takes, Duty, JobsTyped
      <3> QED
        BY <2>0, <3>2, <3>5, JobsGoOn DEF DutyTyped
    <2>3. CASE IndexDocument(j)
      <3>1. job[j].step = 2
        BY <2>3, Positions DEF IndexDocument
      <3>2. CASE Onwards(j)
        BY <2>0, <3>1, <3>2, DutyTaken, JobsGoOn DEF DutyTyped, Onwards
      <3>3. CASE \E n \in job[j].todo : Left(j, job[j].todo \ {n}, job[j].hits, job[j].aborted)
        <4>1. PICK n \in job[j].todo : Left(j, job[j].todo \ {n}, job[j].hits, job[j].aborted)
          BY <3>3
        <4> QED
          BY <2>0, <3>1, <4>1, DutyTaken, JobsGoOn DEF DutyTyped, Left
      <3> QED
        BY <2>3, <3>2, <3>3 DEF IndexDocument
    <2>4. CASE RefreshAll(j) \/ Scan(j)
      <3>1. Onwards(j) /\ job[j].step \in 3..4
        BY <2>4, Positions DEF RefreshAll, Scan
      <3> QED
        BY <2>0, <3>1, DutyTaken, JobsGoOn DEF DutyTyped, Onwards
    <2>5. CASE SyncOnly(j) \/ RescreenCommit(j)
      <3>1. Takes(j, Duty(0, {}, {}, {}, {}, FALSE))
        BY <2>5 DEF SyncOnly, RescreenCommit, NoJob
      <3>5. /\ job'[j].step = 0 /\ job'[j].got = {} /\ job'[j].todo = {}
            /\ job'[j].rows = {} /\ job'[j].hits = {}
            /\ \A i \in Job \ {j} : job'[i] = job[i]
            /\ job' = [i \in Job |-> job'[i]]
        BY <3>1 DEF Takes, Duty, JobsTyped
      <3> QED
        BY <3>5, JobsGoOn DEF DutyTyped
    <2>6. CASE RescreenStart(j)
      <3>1. Takes(j, Duty(5, {d \in Document : synced[d] # NotYet}, {}, {}, {}, FALSE))
        BY <2>6, ReadingIsFive DEF RescreenStart
      <3>5. /\ job'[j].step = 5 /\ job'[j].got = {d \in Document : synced[d] # NotYet} /\ job'[j].todo = {}
            /\ job'[j].rows = {} /\ job'[j].hits = {}
            /\ \A i \in Job \ {j} : job'[i] = job[i]
            /\ job' = [i \in Job |-> job'[i]]
        BY <3>1 DEF Takes, Duty, JobsTyped
      <3> QED
        BY <3>5, JobsGoOn DEF DutyTyped
    <2>7. CASE RescreenRead(j)
      <3>1. PICK rows \in SUBSET Customers :
              Takes(j, Duty(job[j].step + 1, job[j].got, rows, rows, {}, FALSE))
        BY <2>7 DEF RescreenRead
      <3>2. job[j].step = 5
        BY <2>7, Positions DEF RescreenRead
      <3>5. /\ job'[j].step = job[j].step + 1 /\ job'[j].got = job[j].got /\ job'[j].todo = rows
            /\ job'[j].rows = rows /\ job'[j].hits = {}
            /\ \A i \in Job \ {j} : job'[i] = job[i]
            /\ job' = [i \in Job |-> job'[i]]
        BY <3>1 DEF Takes, Duty, JobsTyped
      <3> QED
        BY <2>0, <3>2, <3>5, JobsGoOn DEF DutyTyped
    <2>8. CASE Rescreen(j)
      <3>1. PICK n \in job[j].todo, hits \in SUBSET Customers, aborted \in {job[j].aborted, TRUE} :
              Left(j, job[j].todo \ {n}, hits, aborted)
        <4>1. job[j].step = 6
          BY <2>8, Positions DEF Rescreen
        <4>2. job[j].todo \subseteq Customers /\ job[j].hits \subseteq Customers
          BY <2>0, <4>1 DEF DutyTyped
        <4> QED
          BY <2>8, <4>2 DEF Rescreen
      <3> QED
        BY <2>0, <3>1, DutyTaken, JobsGoOn DEF DutyTyped, Left
    <2> QED
      BY <1>2, <2>1, <2>2, <2>3, <2>4, <2>5, <2>6, <2>7, <2>8
  <1>3. ASSUME NEW q \in Query, \/ \E n \in Name : SearchStart(q, n)
                                \/ SearchBoth(q) \/ SearchStore(q)
        PROVE JobsTyped'
    BY <1>1, <1>3 DEF SearchStart, SearchBoth, SearchStore
  <1>4. ASSUME (\E f \in Feed, n \in Name : Publish(f, n)) \/ (\E e \in results : Expire(e)) \/ AutoRefresh \/ NextHour
               \/ UNCHANGED screenVars
        PROVE JobsTyped'
    BY <1>1, <1>4 DEF Publish, Expire, AutoRefresh, NextHour, screenVars
  <1> QED
    BY <1>2, <1>3, <1>4 DEF ScreenNext

(* The requests step by step.                                              *)
LEMMA QueriesStay == ScreenTyped /\ [ScreenNext]_screenVars => QueriesTyped'
  <1> SUFFICES ASSUME ScreenTyped, [ScreenNext]_screenVars PROVE QueriesTyped'
    OBVIOUS
  <1> USE DEF ScreenTyped
  <1>1. ASSUME UNCHANGED query PROVE QueriesTyped'
    BY <1>1 DEF QueriesTyped
  <1>2. ASSUME NEW j \in Job, SyncStart(j) PROVE QueriesTyped'
    <2>1. query' = [q \in Query |-> IF query[q].at = "store"
                      THEN Search("store", query[q].name, query[q].since, query[q].found,
                                  ~query[q].found)
                      ELSE query[q]]
      BY <1>2 DEF SyncStart
    <2>2. \A q \in Query : query'[q].name = query[q].name /\ query'[q].at = query[q].at
      BY <2>1 DEF Search
    <2> QED
      BY <2>1, <2>2 DEF QueriesTyped
  <1>3. ASSUME NEW q \in Query, NEW n \in Name, SearchStart(q, n) PROVE QueriesTyped'
    <2>1. CASE UNCHANGED query
      BY <2>1, <1>1
    <2>2. CASE Asks(q, Search("index", n, Since(n), FALSE, FALSE))
      <3>1. /\ query'[q].name = n /\ query' = [r \in Query |-> query'[r]]
            /\ \A r \in Query \ {q} : query'[r] = query[r]
        BY <2>2 DEF Asks, Search, QueriesTyped
      <3> QED
        BY <3>1 DEF QueriesTyped
    <2> QED
      BY <1>3, <2>1, <2>2 DEF SearchStart
  <1>4. ASSUME NEW q \in Query, SearchBoth(q) \/ SearchStore(q) PROVE QueriesTyped'
    <2>1. CASE SearchStore(q)
      <3>1. Asks(q, Search("idle", "", NotYet, FALSE, FALSE))
        BY <2>1 DEF SearchStore, NoQuery
      <3>2. /\ query'[q].at = "idle" /\ query' = [r \in Query |-> query'[r]]
            /\ \A r \in Query \ {q} : query'[r] = query[r]
        BY <3>1, Awaits
      <3> QED
        BY <3>2 DEF QueriesTyped
    <2>2. CASE SearchBoth(q)
      <3>1. PICK found, overlapped :
              Asks(q, Search("store", query[q].name, query[q].since, found, overlapped))
        BY <2>2, Zenon DEF SearchBoth
      <3>2. /\ query'[q].name = query[q].name /\ query' = [r \in Query |-> query'[r]]
            /\ \A r \in Query \ {q} : query'[r] = query[r]
        BY <3>1, QueryAsked
      <3>3. query[q].at = "index"
        BY <2>2 DEF SearchBoth
      <3> QED
        BY <3>2, <3>3 DEF QueriesTyped
    <2> QED
      BY <1>4, <2>1, <2>2
  <1>5. ASSUME NEW j \in Job,
           \/ Fetch(j) \/ IndexDocument(j) \/ RefreshAll(j) \/ Scan(j)
           \/ SyncOnly(j) \/ RescreenStart(j)
           \/ RescreenRead(j) \/ Rescreen(j) \/ RescreenCommit(j)
        PROVE QueriesTyped'
    BY <1>1, <1>5 DEF Fetch, IndexDocument, RefreshAll, Scan, SyncOnly, RescreenStart, RescreenRead,
       Rescreen, RescreenCommit, answerVars
  <1>6. ASSUME (\E f \in Feed, n \in Name : Publish(f, n)) \/ (\E e \in results : Expire(e)) \/ AutoRefresh \/ NextHour
               \/ UNCHANGED screenVars
        PROVE QueriesTyped'
    BY <1>1, <1>6 DEF Publish, Expire, AutoRefresh, NextHour, screenVars, answerVars
  <1> QED
    BY <1>2, <1>3, <1>4, <1>5, <1>6 DEF ScreenNext

(* The indices step by step.                                               *)
LEMMA IndicesStay == ScreenTyped /\ [ScreenNext]_screenVars => IndicesTyped'
  <1> SUFFICES ASSUME ScreenTyped, [ScreenNext]_screenVars PROVE IndicesTyped'
    OBVIOUS
  <1> USE DEF ScreenTyped
  <1>1. ASSUME UNCHANGED <<lists, docs, visible, escalated>> PROVE IndicesTyped'
    BY <1>1 DEF IndicesTyped
  <1>2. ASSUME NEW j \in Job, IndexDocument(j) PROVE IndicesTyped'
    <2>1. UNCHANGED docs \/ \E n \in job[j].todo : docs' = docs \cup {n}
      BY <1>2 DEF IndexDocument
    <2>2. job[j].step = 2
      BY <1>2, Positions DEF IndexDocument
    <2>3. job[j].todo \subseteq Document
      BY <2>2 DEF JobsTyped, DutyTyped
    <2> QED
      BY <1>2, <2>1, <2>3 DEF IndexDocument, IndicesTyped, accountVars
  <1>3. ASSUME NEW j \in Job, RefreshAll(j) PROVE IndicesTyped'
    BY <1>3 DEF RefreshAll, IndicesTyped, accountVars
  <1>4. ASSUME NEW j \in Job, RescreenCommit(j) PROVE IndicesTyped'
    <2>1. job[j].hits \subseteq Customers
      BY DEF JobsTyped, DutyTyped
    <2>2. escalated' \subseteq Customers
      BY <1>4, <2>1 DEF RescreenCommit, IndicesTyped
    <2> QED
      BY <1>4, <2>2 DEF RescreenCommit, IndicesTyped, indexVars
  <1>5. ASSUME NEW j \in Job,
           \/ SyncStart(j) \/ Fetch(j) \/ Scan(j) \/ SyncOnly(j) \/ RescreenStart(j)
           \/ RescreenRead(j) \/ Rescreen(j)
        PROVE IndicesTyped'
    BY <1>1, <1>5 DEF SyncStart, Fetch, Scan, SyncOnly, RescreenStart, RescreenRead, Rescreen,
       indexVars, accountVars
  <1>6. ASSUME NEW q \in Query, \/ \E n \in Name : SearchStart(q, n)
                                \/ SearchBoth(q) \/ SearchStore(q)
        PROVE IndicesTyped'
    BY <1>1, <1>6 DEF SearchStart, SearchBoth, SearchStore, indexVars, accountVars
  <1>7. ASSUME NEW f \in Feed, NEW n \in Name, Publish(f, n) PROVE IndicesTyped'
    BY <1>7 DEF Publish, IndicesTyped, indexVars, accountVars
  <1>8. ASSUME AutoRefresh PROVE IndicesTyped'
    BY <1>8 DEF AutoRefresh, IndicesTyped, accountVars
  <1>9. ASSUME (\E e \in results : Expire(e)) \/ NextHour \/ UNCHANGED screenVars
        PROVE IndicesTyped'
    BY <1>1, <1>9 DEF Expire, NextHour, screenVars, indexVars, accountVars
  <1> QED
    BY <1>2, <1>3, <1>4, <1>5, <1>6, <1>7, <1>8, <1>9 DEF ScreenNext

(* The kept answers step by step.                                          *)
LEMMA EntriesStay == ScreenTyped /\ [ScreenNext]_screenVars => EntriesTyped'
  <1> SUFFICES ASSUME ScreenTyped, [ScreenNext]_screenVars PROVE EntriesTyped'
    OBVIOUS
  <1> USE DEF ScreenTyped
  <1>1. ASSUME UNCHANGED <<hour, synced>>, results' \subseteq results PROVE EntriesTyped'
    BY <1>1 DEF EntriesTyped
  <1>2. ASSUME NEW j \in Job, Scan(j) PROVE EntriesTyped'
    <2>1. synced' = [d \in Document |->
                     IF d \in job[j].got /\ hour < synced[d] THEN hour ELSE synced[d]]
      BY <1>2 DEF Scan
    <2>2. synced' \in [Document -> Nat]
      BY <2>1 DEF EntriesTyped
    <2> QED
      BY <1>2, <2>2 DEF Scan, EntriesTyped
  <1>3. ASSUME NEW q \in Query, SearchStore(q) PROVE EntriesTyped'
    <2>1. UNCHANGED <<hour, synced>>
      BY <1>3 DEF SearchStore
    <2>2. query[q].name \in Name
      BY <1>3 DEF SearchStore, QueriesTyped
    <2>3. ASSUME NEW e \in results', e \notin results
          PROVE  e.name \in Name /\ e.at = hour
      BY <1>3, <2>2, <2>3 DEF SearchStore
    <2> QED
      BY <2>1, <2>3 DEF EntriesTyped
  <1>4. ASSUME NextHour PROVE EntriesTyped'
    <2>1. hour' = hour + 1 /\ UNCHANGED synced /\ results' = {e \in results : e.at + 1 >= hour + 1}
      BY <1>4 DEF NextHour, Outlives
    <2> QED
      BY <2>1 DEF EntriesTyped
  <1>5. ASSUME NEW j \in Job,
           \/ SyncStart(j) \/ Fetch(j) \/ IndexDocument(j) \/ RefreshAll(j) \/ SyncOnly(j)
           \/ RescreenStart(j) \/ RescreenRead(j) \/ Rescreen(j) \/ RescreenCommit(j)
        PROVE EntriesTyped'
    BY <1>1, <1>5 DEF SyncStart, Fetch, IndexDocument, RefreshAll, SyncOnly, RescreenStart, RescreenRead,
       Rescreen, RescreenCommit
  <1>6. ASSUME NEW q \in Query, (\E n \in Name : SearchStart(q, n)) \/ SearchBoth(q)
        PROVE EntriesTyped'
    BY <1>1, <1>6 DEF SearchStart, SearchBoth
  <1>7. ASSUME (\E f \in Feed, n \in Name : Publish(f, n)) \/ (\E e \in results : Expire(e)) \/ AutoRefresh
               \/ UNCHANGED screenVars
        PROVE EntriesTyped'
    BY <1>1, <1>7 DEF Publish, Expire, AutoRefresh, screenVars
  <1> QED
    BY <1>2, <1>3, <1>4, <1>5, <1>6, <1>7 DEF ScreenNext

(* The types hold at first.                                                *)
LEMMA ScreenStarts == ScreenInit => ScreenTyped
  <1> SUFFICES ASSUME ScreenInit PROVE ScreenTyped
    OBVIOUS
  <1>1. JobsTyped
    BY DEF ScreenInit, JobsTyped, DutyTyped, NoJob, Duty
  <1>2. QueriesTyped
    BY DEF ScreenInit, QueriesTyped, NoQuery, Search
  <1>3. IndicesTyped
    BY ScreeningAssumption DEF ScreenInit, IndicesTyped
  <1>4. EntriesTyped
    BY DEF ScreenInit, EntriesTyped, NotYet
  <1> QED
    BY <1>1, <1>2, <1>3, <1>4 DEF ScreenTyped

(* The watchlists keep their types.                                        *)
THEOREM ScreenTypes == ScreenSpec => []ScreenTypeOK
  <1>1. ScreenTyped /\ [ScreenNext]_screenVars => ScreenTyped'
    BY JobsStay, QueriesStay, IndicesStay, EntriesStay DEF ScreenTyped
  <1>2. ScreenTyped => ScreenTypeOK
    BY DEF ScreenTyped, ScreenTypeOK, IndicesTyped, EntriesTyped
  <1> QED
    BY <1>1, <1>2, ScreenStarts, PTL DEF ScreenSpec

(* While nothing of the indices fails, what a job has fetched is in its    *)
(* hands or in the indices, and from its refresh on is found, and so is    *)
(* every document whose synchronisation is over.                           *)
Reached(e) ==
  /\ e.step = 2 => e.got \subseteq docs \cup e.todo
  /\ e.step = 3 => e.got \subseteq docs
  /\ e.step \in 4..6 => e.got \subseteq visible
IndexedWell ==
  "index" \notin mishaps =>
    /\ \A d \in Document : synced[d] # NotYet => d \in visible
    /\ \A j \in Job : Reached(job[j])

(* The indices only grow.                                                  *)
LEMMA Grows ==
  ScreenTyped /\ [ScreenNext]_screenVars =>
    docs \subseteq docs' /\ visible \subseteq visible' /\ mishaps \subseteq mishaps'
  <1> SUFFICES ASSUME ScreenTyped, [ScreenNext]_screenVars
      PROVE  docs \subseteq docs' /\ visible \subseteq visible' /\ mishaps \subseteq mishaps'
    OBVIOUS
  <1>0. visible \subseteq docs
    BY DEF ScreenTyped, IndicesTyped
  <1>1. ASSUME NEW j \in Job, IndexDocument(j) \/ RefreshAll(j)
        PROVE  docs \subseteq docs' /\ visible \subseteq visible' /\ mishaps \subseteq mishaps'
    BY <1>0, <1>1 DEF IndexDocument, RefreshAll, Mishap, mishapVars
  <1>2. ASSUME NEW j \in Job,
           \/ SyncStart(j) \/ Fetch(j) \/ Scan(j) \/ SyncOnly(j) \/ RescreenStart(j)
           \/ RescreenRead(j) \/ Rescreen(j) \/ RescreenCommit(j)
        PROVE  UNCHANGED indexVars /\ mishaps \subseteq mishaps'
    BY <1>2 DEF SyncStart, Fetch, Scan, SyncOnly, RescreenStart, RescreenRead, Rescreen,
       RescreenCommit, Mishap, mishapVars
  <1>3. ASSUME NEW q \in Query, \/ \E n \in Name : SearchStart(q, n)
                                \/ SearchBoth(q) \/ SearchStore(q)
        PROVE  UNCHANGED indexVars /\ mishaps \subseteq mishaps'
    BY <1>3 DEF SearchStart, SearchBoth, SearchStore, Mishap, mishapVars
  <1>4. ASSUME (\E f \in Feed, n \in Name : Publish(f, n)) \/ (\E e \in results : Expire(e)) \/ NextHour
               \/ UNCHANGED screenVars
        PROVE  UNCHANGED indexVars /\ mishaps \subseteq mishaps'
    BY <1>4 DEF Publish, Expire, NextHour, screenVars, indexVars, mishapVars
  <1>5. CASE AutoRefresh
    BY <1>0, <1>5 DEF AutoRefresh, mishapVars
  <1> QED
    BY <1>1, <1>2, <1>3, <1>4, <1>5 DEF ScreenNext, indexVars

(* A job that goes on leaves the others where they were.                   *)
LEMMA ReachedOthers ==
  ASSUME JobsTyped, NEW j \in Job, \A i \in Job \ {j} : job'[i] = job[i],
         docs \subseteq docs', visible \subseteq visible',
         \A i \in Job : Reached(job[i]), Reached(job[j])'
  PROVE  \A i \in Job : Reached(job[i])'
  <1> SUFFICES ASSUME NEW i \in Job PROVE Reached(job[i])'
    OBVIOUS
  <1>1. CASE i = j
    BY <1>1
  <1>2. CASE i # j
    <2>1. job'[i] = job[i] /\ Reached(job[i])
      BY <1>2
    <2> QED
      BY <2>1 DEF Reached
  <1> QED
    BY <1>1, <1>2

(* What a job has fetched is on its way into the indices.                  *)
LEMMA JobReached ==
  ASSUME ScreenTyped, "index" \notin mishaps', NEW j \in Job, Reached(job[j]),
         \A d \in Document : synced[d] # NotYet => d \in visible,
         docs \subseteq docs', visible \subseteq visible',
         \/ SyncStart(j) \/ Fetch(j) \/ IndexDocument(j) \/ RefreshAll(j) \/ Scan(j)
         \/ SyncOnly(j) \/ RescreenStart(j)
         \/ RescreenRead(j) \/ Rescreen(j) \/ RescreenCommit(j)
  PROVE  Reached(job[j])' /\ \A i \in Job \ {j} : job'[i] = job[i]
  <1> USE DEF ScreenTyped
  <1>1. CASE SyncStart(j)
    <2>1. job'[j].step = 1 /\ \A i \in Job \ {j} : job'[i] = job[i]
      BY <1>1 DEF SyncStart, Takes, Duty, JobsTyped
    <2> QED
      BY <2>1 DEF Reached
  <1>2. CASE Fetch(j)
    <2>1. PICK got : Takes(j, Duty(job[j].step + 1, got, got, {}, {}, FALSE))
      BY <1>2 DEF Fetch
    <2>2. /\ job'[j].step = job[j].step + 1 /\ job'[j].got = job'[j].todo
          /\ \A i \in Job \ {j} : job'[i] = job[i]
      BY <2>1 DEF Takes, Duty, JobsTyped
    <2>3. job[j].step = 1
      BY <1>2, Positions DEF Fetch
    <2> QED
      BY <2>2, <2>3 DEF Reached
  <1>3. CASE IndexDocument(j)
    <2>1. job[j].step = 2
      BY <1>3, Positions DEF IndexDocument
    <2>2. CASE job[j].todo = {} /\ Onwards(j)
      <3>1. /\ job'[j].step = job[j].step + 1 /\ job'[j].got = job[j].got
            /\ \A i \in Job \ {j} : job'[i] = job[i]
        BY <2>2, DutyTaken DEF Onwards
      <3> QED
        BY <2>1, <2>2, <3>1 DEF Reached
    <2>3. CASE \E n \in job[j].todo : /\ Left(j, job[j].todo \ {n}, job[j].hits, job[j].aborted)
                                      /\ docs' = docs \cup {n} \/ Mishap("index")
      <3>1. PICK n \in job[j].todo : /\ Left(j, job[j].todo \ {n}, job[j].hits, job[j].aborted)
                                     /\ docs' = docs \cup {n}
        BY <2>3 DEF Mishap
      <3>2. /\ job'[j].step = job[j].step /\ job'[j].got = job[j].got
            /\ job'[j].todo = job[j].todo \ {n}
            /\ \A i \in Job \ {j} : job'[i] = job[i]
        BY <3>1, DutyTaken DEF Left
      <3> QED
        BY <2>1, <3>1, <3>2 DEF Reached
    <2> QED
      BY <1>3, <2>2, <2>3 DEF IndexDocument
  <1>4. CASE RefreshAll(j)
    <2>1. /\ job'[j].step = job[j].step + 1 /\ job'[j].got = job[j].got
          /\ \A i \in Job \ {j} : job'[i] = job[i]
      BY <1>4, DutyTaken DEF RefreshAll, Onwards
    <2>2. job[j].step = 3 /\ visible' = docs
      BY <1>4, Positions DEF RefreshAll, Mishap
    <2> QED
      BY <2>1, <2>2 DEF Reached
  <1>5. CASE Scan(j)
    <2>1. /\ job'[j].step = job[j].step + 1 /\ job'[j].got = job[j].got
          /\ \A i \in Job \ {j} : job'[i] = job[i]
      BY <1>5, DutyTaken DEF Scan, Onwards
    <2>2. job[j].step = 4
      BY <1>5, Positions DEF Scan
    <2> QED
      BY <2>1, <2>2 DEF Reached
  <1>6. CASE SyncOnly(j) \/ RescreenCommit(j)
    <2>1. Takes(j, Duty(0, {}, {}, {}, {}, FALSE))
      BY <1>6 DEF SyncOnly, RescreenCommit, NoJob
    <2>2. job'[j].step = 0 /\ \A i \in Job \ {j} : job'[i] = job[i]
      BY <2>1 DEF Takes, Duty, JobsTyped
    <2> QED
      BY <2>2 DEF Reached
  <1>7. CASE RescreenStart(j)
    <2>1. Takes(j, Duty(5, {d \in Document : synced[d] # NotYet}, {}, {}, {}, FALSE))
      BY <1>7, ReadingIsFive DEF RescreenStart
    <2>2. /\ job'[j].step = 5 /\ job'[j].got = {d \in Document : synced[d] # NotYet}
          /\ \A i \in Job \ {j} : job'[i] = job[i]
      BY <2>1 DEF Takes, Duty, JobsTyped
    <2> QED
      BY <2>2 DEF Reached
  <1>8. CASE RescreenRead(j)
    <2>1. PICK rows \in SUBSET Customers :
            Takes(j, Duty(job[j].step + 1, job[j].got, rows, rows, {}, FALSE))
      BY <1>8 DEF RescreenRead
    <2>2. /\ job'[j].step = job[j].step + 1 /\ job'[j].got = job[j].got
          /\ \A i \in Job \ {j} : job'[i] = job[i]
      BY <2>1 DEF Takes, Duty, JobsTyped
    <2>3. job[j].step = 5
      BY <1>8, Positions DEF RescreenRead
    <2> QED
      BY <2>2, <2>3 DEF Reached
  <1>9. CASE Rescreen(j)
    <2>1. PICK todo, hits, aborted : Takes(j, Duty(job[j].step, job[j].got, todo, job[j].rows, hits, aborted))
      BY <1>9 DEF Rescreen, Left
    <2>2. /\ job'[j].step = job[j].step /\ job'[j].got = job[j].got
          /\ \A i \in Job \ {j} : job'[i] = job[i]
      BY <2>1, DutyTaken
    <2>3. job[j].step = 6
      BY <1>9, Positions DEF Rescreen
    <2> QED
      BY <2>2, <2>3 DEF Reached
  <1> QED
    BY <1>1, <1>2, <1>3, <1>4, <1>5, <1>6, <1>7, <1>8, <1>9

(* The indices have what was synchronised, step by step.                   *)
LEMMA IndexedStays == ScreenTyped /\ IndexedWell /\ [ScreenNext]_screenVars => IndexedWell'
  <1> SUFFICES ASSUME ScreenTyped, IndexedWell, [ScreenNext]_screenVars, "index" \notin mishaps'
      PROVE  /\ \A d \in Document : synced'[d] # NotYet => d \in visible'
             /\ \A j \in Job : Reached(job[j])'
    BY DEF IndexedWell
  <1>0. docs \subseteq docs' /\ visible \subseteq visible' /\ "index" \notin mishaps
    BY Grows
  <1>1. (\A d \in Document : synced[d] # NotYet => d \in visible) /\ \A j \in Job : Reached(job[j])
    BY <1>0 DEF IndexedWell
  <1>2. \A d \in Document : synced'[d] # NotYet => d \in visible'
    <2>1. CASE UNCHANGED synced
      BY <2>1, <1>0, <1>1
    <2>2. ASSUME NEW j \in Job, Scan(j)
          PROVE  \A d \in Document : synced'[d] # NotYet => d \in visible'
      <3>1. job[j].step = 4
        BY <2>2, Positions DEF Scan
      <3>2. job[j].got \subseteq visible
        BY <1>1, <3>1 DEF Reached
      <3>3. synced' = [d \in Document |->
                     IF d \in job[j].got /\ hour < synced[d] THEN hour ELSE synced[d]]
        BY <2>2 DEF Scan
      <3> QED
        BY <1>0, <1>1, <3>2, <3>3
    <2>3. UNCHANGED synced \/ \E j \in Job : Scan(j)
      BY DEF ScreenNext, screenVars, SyncStart, Fetch, IndexDocument, RefreshAll, SyncOnly, RescreenStart,
         RescreenRead, Rescreen, RescreenCommit, SearchStart, SearchBoth, SearchStore, Publish,
         Expire, AutoRefresh, NextHour
    <2> QED
      BY <2>1, <2>2, <2>3
  <1>3. ASSUME UNCHANGED job PROVE \A j \in Job : Reached(job[j])'
    BY <1>0, <1>1, <1>3 DEF Reached
  <1>4. ASSUME NEW j \in Job,
           \/ SyncStart(j) \/ Fetch(j) \/ IndexDocument(j) \/ RefreshAll(j) \/ Scan(j)
           \/ SyncOnly(j) \/ RescreenStart(j)
           \/ RescreenRead(j) \/ Rescreen(j) \/ RescreenCommit(j)
        PROVE \A i \in Job : Reached(job[i])'
    <2>1. Reached(job[j])' /\ \A i \in Job \ {j} : job'[i] = job[i]
      BY <1>0, <1>1, <1>4, JobReached
    <2> QED
      BY <1>0, <1>1, <2>1, ReachedOthers DEF ScreenTyped
  <1>5. UNCHANGED job \/ \E j \in Job :
           \/ SyncStart(j) \/ Fetch(j) \/ IndexDocument(j) \/ RefreshAll(j) \/ Scan(j)
           \/ SyncOnly(j) \/ RescreenStart(j)
           \/ RescreenRead(j) \/ Rescreen(j) \/ RescreenCommit(j)
    BY DEF ScreenNext, screenVars, SearchStart, SearchBoth, SearchStore, Publish,
         Expire, AutoRefresh, NextHour
  <1> QED
    BY <1>2, <1>3, <1>4, <1>5

(* While only a scan of the cache may have failed, a re-screening has all  *)
(* those in hand whose owner it fetched, or still has to look at them.     *)
Combed(e) ==
  e.step = 6 =>
    /\ ~e.aborted
    /\ \A n \in e.rows \ e.todo : <<n, "sanctions">> \in e.got => n \in e.hits \cup Cleared
RescreensWell ==
  mishaps \subseteq {"scan"} => unflagged = {} /\ \A j \in Job : Combed(job[j])

(* What a re-screening has in hand, step by step.                          *)
LEMMA JobCombed ==
  ASSUME ScreenTyped, mishaps' \subseteq {"scan"}, NEW j \in Job, Combed(job[j]), Reached(job[j]),
         \/ SyncStart(j) \/ Fetch(j) \/ IndexDocument(j) \/ RefreshAll(j) \/ Scan(j)
         \/ SyncOnly(j) \/ RescreenStart(j)
         \/ RescreenRead(j) \/ Rescreen(j) \/ RescreenCommit(j)
  PROVE  Combed(job[j])' /\ \A i \in Job \ {j} : job'[i] = job[i]
  <1> USE DEF ScreenTyped
  <1>1. CASE SyncStart(j) \/ SyncOnly(j) \/ RescreenStart(j) \/ RescreenCommit(j)
    <2>1. PICK step \in {0, 1, 5} : \E got : Takes(j, Duty(step, got, {}, {}, {}, FALSE))
      BY <1>1, ReadingIsFive DEF SyncStart, SyncOnly, RescreenStart, RescreenCommit, NoJob
    <2>2. job'[j].step = step /\ \A i \in Job \ {j} : job'[i] = job[i]
      BY <2>1 DEF Takes, Duty, JobsTyped
    <2> QED
      BY <2>2 DEF Combed
  <1>2. CASE Fetch(j)
    <2>1. PICK got : Takes(j, Duty(job[j].step + 1, got, got, {}, {}, FALSE))
      BY <1>2 DEF Fetch
    <2>2. /\ job'[j].step = job[j].step + 1
          /\ \A i \in Job \ {j} : job'[i] = job[i]
      BY <2>1 DEF Takes, Duty, JobsTyped
    <2>3. job[j].step = 1
      BY <1>2, Positions DEF Fetch
    <2> QED
      BY <2>2, <2>3 DEF Combed
  <1>3. CASE IndexDocument(j) \/ RefreshAll(j) \/ Scan(j)
    <2>1. job[j].step \in 2..4
      BY <1>3, Positions DEF IndexDocument, RefreshAll, Scan
    <2>2. PICK step \in {job[j].step, job[j].step + 1} : \E todo :
            Takes(j, Duty(step, job[j].got, todo, job[j].rows, job[j].hits, job[j].aborted))
      BY <1>3 DEF IndexDocument, RefreshAll, Scan, Onwards, Left
    <2>3. job'[j].step = step /\ \A i \in Job \ {j} : job'[i] = job[i]
      BY <2>2, DutyTaken
    <2> QED
      BY <2>1, <2>3 DEF Combed
  <1>4. CASE RescreenRead(j)
    <2>1. PICK rows \in SUBSET Customers :
            Takes(j, Duty(job[j].step + 1, job[j].got, rows, rows, {}, FALSE))
      BY <1>4 DEF RescreenRead
    <2>2. /\ job'[j].rows = job'[j].todo /\ ~job'[j].aborted
          /\ \A i \in Job \ {j} : job'[i] = job[i]
      BY <2>1 DEF Takes, Duty, JobsTyped
    <2> QED
      BY <2>2 DEF Combed
  <1>5. CASE Rescreen(j)
    <2>1. job[j].step = 6
      BY <1>5, Positions DEF Rescreen
    <2>2. PICK n \in job[j].todo :
            Left(j, job[j].todo \ {n}, job[j].hits \cup (({n} \cap Finds("sanctions", TRUE)) \ Cleared),
                 job[j].aborted)
      <3>1. ~Mishap("es") /\ ~Mishap("sql")
        BY DEF Mishap
      <3>2. PICK n \in job[j].todo, up \in BOOLEAN :
              /\ IF up THEN UNCHANGED mishapVars ELSE Mishap("es")
              /\ Left(j, job[j].todo \ {n},
                      job[j].hits \cup (({n} \cap Finds("sanctions", up)) \ Cleared), job[j].aborted)
        BY <1>5, <3>1, Zenon DEF Rescreen
      <3>3. up = TRUE
        BY <3>1, <3>2, Zenon
      <3> QED
        BY <3>2, <3>3, Zenon
    <2> DEFINE more == ({n} \cap Finds("sanctions", TRUE)) \ Cleared
    <2>3. <<n, "sanctions">> \in visible /\ n \in Name => n \in more \cup Cleared
      BY DEF Finds
    <2>4. Takes(j, Duty(job[j].step, job[j].got, job[j].todo \ {n}, job[j].rows,
                        job[j].hits \cup more, job[j].aborted))
      BY <2>2 DEF Left
    <2> HIDE DEF more
    <2>5. /\ job'[j].got = job[j].got /\ job'[j].todo = job[j].todo \ {n}
          /\ job'[j].rows = job[j].rows /\ job'[j].aborted = job[j].aborted
          /\ job'[j].hits = job[j].hits \cup more
          /\ \A i \in Job \ {j} : job'[i] = job[i]
      BY <2>4, DutyTaken
    <2>6. ~job'[j].aborted
      BY <2>1, <2>5 DEF Combed
    <2>7. /\ job[j].got \subseteq visible
          /\ \A m \in job[j].rows \ job[j].todo :
               <<m, "sanctions">> \in job[j].got => m \in job[j].hits \cup Cleared
      BY <2>1 DEF Reached, Combed
    <2>8. job[j].rows \subseteq Name
      BY ScreeningAssumption DEF JobsTyped, DutyTyped
    <2>9. \A m \in job'[j].rows \ job'[j].todo :
            <<m, "sanctions">> \in job'[j].got => m \in job'[j].hits \cup Cleared
      <3> SUFFICES ASSUME NEW m \in job[j].rows \ (job[j].todo \ {n}),
                          <<m, "sanctions">> \in job[j].got
          PROVE  m \in job[j].hits \cup more \cup Cleared
        BY <2>5
      <3>1. CASE m = n
        BY <2>3, <2>7, <2>8, <3>1
      <3>2. CASE m # n
        BY <2>7, <3>2
      <3> QED
        BY <3>1, <3>2
    <2> QED
      BY <2>5, <2>6, <2>9 DEF Combed
  <1> QED
    BY <1>1, <1>2, <1>3, <1>4, <1>5

(* Nobody is left unflagged, step by step.                                 *)
LEMMA CombedStays ==
  ScreenTyped /\ IndexedWell /\ RescreensWell /\ [ScreenNext]_screenVars => RescreensWell'
  <1> SUFFICES ASSUME ScreenTyped, IndexedWell, RescreensWell, [ScreenNext]_screenVars,
                      mishaps' \subseteq {"scan"}
      PROVE  unflagged' = {} /\ \A j \in Job : Combed(job[j])'
    BY DEF RescreensWell
  <1>1. mishaps \subseteq {"scan"} /\ "index" \notin mishaps
    BY Grows
  <1>2. /\ unflagged = {} /\ \A j \in Job : Combed(job[j])
        /\ \A j \in Job : Reached(job[j])
    BY <1>1 DEF RescreensWell, IndexedWell
  <1>3. unflagged' = {}
    <2>1. ASSUME NEW j \in Job, RescreenCommit(j) PROVE unflagged' = {}
      <3>1. job[j].step = 6 /\ job[j].todo = {}
        BY <2>1, Positions DEF RescreenCommit
      <3>2. /\ ~job[j].aborted
            /\ \A n \in job[j].rows \ job[j].todo :
                 <<n, "sanctions">> \in job[j].got => n \in job[j].hits \cup Cleared
        BY <1>2, <3>1 DEF Combed
      <3>3. escalated' = escalated \cup job[j].hits
        BY <2>1, <3>2 DEF RescreenCommit
      <3>4. unflagged' = unflagged \cup
              {n \in job[j].rows \ (Cleared \cup escalated') : <<n, "sanctions">> \in job[j].got}
        BY <2>1 DEF RescreenCommit
      <3> QED
        BY <1>2, <3>1, <3>2, <3>3, <3>4
    <2>2. UNCHANGED unflagged \/ \E j \in Job : RescreenCommit(j)
      BY DEF ScreenNext, screenVars, SyncStart, Fetch, IndexDocument, RefreshAll, Scan, SyncOnly,
         RescreenStart, RescreenRead, Rescreen, SearchStart, SearchBoth, SearchStore, Publish,
         Expire, AutoRefresh, NextHour, accountVars
    <2> QED
      BY <1>2, <2>1, <2>2
  <1>4. ASSUME UNCHANGED job PROVE \A j \in Job : Combed(job[j])'
    BY <1>2, <1>4 DEF Combed
  <1>5. ASSUME NEW j \in Job,
           \/ SyncStart(j) \/ Fetch(j) \/ IndexDocument(j) \/ RefreshAll(j) \/ Scan(j)
           \/ SyncOnly(j) \/ RescreenStart(j)
           \/ RescreenRead(j) \/ Rescreen(j) \/ RescreenCommit(j)
        PROVE \A i \in Job : Combed(job[i])'
    <2>1. Combed(job[j])' /\ \A i \in Job \ {j} : job'[i] = job[i]
      BY <1>2, <1>5, JobCombed
    <2>2. ASSUME NEW i \in Job, i # j PROVE Combed(job[i])'
      <3>1. job'[i] = job[i] /\ Combed(job[i])
        BY <1>2, <2>1, <2>2
      <3> QED
        BY <3>1 DEF Combed
    <2> QED
      BY <2>1, <2>2
  <1>6. UNCHANGED job \/ \E j \in Job :
           \/ SyncStart(j) \/ Fetch(j) \/ IndexDocument(j) \/ RefreshAll(j) \/ Scan(j)
           \/ SyncOnly(j) \/ RescreenStart(j)
           \/ RescreenRead(j) \/ Rescreen(j) \/ RescreenCommit(j)
    BY DEF ScreenNext, screenVars, SearchStart, SearchBoth, SearchStore, Publish,
         Expire, AutoRefresh, NextHour
  <1> QED
    BY <1>3, <1>4, <1>5, <1>6

(* While nothing but SQL fails, a request about a name synchronised before *)
(* finds it; one about to answer "clean" began before the name was         *)
(* synchronised, and if the name has been since, it has seen a             *)
(* synchronisation; and so has a kept answer that is "clean".              *)
NoSync == \A j \in Job : job[j].step \notin 1..4
InView(n) == \E i \in Index : <<n, i>> \in visible
Told(r) ==
  /\ r.at # "idle" => r.since = NotYet \/ InView(r.name)
  /\ r.at = "store" /\ ~r.found =>
       /\ r.since = NotYet
       /\ Since(r.name) = NotYet \/ Since(r.name) = hour
       /\ r.overlapped \/ (Since(r.name) = NotYet /\ NoSync)
Kept(e) == e.found \/ Since(e.name) = NotYet \/ (e.overlapped /\ Since(e.name) = e.at)
NoneMissed ==
  /\ overlooked = {}
  /\ \A q \in Query : Told(query[q])
  /\ \A e \in results : Kept(e)
AnswersWell == mishaps \subseteq {"sql"} => NoneMissed

(* What has been synchronised is shown, and what is not shown has not.     *)
LEMMA SinceShown ==
  ASSUME \A d \in Document : synced[d] # NotYet => d \in visible, NEW n \in Name
  PROVE  Since(n) = NotYet \/ InView(n)
  <1>1. "sanctions" \in Index /\ "pep" \in Index
    BY DEF Index
  <1>2. <<n, "sanctions">> \in Document /\ <<n, "pep">> \in Document
    BY <1>1 DEF Document
  <1>3. Since(n) = synced[<<n, "sanctions">>] \/ Since(n) = synced[<<n, "pep">>]
    BY DEF Since
  <1> QED
    BY <1>1, <1>2, <1>3 DEF InView

(* A synchronisation that is over leaves a name the hour it has, or gives  *)
(* it this one.                                                            *)
LEMMA SinceScanned ==
  ASSUME EntriesTyped, NEW got, NEW n \in Name,
         synced' = [d \in Document |-> IF d \in got /\ hour < synced[d] THEN hour ELSE synced[d]]
  PROVE  Since(n)' = hour \/ Since(n)' = Since(n)
  <1>1. <<n, "sanctions">> \in Document /\ <<n, "pep">> \in Document
    BY DEF Document, Index
  <1>2. \A d \in Document : synced[d] \in Nat /\ hour \in Nat
          /\ (synced'[d] = synced[d] \/ (synced'[d] = hour /\ hour < synced[d]))
    BY DEF EntriesTyped
  <1>3. PICK s, p, s1, p1 :
          /\ s = synced[<<n, "sanctions">>] /\ p = synced[<<n, "pep">>]
          /\ s1 = synced'[<<n, "sanctions">>] /\ p1 = synced'[<<n, "pep">>]
    OBVIOUS
  <1>4. /\ s \in Nat /\ p \in Nat /\ hour \in Nat
        /\ (s1 = s \/ (s1 = hour /\ hour < s)) /\ (p1 = p \/ (p1 = hour /\ hour < p))
    BY <1>1, <1>2, <1>3
  <1>5. /\ Since(n) = IF s <= p THEN s ELSE p
        /\ Since(n)' = IF s1 <= p1 THEN s1 ELSE p1
    BY <1>3 DEF Since
  <1> QED
    BY <1>4, <1>5

(* Whether lists are being synchronised.                                   *)
LEMMA SyncingIsSync == Syncing <=> ~NoSync
  <1>1. Reading - 1 = 4
    BY ReadingIsFive
  <1> QED
    BY <1>1 DEF Syncing, NoSync

(* No synchronisation begins but by SyncStart.                             *)
LEMMA NoSyncStays ==
  ASSUME ScreenTyped, NoSync, NEW j \in Job,
         \/ Fetch(j) \/ IndexDocument(j) \/ RefreshAll(j) \/ Scan(j)
         \/ SyncOnly(j) \/ RescreenStart(j)
         \/ RescreenRead(j) \/ Rescreen(j) \/ RescreenCommit(j)
  PROVE  NoSync'
  <1> USE DEF ScreenTyped
  <1>1. job[j].step \notin 1..4
    BY DEF NoSync
  <1>2. ~(Fetch(j) \/ IndexDocument(j) \/ RefreshAll(j) \/ Scan(j))
    <2>1. ~On(j, "fetch") /\ ~On(j, "index") /\ ~On(j, "refresh") /\ ~On(j, "scan")
      BY <1>1, Positions
    <2> QED
      BY <2>1 DEF Fetch, IndexDocument, RefreshAll, Scan
  <1>3. job'[j].step \in {0, 5, 6} /\ \A i \in Job \ {j} : job'[i] = job[i]
    <2>1. CASE SyncOnly(j) \/ RescreenStart(j) \/ RescreenCommit(j)
      <3>1. PICK step \in {0, 5} : \E got : Takes(j, Duty(step, got, {}, {}, {}, FALSE))
        BY <2>1, ReadingIsFive DEF SyncOnly, RescreenStart, RescreenCommit, NoJob
      <3>2. job'[j].step = step /\ \A i \in Job \ {j} : job'[i] = job[i]
        BY <3>1 DEF Takes, Duty, JobsTyped
      <3> QED
        BY <3>2
    <2>2. CASE RescreenRead(j)
      <3>1. PICK rows \in SUBSET Customers :
              Takes(j, Duty(job[j].step + 1, job[j].got, rows, rows, {}, FALSE))
        BY <2>2 DEF RescreenRead
      <3>2. job'[j].step = job[j].step + 1 /\ \A i \in Job \ {j} : job'[i] = job[i]
        BY <3>1 DEF Takes, Duty, JobsTyped
      <3>3. job[j].step = 5
        BY <2>2, Positions DEF RescreenRead
      <3> QED
        BY <3>2, <3>3
    <2>3. CASE Rescreen(j)
      <3>1. PICK todo, hits, aborted : Takes(j, Duty(job[j].step, job[j].got, todo, job[j].rows, hits, aborted))
        BY <2>3 DEF Rescreen, Left
      <3>2. job'[j].step = job[j].step /\ \A i \in Job \ {j} : job'[i] = job[i]
        BY <3>1, DutyTaken
      <3>3. job[j].step = 6
        BY <2>3, Positions DEF Rescreen
      <3> QED
        BY <3>2, <3>3
    <2> QED
      BY <1>2, <2>1, <2>2, <2>3
  <1>4. ASSUME NEW i \in Job PROVE job'[i].step \notin 1..4
    <2>1. CASE i = j
      BY <2>1, <1>3
    <2>2. CASE i # j
      BY <2>2, <1>3 DEF NoSync
    <2> QED
      BY <2>1, <2>2
  <1> QED
    BY <1>4 DEF NoSync

(* A request that does nothing, while nothing is synchronised.             *)
LEMMA ToldStays ==
  ASSUME NEW q \in Query, Told(query[q]), query'[q] = query[q], visible \subseteq visible',
         UNCHANGED <<hour, synced>>, NoSync => NoSync'
  PROVE  Told(query[q])'
  BY DEF Told, InView, Since

(* Kept answers that stay.                                                 *)
LEMMA KeptStays ==
  ASSUME UNCHANGED synced, \A e \in results : Kept(e), results' \subseteq results
  PROVE  \A e \in results' : Kept(e)'
  BY DEF Kept, Since

(* What the jobs do to the answers.                                        *)
LEMMA AnswersOfJobs ==
  ASSUME ScreenTyped, IndexedWell, NoneMissed, mishaps' \subseteq {"sql"},
         "index" \notin mishaps, visible \subseteq visible', NEW j \in Job,
         \/ SyncStart(j) \/ Fetch(j) \/ IndexDocument(j) \/ RefreshAll(j) \/ Scan(j)
         \/ SyncOnly(j) \/ RescreenStart(j)
         \/ RescreenRead(j) \/ Rescreen(j) \/ RescreenCommit(j)
  PROVE  NoneMissed'
  <1> USE DEF ScreenTyped
  <1>1. CASE SyncStart(j)
    <2>1. UNCHANGED <<hour, synced, results, overlooked, visible>>
      BY <1>1 DEF SyncStart, indexVars
    <2>2. query' = [q \in Query |-> IF query[q].at = "store"
                      THEN Search("store", query[q].name, query[q].since, query[q].found,
                                  ~query[q].found)
                      ELSE query[q]]
      BY <1>1 DEF SyncStart
    <2>3. ASSUME NEW q \in Query PROVE Told(query[q])'
      <3>1. CASE query[q].at = "store"
        <4>1. /\ query'[q].at = "store" /\ query'[q].name = query[q].name
              /\ query'[q].since = query[q].since /\ query'[q].found = query[q].found
              /\ query'[q].overlapped = (~query[q].found)
          BY <2>2, <3>1 DEF Search
        <4>2. Told(query[q])
          BY DEF NoneMissed
        <4>3. ~query[q].found => query'[q].overlapped
          BY <4>1, Zenon
        <4> QED
          BY <2>1, <3>1, <4>1, <4>2, <4>3 DEF Told, Since, InView
      <3>2. CASE query[q].at # "store"
        <4>1. query'[q] = query[q]
          BY <2>2, <3>2
        <4>2. Told(query[q])
          BY DEF NoneMissed
        <4> QED
          BY <2>1, <3>2, <4>1, <4>2 DEF Told, InView, Since
      <3> QED
        BY <3>1, <3>2
    <2>4. \A e \in results' : Kept(e)'
      BY <2>1, KeptStays DEF NoneMissed
    <2> QED
      BY <2>1, <2>3, <2>4 DEF NoneMissed
  <1>2. CASE Scan(j)
    <2>1. results' = {} /\ UNCHANGED <<query, overlooked, hour, visible>>
      BY <1>2 DEF Scan, Mishap, answerVars, indexVars
    <2>2. synced' = [d \in Document |->
                     IF d \in job[j].got /\ hour < synced[d] THEN hour ELSE synced[d]]
      BY <1>2 DEF Scan
    <2>3. ~NoSync
      BY <1>2, Positions DEF Scan, NoSync
    <2>4. ASSUME NEW q \in Query PROVE Told(query[q])'
      <3>1. Told(query[q]) /\ query'[q] = query[q]
        BY <2>1 DEF NoneMissed
      <3>2. query[q].at # "idle" => query[q].name \in Name
        BY DEF QueriesTyped
      <3>3. query[q].at = "store" => Since(query[q].name)' \in {hour, Since(query[q].name)}
        <4> HIDE DEF Since
        <4>1. ASSUME NEW n \in Name PROVE Since(n)' = hour \/ Since(n)' = Since(n)
          BY <2>2, SinceScanned
        <4>2. CASE query[q].at # "store"
          BY <4>2
        <4>3. CASE query[q].at = "store"
          <5>1. PICK n \in Name : n = query[q].name
            BY <3>2, <4>3
          <5>2. query'[q].name = n
            BY <3>1, <5>1
          <5> QED
            BY <2>1, <4>1, <5>1
        <4> QED
          BY <4>2, <4>3
      <3> QED
        BY <2>1, <2>3, <3>1, <3>3 DEF Told, InView
    <2> QED
      BY <2>1, <2>4 DEF NoneMissed
  <1>3. CASE \/ Fetch(j) \/ IndexDocument(j) \/ RefreshAll(j)
             \/ SyncOnly(j) \/ RescreenStart(j)
             \/ RescreenRead(j) \/ Rescreen(j) \/ RescreenCommit(j)
    <2>1. UNCHANGED <<hour, synced, results, query, overlooked>>
      BY <1>3 DEF Fetch, IndexDocument, RefreshAll, SyncOnly, RescreenStart, RescreenRead, Rescreen,
         RescreenCommit, answerVars
    <2>2. NoSync => NoSync'
      BY <1>3, NoSyncStays
    <2>3. ASSUME NEW q \in Query PROVE Told(query[q])'
      <3>1. Told(query[q]) /\ query'[q] = query[q] /\ UNCHANGED <<hour, synced>>
        BY <2>1 DEF NoneMissed
      <3> QED
        BY <2>2, <3>1, ToldStays
    <2>4. \A e \in results' : Kept(e)'
      BY <2>1, KeptStays DEF NoneMissed
    <2> QED
      BY <2>1, <2>3, <2>4 DEF NoneMissed
  <1> QED
    BY <1>1, <1>2, <1>3

(* The other requests keep what they are told while one goes on.           *)
LEMMA ToldOthers ==
  ASSUME NEW q \in Query, \A r \in Query \ {q} : query'[r] = query[r],
         \A r \in Query : Told(query[r]), Told(query[q])',
         UNCHANGED <<hour, synced, job, visible>>
  PROVE  \A r \in Query : Told(query[r])'
  <1> SUFFICES ASSUME NEW r \in Query PROVE Told(query[r])'
    OBVIOUS
  <1>1. CASE r = q
    BY <1>1
  <1>2. CASE r # q
    <2>1. query'[r] = query[r] /\ Told(query[r])
      BY <1>2
    <2> QED
      BY <2>1 DEF Told, NoSync, Since, InView
  <1> QED
    BY <1>1, <1>2

(* What the requests do to the answers.                                    *)
LEMMA AnswersOfQueries ==
  ASSUME ScreenTyped, NoneMissed, IndexedWell, mishaps' \subseteq {"sql"}, "index" \notin mishaps,
         NEW q \in Query,
         (\E n \in Name : SearchStart(q, n)) \/ SearchBoth(q) \/ SearchStore(q)
  PROVE  NoneMissed'
  <1> USE DEF ScreenTyped
  <1>0. \A n \in Name : Since(n) = NotYet \/ InView(n)
    BY SinceShown DEF IndexedWell
  <1>1. ASSUME NEW n \in Name, SearchStart(q, n) PROVE NoneMissed'
    <2>0. UNCHANGED <<hour, synced, job, visible, results>>
      BY <1>1 DEF SearchStart, indexVars
    <2>1. CASE \E e \in results : e.name = n /\ Answers(n, e.found, Since(n), e.overlapped) /\ UNCHANGED query
      <3>1. PICK e \in results : e.name = n /\ Answers(n, e.found, Since(n), e.overlapped) /\ UNCHANGED query
        BY <2>1
      <3>2. Kept(e) /\ hour <= e.at + 1
        BY DEF NoneMissed, EntriesTyped
      <3>3. overlooked' = overlooked
        BY <3>1, <3>2 DEF Answers, Explained, Kept
      <3>4. \A r \in Query : Told(query[r])'
        <4> SUFFICES ASSUME NEW r \in Query PROVE Told(query[r])'
          OBVIOUS
        <4>1. Told(query[r]) /\ UNCHANGED query
          BY <3>1 DEF NoneMissed
        <4> QED
          BY <2>0, <4>1 DEF Told, NoSync, InView, Since
      <3> QED
        BY <2>0, <3>3, <3>4, KeptStays DEF NoneMissed
    <2>2. CASE Asks(q, Search("index", n, Since(n), FALSE, FALSE)) /\ UNCHANGED overlooked
      <3>1. /\ query'[q].at = "index" /\ query'[q].name = n /\ query'[q].since = Since(n)
            /\ \A r \in Query \ {q} : query'[r] = query[r]
        BY <2>2 DEF Asks, Search, QueriesTyped
      <3>2. Told(query[q])'
        <4>1. InView(n)' <=> InView(n)
          BY <2>0 DEF InView
        <4> QED
          BY <1>0, <3>1, <4>1 DEF Told
      <3>3. \A r \in Query : Told(query[r])'
        BY <2>0, <3>1, <3>2, ToldOthers DEF NoneMissed
      <3> QED
        BY <2>0, <2>2, <3>3, KeptStays DEF NoneMissed
    <2> QED
      BY <1>1, <2>1, <2>2 DEF SearchStart
  <1>2. CASE SearchBoth(q)
    <2>0. UNCHANGED <<hour, synced, job, visible, results, overlooked>> /\ query[q].at = "index"
      BY <1>2 DEF SearchBoth, indexVars
    <2>1. PICK up \in [Index -> BOOLEAN] :
            /\ IF \A i \in Index : up[i] THEN UNCHANGED mishapVars ELSE Mishap("es")
            /\ LET found == \E i \in Index : query[q].name \in Finds(i, up[i])
               IN Asks(q, Search("store", query[q].name, query[q].since, found, ~found /\ Syncing))
      BY <1>2, Zenon DEF SearchBoth
    <2>3. \A i \in Index : up[i]
      <3>1. ~Mishap("es")
        BY DEF Mishap
      <3> QED
        BY <2>1, <3>1, Zenon
    <2>4. PICK found, overlapped :
            /\ Asks(q, Search("store", query[q].name, query[q].since, found, overlapped))
            /\ found <=> \E i \in Index : query[q].name \in Finds(i, up[i])
            /\ ~found => overlapped \/ ~Syncing
      BY <2>1, Zenon
    <2>5. Asks(q, Search("store", query[q].name, query[q].since, found, overlapped))
      BY <2>4, Zenon
    <2>2. /\ query'[q].at = "store" /\ query'[q].name = query[q].name
          /\ query'[q].since = query[q].since
          /\ query'[q].found = found /\ query'[q].overlapped = overlapped
          /\ \A r \in Query \ {q} : query'[r] = query[r]
      BY <2>5, QueryAsked
    <2>6. ~query'[q].found => ~InView(query[q].name)
      <3>1. query[q].name \in Name
        BY <2>0 DEF QueriesTyped
      <3>2. ASSUME InView(query[q].name) PROVE \E i \in Index : query[q].name \in Finds(i, up[i])
        <4>1. PICK i \in Index : <<query[q].name, i>> \in visible
          BY <3>2, Zenon DEF InView
        <4>2. query[q].name \in Finds(i, up[i])
          BY <2>3, <3>1, <4>1 DEF Finds
        <4> QED
          BY <4>2, Zenon
      <3> QED
        BY <2>2, <2>4, <3>2, Zenon
    <2>7. ~query'[q].found => query'[q].overlapped \/ NoSync
      BY <2>2, <2>4, SyncingIsSync, Zenon
    <2>8. Told(query[q])'
      <3>1. query[q].name \in Name /\ Told(query[q])
        BY <2>0 DEF QueriesTyped, NoneMissed
      <3>2. NoSync' <=> NoSync
        BY <2>0 DEF NoSync
      <3>3. PICK n \in Name : n = query[q].name
        BY <3>1
      <3>4. Since(n)' = Since(n) /\ (InView(n)' <=> InView(n))
        BY <2>0 DEF Since, InView
      <3> QED
        BY <1>0, <2>0, <2>2, <2>6, <2>7, <3>1, <3>2, <3>3, <3>4 DEF Told
    <2>9. \A r \in Query : Told(query[r])'
      BY <2>0, <2>2, <2>8, ToldOthers DEF NoneMissed
    <2> QED
      BY <2>0, <2>9, KeptStays DEF NoneMissed
  <1>3. CASE SearchStore(q)
    <2>0. /\ UNCHANGED <<hour, synced, job, visible>>
          /\ query[q].at = "store" /\ query[q].name \in Name /\ Told(query[q])
      BY <1>3 DEF SearchStore, indexVars, QueriesTyped, NoneMissed
    <2>1. overlooked' = overlooked
      BY <1>3, <2>0 DEF SearchStore, Answers, Told
    <2>2. Asks(q, Search("idle", "", NotYet, FALSE, FALSE))
      BY <1>3 DEF SearchStore, NoQuery
    <2>3. query'[q].at = "idle" /\ \A r \in Query \ {q} : query'[r] = query[r]
      BY <2>2 DEF Asks, Search, QueriesTyped
    <2>4. Told(query[q])'
      BY <2>3 DEF Told
    <2>5. \A r \in Query : Told(query[r])'
      BY <2>0, <2>3, <2>4, ToldOthers DEF NoneMissed
    <2>6. ASSUME NEW e \in results' PROVE Kept(e)'
      <3>1. CASE e \in results
        BY <3>1, <2>0 DEF NoneMissed, Kept, Since
      <3>2. CASE e = [name |-> query[q].name, found |-> query[q].found, at |-> hour,
                      overlapped |-> query[q].overlapped]
        <4>1. /\ e.name = query[q].name /\ e.at = hour
              /\ e.found = query[q].found /\ e.overlapped = query[q].overlapped
          BY <3>2
        <4>2. Since(e.name)' = Since(query[q].name)
          BY <2>0, <4>1 DEF Since
        <4> QED
          BY <2>0, <4>1, <4>2 DEF Kept, Told
      <3> QED
        BY <1>3, <3>1, <3>2 DEF SearchStore
    <2> QED
      BY <2>1, <2>5, <2>6 DEF NoneMissed
  <1> QED
    BY <1>1, <1>2, <1>3

(* The answers step by step.                                               *)
LEMMA AnswersStay ==
  ScreenTyped /\ IndexedWell /\ AnswersWell /\ [ScreenNext]_screenVars => AnswersWell'
  <1> SUFFICES ASSUME ScreenTyped, IndexedWell, AnswersWell, [ScreenNext]_screenVars,
                      mishaps' \subseteq {"sql"}
      PROVE  NoneMissed'
    BY DEF AnswersWell
  <1>0. /\ NoneMissed /\ "index" \notin mishaps /\ visible \subseteq visible'
    BY Grows DEF AnswersWell
  <1>1. ASSUME NEW j \in Job,
           \/ SyncStart(j) \/ Fetch(j) \/ IndexDocument(j) \/ RefreshAll(j) \/ Scan(j)
           \/ SyncOnly(j) \/ RescreenStart(j)
           \/ RescreenRead(j) \/ Rescreen(j) \/ RescreenCommit(j)
        PROVE NoneMissed'
    BY <1>0, <1>1, AnswersOfJobs
  <1>2. ASSUME NEW q \in Query, \/ \E n \in Name : SearchStart(q, n)
                                \/ SearchBoth(q) \/ SearchStore(q)
        PROVE NoneMissed'
    BY <1>0, <1>2, AnswersOfQueries
  <1>3. ASSUME (\E f \in Feed, n \in Name : Publish(f, n)) \/ (\E e \in results : Expire(e)) \/ AutoRefresh
               \/ UNCHANGED screenVars
        PROVE NoneMissed'
    <2>1. UNCHANGED <<hour, synced, job, query, overlooked>> /\ results' \subseteq results
      BY <1>3 DEF Publish, Expire, AutoRefresh, screenVars, answerVars
    <2>2. ASSUME NEW q \in Query PROVE Told(query[q])'
      <3>1. Told(query[q]) /\ query'[q] = query[q] /\ UNCHANGED <<hour, synced>>
        BY <1>0, <2>1 DEF NoneMissed
      <3>2. NoSync => NoSync'
        BY <2>1 DEF NoSync
      <3> QED
        BY <1>0, <3>1, <3>2, ToldStays
    <2> QED
      BY <1>0, <2>1, <2>2, KeptStays DEF NoneMissed
  <1>4. CASE NextHour
    <2>1. UNCHANGED <<synced, query, overlooked>> /\ results' \subseteq results
      BY <1>4 DEF NextHour, answerVars
    <2>2. \A q \in Query : query[q].at = "idle"
      <3>1. \A q \in Query : query[q] = NoQuery
        BY <1>4 DEF NextHour
      <3>2. NoQuery.at = "idle"
        BY DEF NoQuery, Search
      <3> QED
        BY <3>1, <3>2
    <2>3. \A q \in Query : Told(query[q])'
      BY <2>1, <2>2 DEF Told, InView
    <2> QED
      BY <1>0, <2>1, <2>3, KeptStays DEF NoneMissed
  <1> QED
    BY <1>1, <1>2, <1>3, <1>4 DEF ScreenNext

(* A name that a synchronisation which is over has fetched is found, and   *)
(* an account whose owner is listed is escalated (ListedIsTreated).        *)
THEOREM ListedTreated == ScreenSpec => []ListedIsTreated
  <1>1. ScreenInit => IndexedWell /\ RescreensWell /\ AnswersWell
    <2> SUFFICES ASSUME ScreenInit PROVE IndexedWell /\ RescreensWell /\ AnswersWell
      OBVIOUS
    <2>1. IndexedWell
      BY DEF ScreenInit, IndexedWell, NoJob, Duty, Reached
    <2>2. RescreensWell
      BY DEF ScreenInit, RescreensWell, NoJob, Duty, Combed
    <2>3. AnswersWell
      BY DEF ScreenInit, AnswersWell, NoneMissed, NoQuery, Search, Told
    <2> QED
      BY <2>1, <2>2, <2>3
  <1>2. ScreenTyped /\ [ScreenNext]_screenVars => ScreenTyped'
    BY JobsStay, QueriesStay, IndicesStay, EntriesStay DEF ScreenTyped
  <1>3. RescreensWell /\ AnswersWell => ListedIsTreated
    BY DEF RescreensWell, AnswersWell, NoneMissed, ListedIsTreated, ListedIsFound, ListedIsEscalated
  <1> QED
    BY <1>1, <1>2, <1>3, ScreenStarts, IndexedStays, CombedStays, AnswersStay, PTL DEF ScreenSpec
-----------------------------------------------------------------------------
(* The lockout.  In a minute between INCR and what follows it, the counter *)
(* is past the threshold only by the logins that are about to lock; once   *)
(* the lock is set, only logins past the check can add to it, and the      *)
(* counter ends no later than the lock.                                    *)
Doing(what) == {l \in Login : login[l] = what}

Clocks ==
  /\ minute \in Nat /\ killed \in Nat
  /\ attemptsEnd = Never \/ (minute < attemptsEnd /\ attemptsEnd <= minute + Duration)
  /\ lockEnd = Never \/ (minute < lockEnd /\ lockEnd <= minute + Duration)

AttemptsCounted ==
  /\ lockEnd = Never =>
       attempts < Threshold \/ attempts < Threshold + Cardinality(Doing("lock"))
  /\ lockEnd # Never =>
       attempts + Cardinality(Doing("verify")) < Threshold + Cardinality(Login)

CounterEnds ==
  /\ attempts > 0 => attemptsEnd # Never \/ Doing("expire") # {}
  /\ attempts >= Threshold /\ Doing("lock") = {} =>
       IF Doing("expire") = {} THEN attemptsEnd <= lockEnd ELSE lockEnd = minute + Duration

LockoutInv == LockoutTypeOK /\ Clocks /\ (killed = 0 => AttemptsCounted /\ CounterEnds)

LEMMA DoingFinite ==
  ASSUME NEW S, S \subseteq Login
  PROVE  /\ IsFiniteSet(S) /\ Cardinality(S) \in Nat /\ Cardinality(S) <= Cardinality(Login)
         /\ Cardinality(Login) \in Nat
  BY LockoutAssumption, FS_Subset, FS_CardinalityType

(* One login goes from one step to another.                                *)
LEMMA OneMoves ==
  ASSUME LockoutTypeOK, NEW l \in Login, NEW from, NEW to, Step(l, from, to), from # to,
         to \in {"idle", "verify", "expire", "lock"}
  PROVE  /\ Doing(from)' = Doing(from) \ {l} /\ l \in Doing(from)
         /\ Doing(to)' = Doing(to) \cup {l} /\ l \notin Doing(to)
         /\ \A w \in {"idle", "verify", "expire", "lock"} :
              w # from /\ w # to => Doing(w)' = Doing(w)
  BY DEF Step, Doing, LockoutTypeOK

LEMMA LockoutTypes ==
  ASSUME LockoutInv, [LockoutNext]_lockoutVars
  PROVE  LockoutTypeOK' /\ Clocks'
  <1> USE LockoutAssumption DEF LockoutInv, LockoutTypeOK, Clocks, Never, Step
  <1>1. CASE Minute
    BY <1>1 DEF Minute
  <1>2. ASSUME NEW l \in Login, check_account_lockout(l)
        PROVE  LockoutTypeOK' /\ Clocks'
    BY <1>2 DEF check_account_lockout
  <1>3. ASSUME NEW l \in Login, record_failed_login(l)
        PROVE  LockoutTypeOK' /\ Clocks'
    BY <1>3 DEF record_failed_login
  <1>4. ASSUME NEW l \in Login, SetExpiry(l)
        PROVE  LockoutTypeOK' /\ Clocks'
    BY <1>4 DEF SetExpiry, CounterEnd
  <1>5. ASSUME NEW l \in Login, SetLock(l)
        PROVE  LockoutTypeOK' /\ Clocks'
    BY <1>5 DEF SetLock
  <1>6. ASSUME NEW l \in Login, reset_failed_logins(l) \/ LoginLost(l)
        PROVE  LockoutTypeOK' /\ Clocks'
    BY <1>6 DEF reset_failed_logins, LoginLost
  <1>7. CASE UNCHANGED lockoutVars
    BY <1>7 DEF lockoutVars
  <1> QED
    BY <1>1, <1>2, <1>3, <1>4, <1>5, <1>6, <1>7 DEF LockoutNext

LEMMA LockoutStep ==
  ASSUME LockoutInv, [LockoutNext]_lockoutVars, killed' = 0
  PROVE  AttemptsCounted' /\ CounterEnds'
  <1>0. /\ minute \in Nat /\ attempts \in Nat /\ attemptsEnd \in Nat /\ lockEnd \in Nat
        /\ Threshold \in Nat /\ Threshold >= 2 /\ Duration \in Nat /\ Duration >= 1
        /\ Cardinality(Login) \in Nat /\ Clocks /\ LockoutTypeOK
    BY LockoutAssumption, DoingFinite DEF LockoutInv, LockoutTypeOK, Clocks
  <1>k. killed = 0 /\ AttemptsCounted /\ CounterEnds
    BY <1>0 DEF LockoutInv, Clocks, LockoutNext, Minute, check_account_lockout,
         record_failed_login, SetExpiry, SetLock, reset_failed_logins, LoginLost, lockoutVars
  <1>f. \A w, u \in {"verify", "lock", "expire"} :
          /\ IsFiniteSet(Doing(w)) /\ Cardinality(Doing(w)) \in Nat
          /\ IsFiniteSet(Doing(w)') /\ Cardinality(Doing(w)') \in Nat
          /\ Cardinality(Doing(w)) <= Cardinality(Login)
          /\ w # u => Cardinality(Doing(w)) + Cardinality(Doing(u)) <= Cardinality(Login)
    <2> TAKE w, u \in {"verify", "lock", "expire"}
    <2>1. Doing(w) \subseteq Login /\ Doing(u) \subseteq Login /\ Doing(w)' \subseteq Login
          /\ Doing(w) \cup Doing(u) \subseteq Login
          /\ (w # u => Doing(w) \cap Doing(u) = {})
      BY DEF Doing
    <2>2. /\ IsFiniteSet(Doing(w)) /\ Cardinality(Doing(w)) \in Nat
          /\ IsFiniteSet(Doing(w)') /\ Cardinality(Doing(w)') \in Nat
          /\ IsFiniteSet(Doing(u)) /\ Cardinality(Doing(u)) \in Nat
          /\ Cardinality(Doing(w)) <= Cardinality(Login)
          /\ Cardinality(Doing(w) \cup Doing(u)) <= Cardinality(Login)
      BY <2>1, DoingFinite
    <2>3. CASE w # u
      <3>1. Cardinality(Doing(w) \cup Doing(u))
              = Cardinality(Doing(w)) + Cardinality(Doing(u)) - Cardinality({})
        BY <2>1, <2>2, <2>3, FS_Union
      <3>2. Cardinality({}) = 0
        BY FS_EmptySet
      <3> QED
        BY <2>2, <3>1, <3>2
    <2> QED
      BY <2>2, <2>3
  <1>e. Cardinality(Doing("lock")) = 0 <=> Doing("lock") = {}
    BY <1>f, FS_EmptySet
  <1>1. CASE Minute
    <2>1. /\ \A w \in {"verify", "lock", "expire"} : Doing(w)' = Doing(w)
          /\ Doing("lock") = {} /\ Doing("expire") = {}
      BY <1>1 DEF Minute, Doing
    <2>2. attempts' \in {0, attempts} /\ (attempts' = attempts \/ attemptsEnd = minute + 1)
      BY <1>1 DEF Minute
    <2>3. lockEnd = minute + 1 /\ attempts >= Threshold => attempts' = 0
      BY <1>0, <1>1, <1>k, <2>1 DEF Minute, CounterEnds, Clocks, Never
    <2>4. AttemptsCounted'
      BY <1>0, <1>1, <1>k, <1>f, <1>e, <2>1, <2>2, <2>3 DEF Minute, AttemptsCounted, Never
    <2>5. CounterEnds'
      BY <1>0, <1>1, <1>k, <1>f, <1>e, <2>1, <2>2, <2>3 DEF Minute, AttemptsCounted, CounterEnds, Never, Clocks
    <2> QED
      BY <2>4, <2>5
  <1>2. ASSUME NEW l \in Login, check_account_lockout(l)
        PROVE  AttemptsCounted' /\ CounterEnds'
    <2>1. \A w \in {"lock", "expire"} : Doing(w)' = Doing(w)
      BY <1>0, <1>2, OneMoves DEF check_account_lockout
    <2> QED
      BY <1>2, <1>k, <2>1 DEF check_account_lockout, AttemptsCounted, CounterEnds
  <1>3. ASSUME NEW l \in Login, record_failed_login(l)
        PROVE  AttemptsCounted' /\ CounterEnds'
    <2>1. CASE attempts = 0
      <3>1. Doing("verify")' = Doing("verify") \ {l} /\ l \in Doing("verify")
            /\ Doing("expire")' = Doing("expire") \cup {l}
            /\ Doing("lock")' = Doing("lock")
        BY <1>0, <1>3, <2>1, OneMoves DEF record_failed_login
      <3>2. Cardinality(Doing("verify")') = Cardinality(Doing("verify")) - 1
        BY <1>f, <3>1, FS_RemoveElement
      <3>3. attempts' = 1 /\ lockEnd' = lockEnd /\ attempts' < Threshold
        BY <1>0, <1>3, <2>1 DEF record_failed_login
      <3>4. AttemptsCounted'
        BY <1>0, <1>k, <1>f, <2>1, <3>2, <3>3 DEF AttemptsCounted
      <3>5. CounterEnds'
        <4>1. Doing("expire")' # {} /\ ~(attempts' >= Threshold)
          BY <1>0, <3>1, <3>3
        <4> QED
          BY <4>1 DEF CounterEnds
      <3> QED
        BY <3>4, <3>5
    <2>2. CASE attempts # 0 /\ attempts + 1 >= Threshold
      <3>1. Doing("verify")' = Doing("verify") \ {l} /\ l \in Doing("verify")
            /\ Doing("expire")' = Doing("expire")
            /\ Doing("lock")' = Doing("lock") \cup {l} /\ l \notin Doing("lock")
        BY <1>0, <1>3, <2>2, OneMoves DEF record_failed_login
      <3>2. Cardinality(Doing("verify")') = Cardinality(Doing("verify")) - 1
            /\ Cardinality(Doing("lock")') = Cardinality(Doing("lock")) + 1
        BY <1>f, <3>1, FS_RemoveElement, FS_AddElement
      <3> QED
        BY <1>0, <1>3, <1>k, <1>f, <2>2, <3>1, <3>2 DEF record_failed_login, AttemptsCounted, CounterEnds
    <2>3. CASE attempts # 0 /\ ~(attempts + 1 >= Threshold)
      <3>1. Doing("verify")' = Doing("verify") \ {l} /\ l \in Doing("verify")
            /\ Doing("expire")' = Doing("expire")
            /\ Doing("lock")' = Doing("lock")
        BY <1>0, <1>3, <2>3, OneMoves DEF record_failed_login
      <3>2. Cardinality(Doing("verify")') = Cardinality(Doing("verify")) - 1
        BY <1>f, <3>1, FS_RemoveElement
      <3> QED
        BY <1>0, <1>3, <1>k, <1>f, <2>3, <3>1, <3>2 DEF record_failed_login, AttemptsCounted, CounterEnds
    <2> QED
      BY <2>1, <2>2, <2>3
  <1>4. ASSUME NEW l \in Login, SetExpiry(l)
        PROVE  AttemptsCounted' /\ CounterEnds'
    <2>1. Doing("verify")' = Doing("verify") /\ Doing("lock")' = Doing("lock")
          /\ l \in Doing("expire")
      BY <1>0, <1>4, OneMoves DEF SetExpiry
    <2> QED
      BY <1>0, <1>4, <1>k, <1>f, <2>1 DEF SetExpiry, CounterEnd, AttemptsCounted, CounterEnds, Never
  <1>5. ASSUME NEW l \in Login, SetLock(l)
        PROVE  AttemptsCounted' /\ CounterEnds'
    <2>1. Doing("verify")' = Doing("verify") /\ Doing("expire")' = Doing("expire")
          /\ Doing("lock")' = Doing("lock") \ {l} /\ l \in Doing("lock")
      BY <1>0, <1>5, OneMoves DEF SetLock
    <2>2. Cardinality(Doing("verify")) + Cardinality(Doing("lock")) <= Cardinality(Login)
      BY <1>f
    <2>3. Cardinality(Doing("verify")) < Cardinality(Login)
      BY <1>0, <1>f, <1>e, <2>1, <2>2
    <2>4. AttemptsCounted'
      BY <1>0, <1>5, <1>k, <1>f, <2>1, <2>2, <2>3 DEF SetLock, AttemptsCounted, Never
    <2>5. CounterEnds'
      BY <1>0, <1>5, <1>k, <2>1 DEF SetLock, CounterEnds, Clocks, Never
    <2> QED
      BY <2>4, <2>5
  <1>6. ASSUME NEW l \in Login, reset_failed_logins(l)
        PROVE  AttemptsCounted' /\ CounterEnds'
    <2>1. attempts' = 0 /\ lockEnd' = Never
      BY <1>6 DEF reset_failed_logins
    <2> QED
      BY <1>0, <2>1 DEF AttemptsCounted, CounterEnds
  <1>7. CASE UNCHANGED lockoutVars
    BY <1>7, <1>k DEF lockoutVars, AttemptsCounted, CounterEnds, Doing
  <1>8. ~ \E l \in Login : LoginLost(l)
    BY <1>k DEF LoginLost
  <1> QED
    BY <1>1, <1>2, <1>3, <1>4, <1>5, <1>6, <1>7, <1>8 DEF LockoutNext

LEMMA LockoutStarts == LockoutInit => LockoutInv
  BY LockoutAssumption DEF LockoutInit, LockoutInv, LockoutTypeOK, Clocks, AttemptsCounted, CounterEnds, Never

LEMMA LockoutKept == LockoutInv /\ [LockoutNext]_lockoutVars => LockoutInv'
  BY LockoutTypes, LockoutStep DEF LockoutInv

LEMMA LockoutBounds == LockoutInv => AttemptsBounded
  <1> SUFFICES ASSUME LockoutInv, killed = 0
               PROVE  attempts < Threshold + Cardinality(Login)
    BY DEF AttemptsBounded
  <1>1. Doing("lock") \subseteq Login /\ Doing("verify") \subseteq Login
    BY DEF Doing
  <1>2. Cardinality(Doing("lock")) <= Cardinality(Login) /\ Cardinality(Doing("lock")) \in Nat
        /\ Cardinality(Doing("verify")) \in Nat /\ Cardinality(Login) \in Nat
    BY <1>1, DoingFinite
  <1>3. CASE lockEnd # Never
    BY <1>2, <1>3, LockoutAssumption DEF LockoutInv, LockoutTypeOK, AttemptsCounted
  <1>4. CASE lockEnd = Never
    BY <1>2, <1>4, LockoutAssumption DEF LockoutInv, LockoutTypeOK, AttemptsCounted
  <1> QED
    BY <1>3, <1>4
-----------------------------------------------------------------------------
(* The second factor.  As long as no request wrote while another was under *)
(* way, what a request has read still stands when it writes: the row it    *)
(* read, a code nobody used, a setup none of whose codes was spent.  A     *)
(* code that was used is remembered until it is good no longer.            *)
Trying(v) == verify[v].at
Handed == (1..setups) \X Recovery
Shown == (1..setups) \X Nat

FactorTyped ==
  /\ time \in Nat /\ setups \in 0..MaxSetups
  /\ pending \in 0..setups /\ secret \in 0..setups
  /\ codes \subseteq Handed /\ spent \subseteq Handed /\ used \subseteq Shown
  /\ consumed \subseteq Shown \X Nat
  /\ verify \in [Verifier -> [at : {"idle", "enable", "enabled", "code", "recovery"},
                              setup : 0..setups, codes : SUBSET Handed,
                              code : Nat \cup Recovery]]
  /\ repeated \in BOOLEAN /\ raced \in BOOLEAN
  /\ \A v \in Verifier : Trying(v) # "idle" => verify[v].setup # 0
  /\ \A v \in Verifier : Trying(v) = "code" => verify[v].code \in Nat
  /\ \A v \in Verifier : Trying(v) = "recovery" => verify[v].code \in Recovery

(* A setup none of whose codes was spent.                                  *)
Unspent(s) == \A r \in Recovery : <<s, r>> \notin spent

ReadStands ==
  \A v \in Verifier :
    LET c == <<verify[v].setup, verify[v].code>> IN
    /\ Trying(v) = "enable" => Unspent(verify[v].setup)
    /\ Trying(v) = "code" => c \notin used /\ verify[v].code <= time + 1
    /\ Trying(v) = "recovery" => /\ verify[v].setup = secret /\ verify[v].codes = codes
                                 /\ c \in codes

Awaited ==
  pending # 0 => /\ Unspent(pending)
                 /\ pending = secret => \E v \in Verifier : Trying(v) = "enabled"

UsedRemembered ==
  \A c \in used : c[2] + 1 < time \/ \E e \in consumed : e[1] = c /\ e[2] >= c[2] + 2

LEMMA FactorTypes ==
  ASSUME FactorTyped, [FactorNext]_factorVars
  PROVE  FactorTyped'
  <1> USE FactorAssumption DEF FactorTyped, Trying, Handed, Shown, Tries, usage
  <1>1. ASSUME NEW v \in Verifier, EnableRead(v)
        PROVE  FactorTyped'
    BY <1>1 DEF EnableRead, Notes
  <1>2. ASSUME NEW v \in Verifier, EnableWrite(v)
        PROVE  FactorTyped'
    BY <1>2 DEF EnableWrite, Notes, Overlaps
  <1>3. ASSUME NEW v \in Verifier, EnableForget(v)
        PROVE  FactorTyped'
    BY <1>3 DEF EnableForget, Rests, Notes, Resting
  <1>4. ASSUME NEW v \in Verifier, VerifyCode(v)
        PROVE  FactorTyped'
    <2>1. PICK c \in AuthCode : Notes(v, Tries("code", secret, {}, c[2]))
      BY <1>4 DEF VerifyCode
    <2>2. c[2] \in Nat
      BY DEF AuthCode
    <2> QED
      BY <1>4, <2>1, <2>2 DEF VerifyCode, Notes
  <1>5. ASSUME NEW v \in Verifier, AcceptCode(v)
        PROVE  FactorTyped'
    <2>1. <<verify[v].setup, verify[v].code>> \in Shown
      BY <1>5 DEF AcceptCode
    <2> QED
      BY <1>5, <2>1 DEF AcceptCode, Rests, Notes, Resting, Overlaps, Remembered
  <1>6. ASSUME NEW v \in Verifier, VerifyRecovery(v)
        PROVE  FactorTyped'
    BY <1>6 DEF VerifyRecovery, Notes
  <1>7. ASSUME NEW v \in Verifier, ConsumeRecovery(v)
        PROVE  FactorTyped'
    BY <1>7 DEF ConsumeRecovery, Rests, Notes, Resting, Overlaps
  <1>8. CASE Setup
    <2>1. setups' = setups + 1 /\ setups' \in Nat /\ setups \in Nat
          /\ 1..setups \subseteq 1..setups' /\ 0..setups \subseteq 0..setups'
      BY <1>8 DEF Setup
    <2> QED
      BY <1>8, <2>1 DEF Setup
  <1>9. CASE PendingExpires
    BY <1>9 DEF PendingExpires
  <1>11. CASE Disable
    BY <1>11 DEF Disable
  <1>12. CASE Tick
    BY <1>12 DEF Tick
  <1>10. CASE UNCHANGED factorVars
    BY <1>10 DEF factorVars
  <1> HIDE DEF FactorTyped
  <1> QED
    BY <1>1, <1>2, <1>3, <1>4, <1>5, <1>6, <1>7, <1>8, <1>9, <1>10, <1>11, <1>12
    DEF FactorNext

Standing == ReadStands /\ Awaited /\ UsedRemembered /\ UsedOnce

(* A request that writes while none of the others is under way.            *)
LEMMA WritesAlone ==
  ASSUME FactorTyped, NEW v \in Verifier, Overlaps(v), ~raced', NEW try, Notes(v, try)
  PROVE  /\ ~raced
         /\ \A w \in Verifier : w # v => Trying(w) = "idle" /\ Trying(w)' = "idle"
         /\ verify[v]' = try
  BY DEF Overlaps, Notes, Trying, FactorTyped

(* A request that only notes what it has read.                             *)
LEMMA OneNotes ==
  ASSUME FactorTyped, NEW v \in Verifier, NEW try, Notes(v, try)
  PROVE  /\ \A w \in Verifier : w # v => verify[w]' = verify[w]
         /\ verify[v]' = try
  BY DEF Notes, FactorTyped

LEMMA FactorStep ==
  ASSUME FactorTyped, FactorTyped', ~raced => Standing, [FactorNext]_factorVars, ~raced'
  PROVE  Standing'
  <1> USE DEF Standing, Trying
  <1>1. ASSUME NEW v \in Verifier, EnableRead(v)
        PROVE  Standing'
    <2>0. ~raced /\ Standing /\ Notes(v, Tries("enable", pending, {}, 0)) /\ pending # 0
      BY <1>1 DEF EnableRead
    <2>1. /\ \A w \in Verifier : w # v => verify[w]' = verify[w]
          /\ verify[v]' = Tries("enable", pending, {}, 0) /\ verify[v].at = "idle"
      BY <1>1, <2>0, OneNotes DEF EnableRead
    <2>2. UNCHANGED <<time, pending, secret, codes, consumed, used, repeated, spent, raced>>
      BY <1>1 DEF EnableRead, usage
    <2>3. ReadStands'
      BY <2>0, <2>1, <2>2 DEF ReadStands, Awaited, Unspent, Tries
    <2>4. Awaited'
      BY <2>0, <2>1, <2>2 DEF Awaited, Unspent, Tries
    <2> QED
      BY <2>0, <2>2, <2>3, <2>4 DEF UsedRemembered, UsedOnce
  <1>2. ASSUME NEW v \in Verifier, EnableWrite(v)
        PROVE  Standing'
    <2>0. /\ Overlaps(v) /\ Notes(v, Tries("enabled", verify[v].setup, {}, 0))
          /\ verify[v].at = "enable" /\ codes' = {secret'} \X Recovery
          /\ secret' = verify[v].setup
      BY <1>2 DEF EnableWrite
    <2>1. /\ ~raced /\ \A w \in Verifier : w # v => verify[w].at = "idle" /\ verify[w].at' = "idle"
          /\ verify[v]' = Tries("enabled", verify[v].setup, {}, 0)
      BY <2>0, WritesAlone
    <2>2. UNCHANGED <<time, pending, consumed, used, repeated, spent>>
      BY <1>2 DEF EnableWrite, usage
    <2>3. ReadStands'
      BY <2>1 DEF ReadStands, Tries
    <2>4. Awaited'
      BY <2>1, <2>2 DEF Awaited, Unspent, Tries
    <2>5. UsedOnce'
      <3>1. Unspent(secret') /\ ~repeated
        BY <2>0, <2>1 DEF ReadStands, UsedOnce
      <3>2. spent \cap codes' = {} /\ codes' \subseteq {secret'} \X Recovery
        BY <2>0, <3>1 DEF Unspent
      <3> QED
        BY <2>2, <3>1, <3>2 DEF UsedOnce
    <2> QED
      BY <2>1, <2>2, <2>3, <2>4, <2>5 DEF UsedRemembered
  <1>3. ASSUME NEW v \in Verifier, EnableForget(v)
        PROVE  Standing'
    <2>0. ~raced /\ Standing /\ Notes(v, Resting) /\ pending' = 0
      BY <1>3 DEF EnableForget, Rests
    <2>1. /\ \A w \in Verifier : w # v => verify[w]' = verify[w]
          /\ verify[v]' = Resting
      BY <2>0, OneNotes
    <2>2. UNCHANGED <<time, secret, codes, consumed, used, repeated, spent, raced>>
      BY <1>3 DEF EnableForget, usage
    <2>3. ReadStands'
      BY <2>0, <2>1, <2>2 DEF ReadStands, Unspent, Resting, Tries
    <2> QED
      BY <2>0, <2>2, <2>3 DEF Awaited, UsedRemembered, UsedOnce
  <1>4. ASSUME NEW v \in Verifier, VerifyCode(v)
        PROVE  Standing'
    <2>0. PICK c \in AuthCode :
            /\ verify_totp_code(secret, c) /\ \A e \in consumed : e[1] # c
            /\ Notes(v, Tries("code", secret, {}, c[2]))
      BY <1>4 DEF VerifyCode
    <2>1. /\ \A w \in Verifier : w # v => verify[w]' = verify[w]
          /\ verify[v]' = Tries("code", secret, {}, c[2]) /\ verify[v].at = "idle"
      BY <1>4, <2>0, OneNotes DEF VerifyCode
    <2>2. UNCHANGED <<time, pending, secret, codes, consumed, used, repeated, spent, raced>>
      BY <1>4 DEF VerifyCode, usage
    <2>3. ~raced /\ Standing /\ time \in Nat
      BY <2>2 DEF FactorTyped
    <2>4. c = <<secret, c[2]>> /\ c[2] \in Nat /\ c[2] <= time + 1 /\ c[2] + 1 >= time
      BY <2>0, <2>3 DEF verify_totp_code, AuthCode
    <2>5. c \notin used
      BY <2>0, <2>3, <2>4 DEF UsedRemembered
    <2>6. ReadStands'
      BY <2>1, <2>2, <2>3, <2>4, <2>5 DEF ReadStands, Unspent, Tries
    <2>7. Awaited'
      BY <2>1, <2>2, <2>3 DEF Awaited, Unspent, Tries
    <2> QED
      BY <2>2, <2>3, <2>6, <2>7 DEF UsedRemembered, UsedOnce
  <1>5. ASSUME NEW v \in Verifier, AcceptCode(v)
        PROVE  Standing'
    <2> DEFINE c == <<verify[v].setup, verify[v].code>>
    <2>0. /\ Overlaps(v) /\ Notes(v, Resting) /\ verify[v].at = "code"
          /\ consumed' = {e \in consumed : e[1] # c} \cup {<<c, time + Remembered>>}
          /\ used' = used \cup {c} /\ repeated' = (repeated \/ c \in used)
      BY <1>5 DEF AcceptCode, Rests
    <2>1. /\ ~raced /\ \A w \in Verifier : w # v => verify[w].at = "idle" /\ verify[w].at' = "idle"
          /\ verify[v]' = Resting
      BY <2>0, WritesAlone
    <2>2. UNCHANGED <<time, pending, secret, codes, spent>>
      BY <1>5 DEF AcceptCode
    <2>3. ReadStands'
      BY <2>1 DEF ReadStands, Resting, Tries
    <2>4. Awaited'
      BY <2>0, <2>1, <2>2 DEF Awaited, Unspent
    <2>5. /\ c \notin used /\ c[2] <= time + 1
          /\ time \in Nat /\ verify[v].code \in Nat
      BY <2>0, <2>1 DEF ReadStands, FactorTyped
    <2>6. UsedOnce'
      BY <2>0, <2>1, <2>2, <2>5 DEF UsedOnce
    <2>7. UsedRemembered'
      <3>1. <<c, time + 3>> \in consumed' /\ time + 3 >= c[2] + 2
        BY <2>0, <2>5 DEF Remembered
      <3>2. ASSUME NEW d \in used'
            PROVE  d[2] + 1 < time \/ \E e \in consumed' : e[1] = d /\ e[2] >= d[2] + 2
        <4>1. CASE d = c
          BY <3>1, <4>1
        <4>2. CASE d # c
          BY <2>0, <2>1, <4>2 DEF UsedRemembered
        <4> QED
          BY <4>1, <4>2
      <3> QED
        BY <2>2, <3>2 DEF UsedRemembered
    <2> QED
      BY <2>3, <2>4, <2>6, <2>7
  <1>6. ASSUME NEW v \in Verifier, VerifyRecovery(v)
        PROVE  Standing'
    <2>0. PICK r \in Recovery :
            <<secret, r>> \in codes /\ Notes(v, Tries("recovery", secret, codes, r))
      BY <1>6 DEF VerifyRecovery
    <2>1. /\ \A w \in Verifier : w # v => verify[w]' = verify[w]
          /\ verify[v]' = Tries("recovery", secret, codes, r) /\ verify[v].at = "idle"
      BY <1>6, <2>0, OneNotes DEF VerifyRecovery
    <2>2. UNCHANGED <<time, pending, secret, codes, consumed, used, repeated, spent, raced>>
      BY <1>6 DEF VerifyRecovery, usage
    <2>3. ReadStands'
      BY <2>0, <2>1, <2>2 DEF ReadStands, Unspent, Tries
    <2>4. Awaited'
      BY <2>1, <2>2 DEF Awaited, Unspent, Tries
    <2> QED
      BY <2>2, <2>3, <2>4 DEF UsedRemembered, UsedOnce
  <1>7. ASSUME NEW v \in Verifier, ConsumeRecovery(v)
        PROVE  Standing'
    <2> DEFINE r == <<verify[v].setup, verify[v].code>>
    <2>0. /\ Overlaps(v) /\ Notes(v, Resting) /\ verify[v].at = "recovery"
          /\ codes' = verify[v].codes \ {r} /\ spent' = spent \cup {r}
      BY <1>7 DEF ConsumeRecovery, Rests
    <2>1. /\ ~raced /\ \A w \in Verifier : w # v => verify[w].at = "idle" /\ verify[w].at' = "idle"
          /\ verify[v]' = Resting
      BY <2>0, WritesAlone
    <2>2. UNCHANGED <<time, pending, secret, consumed, used, repeated>>
      BY <1>7 DEF ConsumeRecovery
    <2>3. ReadStands'
      BY <2>1 DEF ReadStands, Resting, Tries
    <2>4. verify[v].setup = secret /\ verify[v].codes = codes /\ r \in codes
      BY <2>0, <2>1 DEF ReadStands
    <2>5. pending # secret \/ pending = 0
      BY <2>0, <2>1 DEF Awaited
    <2>6. Awaited'
      BY <2>0, <2>1, <2>2, <2>4, <2>5 DEF Awaited, Unspent
    <2>7. UsedOnce'
      BY <2>0, <2>1, <2>2, <2>4 DEF UsedOnce
    <2> QED
      BY <2>1, <2>2, <2>3, <2>6, <2>7 DEF UsedRemembered
  <1>8. CASE Setup
    <2>1. /\ pending' = setups + 1
          /\ UNCHANGED <<time, secret, codes, consumed, verify, used, repeated, spent, raced>>
      BY <1>8 DEF Setup, usage
    <2>2. Unspent(setups + 1) /\ setups + 1 # secret
      BY DEF FactorTyped, Unspent, Handed
    <2>3. Awaited'
      BY <2>1, <2>2 DEF Awaited, Unspent
    <2> QED
      BY <2>1, <2>3 DEF ReadStands, Unspent, UsedRemembered, UsedOnce
  <1>9. CASE PendingExpires
    BY <1>9 DEF PendingExpires, usage, ReadStands, Unspent, Awaited, UsedRemembered, UsedOnce
  <1>10. CASE Disable
    <2>1. /\ ~raced /\ \A v \in Verifier : verify[v].at = "idle"
          /\ UNCHANGED <<time, pending, consumed, verify, used, repeated, spent>>
          /\ secret' = 0 /\ codes' = {}
      BY <1>10 DEF Disable, usage
    <2> QED
      BY <2>1 DEF ReadStands, Unspent, Awaited, UsedRemembered, UsedOnce
  <1>11. CASE Tick
    <2>1. /\ time' = time + 1 /\ consumed' = {e \in consumed : e[2] > time'}
          /\ UNCHANGED <<pending, secret, codes, verify, used, repeated, spent, raced>>
      BY <1>11 DEF Tick, usage
    <2>2. time \in Nat /\ ~raced /\ Standing
      BY <2>1 DEF FactorTyped
    <2>3. ReadStands'
      BY <2>1, <2>2 DEF ReadStands, Unspent, FactorTyped
    <2>4. ASSUME NEW c \in used
          PROVE  c[2] + 1 < time' \/ \E e \in consumed' : e[1] = c /\ e[2] >= c[2] + 2
      <3>0. c[2] \in Nat
        BY DEF FactorTyped, Shown
      <3>1. CASE c[2] + 1 < time
        BY <2>1, <2>2, <3>0, <3>1
      <3>2. CASE \E e \in consumed : e[1] = c /\ e[2] >= c[2] + 2
        <4>1. PICK e \in consumed : e[1] = c /\ e[2] >= c[2] + 2
          BY <3>2
        <4>2. e[2] \in Nat
          BY DEF FactorTyped
        <4>3. e[2] > time' \/ c[2] + 1 < time'
          BY <2>1, <2>2, <3>0, <4>1, <4>2
        <4> QED
          BY <2>1, <4>1, <4>3
      <3> QED
        BY <2>2, <3>1, <3>2 DEF UsedRemembered
    <2> QED
      BY <2>1, <2>2, <2>3, <2>4 DEF Awaited, Unspent, UsedRemembered, UsedOnce
  <1>12. CASE UNCHANGED factorVars
    BY <1>12 DEF factorVars, ReadStands, Unspent, Awaited, UsedRemembered, UsedOnce
  <1> QED
    BY <1>1, <1>2, <1>3, <1>4, <1>5, <1>6, <1>7, <1>8, <1>9, <1>10, <1>11, <1>12
    DEF FactorNext

FactorInv == FactorTyped /\ (~raced => Standing)

LEMMA FactorStarts == FactorInit => FactorInv
  <1> SUFFICES ASSUME FactorInit PROVE FactorInv
    OBVIOUS
  <1> USE DEF FactorInit
  <1>1. verify \in [Verifier -> {Resting}]
    OBVIOUS
  <1>2. \A v \in Verifier : verify[v].at = "idle"
    BY DEF Resting, Tries
  <1>3. FactorTyped
    <2>1. /\ time \in Nat /\ setups \in 0..MaxSetups /\ pending \in 0..setups
          /\ secret \in 0..setups
      BY FactorAssumption
    <2>3. /\ codes \subseteq Handed /\ spent \subseteq Handed
          /\ used \subseteq Shown /\ consumed \subseteq Shown \X Nat
      OBVIOUS
    <2>4. repeated \in BOOLEAN /\ raced \in BOOLEAN
      BY Zenon
    <2>2. Resting.at = "idle" /\
          Resting \in [at : {"idle", "enable", "enabled", "code", "recovery"},
                       setup : 0..setups, codes : SUBSET Handed, code : Nat \cup Recovery]
      BY DEF Resting, Tries
    <2> QED
      BY <1>1, <1>2, <2>1, <2>2, <2>3, <2>4 DEF FactorTyped, Trying
  <1>4. ReadStands
    BY <1>2 DEF ReadStands, Trying
  <1>5. Awaited /\ UsedRemembered /\ UsedOnce
    BY DEF Awaited, UsedRemembered, UsedOnce
  <1> QED
    BY <1>3, <1>4, <1>5 DEF FactorInv, Standing

LEMMA FactorKept == FactorInv /\ [FactorNext]_factorVars => FactorInv'
  BY FactorTypes, FactorStep DEF FactorInv

LEMMA FactorBounds == FactorInv => UsedOnce
  BY DEF FactorInv, Standing, UsedOnce
-----------------------------------------------------------------------------
(* The rate limiter.  A window is open that the clock has not left.  What  *)
(* was admitted in it is among the members of the sorted set, Limit of     *)
(* them at most, among the entries of the processes, Limit each at most,   *)
(* or was forgotten by a restart.                                          *)
InWindow(t) == {s \in Times : t <= s /\ s < t + Window}
Within(b, t) == SumOver(b, InWindow(t))
Running == {t \in Times : t <= clock /\ clock < t + Window}
Capped(n) == IF n <= Limit THEN n ELSE Limit
KeptBy(t) == [w \in Worker |-> Within(bucket[w], t)]

RateTyped ==
  /\ RateTypeOK
  /\ clock \in Times /\ asks \in Nat /\ outages \in Nat /\ restarts \in Nat

Yet == \A s \in Times : s > clock => /\ admitted[s] = 0
                                     /\ \A w \in Worker : bucket[w][s] = 0

OpenWindows ==
  \A t \in Running :
    /\ \A w \in Worker : Within(bucket[w], t) <= Limit
    /\ Within(admitted, t) <= Capped(Within(zset, t)) + SumOver(KeptBy(t), Worker)
                              + Limit * restarts
    /\ outages = 0 => Within(admitted, t) <= Capped(Within(zset, t))

AllWindows ==
  \A t \in Times :
    /\ Within(admitted, t) <= Limit * (1 + Cardinality(Worker) + restarts)
    /\ outages = 0 => Within(admitted, t) <= Limit

RateInv == RateTyped /\ Yet /\ OpenWindows /\ AllWindows

(* Sums over functions of the time, as the module writes them.             *)
LEMMA MapSums ==
  ASSUME NEW S, IsFiniteSet(S), NEW b, \A x \in S : b[x] \in Nat
  PROVE  MapThenSumSet(LAMBDA t : b[t], S) = SumOver(b, S)
  <1> DEFINE plain(F) == F = [s \in SUBSET S |->
               IF s = {} THEN 0
               ELSE LET x == CHOOSE x \in s : TRUE IN b[x] + F[s \ {x}]]
  <1>1. MapThenSumSet(LAMBDA t : b[t], S) = (CHOOSE F : plain(F))[S]
    BY DEF MapThenSumSet, MapThenFoldSet
  <1>2. (CHOOSE F : plain(F)) = (CHOOSE F : Sums(F, S, b))
    <2>1. ASSUME NEW F PROVE plain(F) <=> Sums(F, S, b)
      BY DEF Sums
    <2> HIDE DEF plain
    <2> QED
      BY <2>1, Zenon
  <1> QED
    BY <1>1, <1>2 DEF SumOver

LEMMA WindowFinite ==
  ASSUME NEW t \in Times
  PROVE  /\ IsFiniteSet(Times) /\ IsFiniteSet(InWindow(t)) /\ InWindow(t) \subseteq Times
         /\ Times \subseteq Nat
  <1>1. IsFiniteSet(Times)
    BY RateAssumption, FS_Interval DEF Times
  <1>2. InWindow(t) \subseteq Times /\ Times \subseteq Nat
    BY RateAssumption DEF InWindow, Times
  <1> QED
    BY <1>1, <1>2, FS_Subset

LEMMA WithinSize ==
  ASSUME NEW b \in [Times -> Nat], NEW t \in Times
  PROVE  Within(b, t) \in Nat /\ Size(b) \in Nat /\ Within(b, t) <= Size(b)
  <1>1. Size(b) = SumOver(b, Times)
    BY WindowFinite, MapSums DEF Size
  <1>2. SumOver(b, InWindow(t)) <= SumOver(b, Times) /\ SumOver(b, Times) \in Nat
    BY WindowFinite, SumMonotone, SumParts
  <1>3. SumOver(b, InWindow(t)) \in Nat
    BY WindowFinite, SumParts
  <1> QED
    BY <1>1, <1>2, <1>3 DEF Within

(* One more at the time c counts in the windows that c is in.              *)
LEMMA WithinPlus ==
  ASSUME NEW b \in [Times -> Nat], NEW c \in Times, NEW t \in Times
  PROVE  /\ [b EXCEPT ![c] = @ + 1] \in [Times -> Nat]
         /\ Within([b EXCEPT ![c] = @ + 1], t)
              = Within(b, t) + (IF t <= c /\ c < t + Window THEN 1 ELSE 0)
  <1> DEFINE v == [b EXCEPT ![c] = @ + 1]
  <1>1. v \in [Times -> Nat] /\ v[c] = b[c] + 1 /\ \A y \in Times : y # c => v[y] = b[y]
    OBVIOUS
  <1>2. /\ IsFiniteSet(InWindow(t)) /\ InWindow(t) \subseteq Times
        /\ (c \in InWindow(t) <=> t <= c /\ c < t + Window)
    BY WindowFinite DEF InWindow
  <1> HIDE DEF v
  <1>3. CASE c \in InWindow(t)
    <2>1. /\ SumOver(b, InWindow(t)) \in Nat /\ SumOver(v, InWindow(t)) \in Nat
          /\ SumOver(v, InWindow(t)) + b[c] = SumOver(b, InWindow(t)) + v[c]
      <3>1. \A y \in InWindow(t) : b[y] \in Nat /\ v[y] \in Nat /\ (y # c => v[y] = b[y])
        BY <1>1, <1>2
      <3> QED
        BY <1>2, <1>3, <3>1, SumDiffers
    <2>2. b[c] \in Nat
      OBVIOUS
    <2>3. SumOver(v, InWindow(t)) = SumOver(b, InWindow(t)) + 1
      BY <1>1, <2>1, <2>2
    <2> QED
      BY <1>1, <1>2, <1>3, <2>3 DEF Within, v
  <1>4. CASE c \notin InWindow(t)
    <2>1. SumOver(b, InWindow(t)) = SumOver(v, InWindow(t))
      BY <1>1, <1>2, <1>4, SumSame
    <2>2. SumOver(b, InWindow(t)) \in Nat
      BY <1>2, SumParts
    <2> QED
      BY <1>1, <1>2, <1>4, <2>1, <2>2 DEF Within, v
  <1> QED
    BY <1>3, <1>4

(* What is left of a window has all that is in a window still open.        *)
LEMMA WithinTrimmed ==
  ASSUME NEW b \in [Times -> Nat], clock \in Times
  PROVE  /\ Trimmed(b) \in [Times -> Nat]
         /\ \A t \in Running : Within(Trimmed(b), t) = Within(b, t)
  <1>1. Trimmed(b) \in [Times -> Nat]
    BY DEF Trimmed
  <1>2. ASSUME NEW t \in Running
        PROVE  Within(Trimmed(b), t) = Within(b, t)
    <2>1. t \in Times /\ clock < t + Window
      BY DEF Running
    <2>2. /\ IsFiniteSet(InWindow(t)) /\ InWindow(t) \subseteq Times /\ Times \subseteq Nat
          /\ Window \in Nat
      BY <2>1, WindowFinite, RateAssumption
    <2>3. \A s \in InWindow(t) : b[s] \in Nat /\ Trimmed(b)[s] = b[s]
      BY <2>1, <2>2 DEF InWindow, Trimmed
    <2> QED
      BY <2>2, <2>3, SumSame DEF Within
  <1> QED
    BY <1>1, <1>2

LEMMA WithinNothing ==
  ASSUME NEW b \in [Times -> Nat], NEW t \in Times, \A s \in InWindow(t) : b[s] = 0
  PROVE  Within(b, t) = 0
  <1>1. IsFiniteSet(InWindow(t)) /\ InWindow(t) \subseteq Times
    BY WindowFinite
  <1>2. /\ SumOver(b, InWindow(t)) \in Nat
        /\ SumOver(b, InWindow(t)) <= 0 * Cardinality(InWindow(t))
    <2>1. \A s \in InWindow(t) : b[s] \in 0..0
      OBVIOUS
    <2>2. 0 \in Nat
      OBVIOUS
    <2> QED
      BY <1>1, <2>1, <2>2, SumBounded
  <1>3. 0 * Cardinality(InWindow(t)) = 0
    BY <1>1, FS_CardinalityType
  <1> QED
    BY <1>2, <1>3 DEF Within

LEMMA RateTypes ==
  ASSUME RateTyped, Yet, [RateNext]_rateVars
  PROVE  RateTyped' /\ Yet'
  <1> USE RateAssumption DEF RateTyped, RateTypeOK
  <1>0. \A b \in [Times -> Nat] :
          /\ Trimmed(b) \in [Times -> Nat] /\ Plus(Trimmed(b)) \in [Times -> Nat]
          /\ Plus(b) \in [Times -> Nat]
          /\ \A s \in Times : s > clock /\ b[s] = 0 =>
               Trimmed(b)[s] = 0 /\ Plus(Trimmed(b))[s] = 0 /\ Plus(b)[s] = 0
    <2>1. \A b \in [Times -> Nat] : Trimmed(b) \in [Times -> Nat]
      BY DEF Trimmed
    <2>2. \A b \in [Times -> Nat] : Plus(b) \in [Times -> Nat]
      BY DEF Plus
    <2>3. \A b \in [Times -> Nat] : \A s \in Times : s > clock /\ b[s] = 0 =>
            Trimmed(b)[s] = 0 /\ Plus(b)[s] = 0
      BY DEF Trimmed, Plus, Times
    <2> HIDE DEF Trimmed, Plus
    <2> QED
      BY <2>1, <2>2, <2>3
  <1>1. CASE AskRedis
    <2>1. /\ zset' = Plus(Trimmed(zset)) /\ admitted' \in {admitted, Plus(admitted)}
          /\ UNCHANGED <<clock, bucket, outages, restarts>> /\ asks' = asks + 1
      BY <1>1 DEF AskRedis, Asked, Piped
    <2>2. RateTyped'
      <3>1. zset' \in [Times -> Nat] /\ admitted' \in [Times -> Nat]
        BY <1>0, <2>1
      <3> QED
        BY <2>1, <3>1
    <2>3. Yet'
      BY <1>0, <2>1 DEF Yet
    <2> QED
      BY <2>2, <2>3
  <1>2. ASSUME NEW w \in Worker, AskLocal(w)
        PROVE  RateTyped' /\ Yet'
    <2>1. /\ zset' \in {zset, Piped} /\ Piped \in [Times -> Nat]
          /\ admitted' \in {admitted, Plus(admitted)}
          /\ \E b \in {Trimmed(bucket[w]), Plus(Trimmed(bucket[w]))} :
               bucket' = [bucket EXCEPT ![w] = b]
          /\ UNCHANGED <<clock, restarts>> /\ asks' = asks + 1 /\ outages' = outages + 1
      BY <1>0, <1>2 DEF AskLocal, Asked, Outage, Piped
    <2>2. bucket[w] \in [Times -> Nat] /\ Trimmed(bucket[w]) \in [Times -> Nat]
      BY <1>0
    <2>3. PICK b \in [Times -> Nat] : /\ b \in {Trimmed(bucket[w]), Plus(Trimmed(bucket[w]))}
                                      /\ bucket' = [bucket EXCEPT ![w] = b]
      BY <1>0, <2>1, <2>2
    <2>4. RateTyped'
      <3>1. bucket' \in [Worker -> [Times -> Nat]]
        BY <2>3
      <3>2. zset' \in [Times -> Nat] /\ admitted' \in [Times -> Nat]
        BY <1>0, <2>1
      <3> QED
        BY <2>1, <3>1, <3>2
    <2>5. Yet'
      <3>1. \A s \in Times : s > clock => admitted'[s] = 0
        BY <1>0, <2>1 DEF Yet
      <3>2. \A s \in Times : s > clock => b[s] = 0
        BY <1>0, <2>2, <2>3 DEF Yet
      <3>3. \A s \in Times : s > clock => \A u \in Worker : bucket'[u][s] = 0
        BY <2>3, <3>2 DEF Yet
      <3> QED
        BY <2>1, <3>1, <3>3 DEF Yet
    <2> QED
      BY <2>4, <2>5
  <1>3. ASSUME NEW w \in Worker, RestartWorker(w)
        PROVE  RateTyped' /\ Yet'
    BY <1>3 DEF RestartWorker, Outage, Nothing, Yet
  <1>4. CASE PassTime
    BY <1>4 DEF PassTime, Times, Yet
  <1>5. CASE UNCHANGED rateVars
    BY <1>5 DEF rateVars, Yet
  <1> QED
    BY <1>1, <1>2, <1>3, <1>4, <1>5 DEF RateNext

(* What an open window holds is enough for the bounds.                     *)
LEMMA OpenSums ==
  ASSUME RateTyped, NEW t \in Times
  PROVE  /\ Within(zset, t) \in Nat /\ Within(admitted, t) \in Nat
         /\ \A w \in Worker : Within(bucket[w], t) \in Nat
         /\ SumOver(KeptBy(t), Worker) \in Nat
  <1>1. /\ Within(zset, t) \in Nat /\ Within(admitted, t) \in Nat
        /\ \A w \in Worker : Within(bucket[w], t) \in Nat
    BY WithinSize DEF RateTyped, RateTypeOK
  <1>2. \A w \in Worker : KeptBy(t)[w] \in Nat
    BY <1>1 DEF KeptBy
  <1> QED
    BY <1>1, <1>2, SumParts, RateAssumption

Enough ==
  \A t \in Running :
    /\ Within(admitted, t) <= Limit * (1 + Cardinality(Worker) + restarts)
    /\ outages = 0 => Within(admitted, t) <= Limit

LEMMA OpenEnough == RateTyped /\ OpenWindows => Enough
  <1> SUFFICES ASSUME RateTyped, OpenWindows, NEW t \in Running
               PROVE  /\ Within(admitted, t) <= Limit * (1 + Cardinality(Worker) + restarts)
                      /\ outages = 0 => Within(admitted, t) <= Limit
    BY DEF Enough
  <1>1. t \in Times /\ Limit \in Nat /\ restarts \in Nat
        /\ IsFiniteSet(Worker) /\ Cardinality(Worker) \in Nat
    BY RateAssumption, FS_CardinalityType DEF Running, RateTyped
  <1>2. /\ Within(zset, t) \in Nat /\ Within(admitted, t) \in Nat
        /\ \A w \in Worker : Within(bucket[w], t) \in Nat
        /\ SumOver(KeptBy(t), Worker) \in Nat
    BY <1>1, OpenSums
  <1>3. SumOver(KeptBy(t), Worker) <= Limit * Cardinality(Worker)
    <2>1. \A w \in Worker : KeptBy(t)[w] \in 0..Limit
      BY <1>1, <1>2 DEF KeptBy, OpenWindows
    <2> HIDE DEF KeptBy
    <2> QED
      BY <1>1, <2>1, SumBounded
  <1>4. Capped(Within(zset, t)) \in Nat /\ Capped(Within(zset, t)) <= Limit
    BY <1>1, <1>2 DEF Capped
  <1>5. /\ Within(admitted, t) <= Capped(Within(zset, t)) + SumOver(KeptBy(t), Worker)
                                  + Limit * restarts
        /\ outages = 0 => Within(admitted, t) <= Capped(Within(zset, t))
    BY DEF OpenWindows
  <1>6. Limit * (1 + Cardinality(Worker) + restarts)
          = Limit + Limit * Cardinality(Worker) + Limit * restarts
    <2>1. \A j, k \in Nat : Limit * (1 + j + k) = Limit + Limit * j + Limit * k
      BY <1>1
    <2> QED
      BY <1>1, <2>1
  <1>7. Limit * Cardinality(Worker) \in Nat /\ Limit * restarts \in Nat
    BY <1>1
  <1>8. PICK a \in Nat, z \in Nat, k \in Nat, p \in Nat, q \in Nat :
          /\ a = Within(admitted, t) /\ z = Capped(Within(zset, t))
          /\ k = SumOver(KeptBy(t), Worker) /\ p = Limit * Cardinality(Worker)
          /\ q = Limit * restarts
    BY <1>2, <1>4, <1>7, Zenon
  <1>9. a <= z + k + q /\ z <= Limit /\ k <= p /\ (outages = 0 => a <= z)
    BY <1>3, <1>4, <1>5, <1>8, Zenon
  <1>10. a <= Limit + p + q /\ (outages = 0 => a <= Limit)
    BY <1>1, <1>8, <1>9
  <1> QED
    BY <1>6, <1>8, <1>10, Zenon

LEMMA OpenEnoughNext == RateTyped' /\ OpenWindows' => Enough'
  BY OpenEnough, PTL

(* A step leaves the windows alone that are not open after it.             *)
LEMMA OthersStand ==
  ASSUME RateTyped, RateTyped', AllWindows, OpenWindows', [RateNext]_rateVars
  PROVE  AllWindows'
  <1> SUFFICES ASSUME NEW t \in Times, t \notin Running'
               PROVE  /\ Within(admitted', t) <= Limit * (1 + Cardinality(Worker) + restarts')
                      /\ outages' = 0 => Within(admitted', t) <= Limit
    BY OpenEnoughNext DEF AllWindows, Enough, Within, InWindow, Times
  <1>1. /\ Within(admitted, t) <= Limit * (1 + Cardinality(Worker) + restarts)
        /\ outages = 0 => Within(admitted, t) <= Limit
    BY DEF AllWindows
  <1>2. /\ restarts \in Nat /\ restarts' \in {restarts, restarts + 1}
        /\ outages \in Nat /\ outages' \in {outages, outages + 1}
    BY DEF RateTyped, RateNext, AskRedis, AskLocal, RestartWorker, PassTime, Outage, rateVars
  <1>3. Within(admitted', t) = Within(admitted, t)
    <2>1. CASE UNCHANGED admitted
      BY <2>1
    <2>2. CASE clock' = clock /\ admitted' = Plus(admitted)
      <3>1. ~(t <= clock /\ clock < t + Window)
        BY <2>2 DEF Running
      <3>2. Within(admitted, t) \in Nat
        BY OpenSums
      <3>3. admitted \in [Times -> Nat] /\ clock \in Times
            /\ Plus(admitted) = [admitted EXCEPT ![clock] = @ + 1]
        BY DEF Plus, RateTyped, RateTypeOK
      <3>4. Within([admitted EXCEPT ![clock] = @ + 1], t)
              = Within(admitted, t) + (IF t <= clock /\ clock < t + Window THEN 1 ELSE 0)
        BY <3>3, WithinPlus
      <3> QED
        BY <2>2, <3>1, <3>2, <3>3, <3>4
    <2> QED
      BY <2>1, <2>2 DEF RateNext, AskRedis, AskLocal, RestartWorker, PassTime, rateVars
  <1>4. Within(admitted, t) \in Nat /\ Limit \in Nat /\ Cardinality(Worker) \in Nat
    BY OpenSums, RateAssumption, FS_CardinalityType
  <1>5. \A k, j \in Nat : Limit * (1 + k + j) \in Nat
                          /\ Limit * (1 + k + (j + 1)) = Limit * (1 + k + j) + Limit
    BY <1>4
  <1> QED
    BY <1>1, <1>2, <1>3, <1>4, <1>5

(* One more in a part of what an open window holds.                        *)
LEMMA OpenPlus ==
  ASSUME NEW b \in [Times -> Nat], clock \in Times, NEW t \in Running
  PROVE  /\ Within(Plus(b), t) = Within(b, t) + 1
         /\ Within(Trimmed(b), t) = Within(b, t)
         /\ Within(Plus(Trimmed(b)), t) = Within(b, t) + 1
         /\ Within(b, t) \in Nat
         /\ Within(b, t) <= Size(Trimmed(b)) /\ Within(b, t) + 1 <= Size(Plus(Trimmed(b)))
         /\ Size(Trimmed(b)) \in Nat /\ Size(Plus(Trimmed(b))) \in Nat
  <1>1. t \in Times /\ t <= clock /\ clock < t + Window
    BY DEF Running
  <1>2. Trimmed(b) \in [Times -> Nat] /\ Within(Trimmed(b), t) = Within(b, t)
    BY WithinTrimmed
  <1>3. \A d \in [Times -> Nat] :
          /\ Plus(d) \in [Times -> Nat] /\ Within(Plus(d), t) = Within(d, t) + 1
    <2> TAKE d \in [Times -> Nat]
    <2>1. /\ [d EXCEPT ![clock] = @ + 1] \in [Times -> Nat]
          /\ Within([d EXCEPT ![clock] = @ + 1], t)
               = Within(d, t) + (IF t <= clock /\ clock < t + Window THEN 1 ELSE 0)
      BY <1>1, WithinPlus
    <2> QED
      BY <1>1, <2>1 DEF Plus
  <1>4. \A d \in [Times -> Nat] :
          Within(d, t) \in Nat /\ Size(d) \in Nat /\ Within(d, t) <= Size(d)
    BY <1>1, WithinSize
  <1> QED
    BY <1>2, <1>3, <1>4

Holds(t) ==
  /\ \A w \in Worker : Within(bucket[w], t) <= Limit
  /\ Within(admitted, t) <= Capped(Within(zset, t)) + SumOver(KeptBy(t), Worker)
                            + Limit * restarts
  /\ outages = 0 => Within(admitted, t) <= Capped(Within(zset, t))

LEMMA RedisHolds ==
  ASSUME RateTyped, NEW t \in Running, Holds(t), AskRedis
  PROVE  Holds(t)'
  <1>1. /\ zset' = Plus(Trimmed(zset))
        /\ admitted' = IF Size(Plus(Trimmed(zset))) > Limit THEN admitted ELSE Plus(admitted)
        /\ UNCHANGED <<clock, bucket, outages, restarts>>
    BY DEF AskRedis, Piped, Exceeds
  <1>2. /\ Within(zset', t) = Within(zset, t) + 1 /\ Within(zset, t) \in Nat
        /\ Within(zset, t) + 1 <= Size(Plus(Trimmed(zset))) /\ Size(Plus(Trimmed(zset))) \in Nat
    BY <1>1, OpenPlus DEF RateTyped, RateTypeOK
  <1>3. Within(Plus(admitted), t) = Within(admitted, t) + 1 /\ Within(admitted, t) \in Nat
    BY OpenPlus DEF RateTyped, RateTypeOK
  <1>4. \/ /\ Within(admitted', t) = Within(admitted, t)
           /\ Capped(Within(zset, t)) <= Capped(Within(zset', t))
        \/ /\ Within(admitted', t) = Within(admitted, t) + 1
           /\ Capped(Within(zset', t)) = Capped(Within(zset, t)) + 1
    BY <1>1, <1>2, <1>3, RateAssumption DEF Capped
  <1>5. /\ Capped(Within(zset, t)) \in Nat /\ Capped(Within(zset', t)) \in Nat
        /\ SumOver(KeptBy(t), Worker) \in Nat /\ Limit * restarts \in Nat
    BY <1>2, RateAssumption, OpenSums DEF Capped, Running, RateTyped
  <1>6. KeptBy(t)' = KeptBy(t) /\ InWindow(t)' = InWindow(t)
    BY <1>1 DEF KeptBy
  <1>7. \A w \in Worker : Within(bucket'[w], t) <= Limit
    BY <1>1 DEF Holds
  <1>8. PICK n \in Nat, a \in Nat : n = SumOver(KeptBy(t), Worker) /\ a = Limit * restarts
    BY <1>5, Zenon
  <1>9. Within(admitted', t) <= Capped(Within(zset', t)) + n + a
    BY <1>3, <1>4, <1>5, <1>8 DEF Holds
  <1>10. outages' = 0 => Within(admitted', t) <= Capped(Within(zset', t))
    BY <1>1, <1>3, <1>4, <1>5 DEF Holds
  <1> QED
    BY <1>1, <1>6, <1>7, <1>8, <1>9, <1>10 DEF Holds

LEMMA LocalHolds ==
  ASSUME RateTyped, NEW t \in Running, Holds(t), NEW w \in Worker, AskLocal(w)
  PROVE  Holds(t)'
  <1> DEFINE kept == Trimmed(bucket[w])
             full == Size(kept) >= Limit
             b == IF full THEN kept ELSE Plus(kept)
  <1>1. /\ zset' \in {zset, Plus(Trimmed(zset))}
        /\ bucket' = [bucket EXCEPT ![w] = b]
        /\ admitted' = IF full THEN admitted ELSE Plus(admitted)
        /\ outages' = outages + 1 /\ UNCHANGED <<clock, restarts>>
    BY DEF AskLocal, Piped, Outage
  <1>2. /\ Within(zset', t) \in {Within(zset, t), Within(zset, t) + 1}
        /\ Within(zset, t) \in Nat
    BY <1>1, OpenPlus DEF RateTyped, RateTypeOK
  <1>3. Within(Plus(admitted), t) = Within(admitted, t) + 1 /\ Within(admitted, t) \in Nat
    BY OpenPlus DEF RateTyped, RateTypeOK
  <1>4. /\ Within(kept, t) = Within(bucket[w], t)
        /\ Within(Plus(kept), t) = Within(bucket[w], t) + 1
        /\ Within(bucket[w], t) \in Nat
        /\ Within(bucket[w], t) <= Size(kept) /\ Size(kept) \in Nat
    <2>1. bucket[w] \in [Times -> Nat] /\ clock \in Times
      BY DEF RateTyped, RateTypeOK
    <2> QED
      BY <2>1, OpenPlus
  <1> HIDE DEF kept
  <1>5. /\ bucket'[w] = b /\ \A u \in Worker : u # w => bucket'[u] = bucket[u]
        /\ \A u \in Worker : Within(bucket[u], t) \in Nat
    BY <1>1, OpenSums DEF RateTyped, RateTypeOK, Running
  <1>6. PICK d \in {0, 1} :
          /\ Within(b, t) = Within(bucket[w], t) + d /\ Within(b, t) <= Limit
          /\ Within(admitted', t) = Within(admitted, t) + d
    <2>1. CASE full
      BY <1>1, <1>3, <1>4, <2>1 DEF Holds
    <2>2. CASE ~full
      BY <1>1, <1>3, <1>4, <2>2, RateAssumption DEF Holds
    <2> QED
      BY <2>1, <2>2
  <1> HIDE DEF b
  <1>7. \A u \in Worker : Within(bucket'[u], t) <= Limit
    BY <1>5, <1>6 DEF Holds
  <1> DEFINE v == [u \in Worker |-> Within(bucket'[u], t)]
  <1>8. SumOver(v, Worker) = SumOver(KeptBy(t), Worker) + d /\ SumOver(KeptBy(t), Worker) \in Nat
    <2>1. \A u \in Worker : /\ KeptBy(t)[u] \in Nat /\ v[u] \in Nat
                            /\ u # w => v[u] = KeptBy(t)[u]
      BY <1>4, <1>5, <1>6 DEF KeptBy
    <2>2. KeptBy(t)[w] = Within(bucket[w], t) /\ v[w] = Within(bucket[w], t) + d
      BY <1>5, <1>6 DEF KeptBy
    <2> HIDE DEF v
    <2>3. /\ SumOver(KeptBy(t), Worker) \in Nat /\ SumOver(v, Worker) \in Nat
          /\ SumOver(v, Worker) + KeptBy(t)[w] = SumOver(KeptBy(t), Worker) + v[w]
      BY <2>1, RateAssumption, SumDiffers
    <2> QED
      BY <1>4, <2>2, <2>3
  <1>9. /\ KeptBy(t)' = v
    BY DEF KeptBy, Within, InWindow, Times
  <1>10. /\ Capped(Within(zset, t)) \in Nat /\ Capped(Within(zset', t)) \in Nat
         /\ Capped(Within(zset, t)) <= Capped(Within(zset', t))
         /\ Limit * restarts \in Nat
    BY <1>2, RateAssumption DEF Capped, RateTyped
  <1> HIDE DEF v
  <1>11. PICK n \in Nat, a \in Nat : n = SumOver(KeptBy(t), Worker) /\ a = Limit * restarts
    BY <1>8, <1>10, Zenon
  <1>12. Within(admitted', t) <= Capped(Within(zset', t)) + (n + d) + a
    BY <1>3, <1>6, <1>10, <1>11 DEF Holds
  <1>13. outages' # 0
    BY <1>1 DEF RateTyped
  <1> QED
    BY <1>1, <1>7, <1>8, <1>9, <1>11, <1>12, <1>13 DEF Holds, Within, InWindow, Times

LEMMA RestartHolds ==
  ASSUME RateTyped, NEW t \in Running, Holds(t), NEW w \in Worker, RestartWorker(w)
  PROVE  Holds(t)'
  <1>1. /\ bucket' = [bucket EXCEPT ![w] = Nothing] /\ restarts' = restarts + 1
        /\ outages' = outages + 1 /\ UNCHANGED <<clock, zset, admitted>>
        /\ t \in Times
    BY DEF RestartWorker, Outage, Running
  <1>2. Within(Nothing, t) = 0
    <2>1. Nothing \in [Times -> Nat] /\ \A s \in InWindow(t) : Nothing[s] = 0
      BY DEF Nothing, InWindow
    <2> HIDE DEF Nothing
    <2> QED
      BY <1>1, <2>1, WithinNothing
  <1>3. /\ bucket'[w] = Nothing /\ \A u \in Worker : u # w => bucket'[u] = bucket[u]
        /\ \A u \in Worker : Within(bucket[u], t) \in Nat
        /\ Within(zset, t) \in Nat /\ Within(admitted, t) \in Nat
    BY <1>1, OpenSums DEF RateTyped, RateTypeOK
  <1>4. \A u \in Worker : Within(bucket'[u], t) <= Limit
    BY <1>2, <1>3, RateAssumption DEF Holds
  <1> DEFINE v == [u \in Worker |-> Within(bucket'[u], t)]
  <1>5. SumOver(KeptBy(t), Worker) <= SumOver(v, Worker) + Limit
        /\ SumOver(KeptBy(t), Worker) \in Nat /\ SumOver(v, Worker) \in Nat
    <2>1. \A u \in Worker : /\ KeptBy(t)[u] \in Nat /\ v[u] \in Nat
                            /\ u # w => v[u] = KeptBy(t)[u]
      BY <1>2, <1>3 DEF KeptBy
    <2>2. KeptBy(t)[w] = Within(bucket[w], t) /\ v[w] = 0
      BY <1>2, <1>3 DEF KeptBy
    <2> HIDE DEF v
    <2>3. /\ SumOver(KeptBy(t), Worker) \in Nat /\ SumOver(v, Worker) \in Nat
          /\ SumOver(v, Worker) + KeptBy(t)[w] = SumOver(KeptBy(t), Worker) + v[w]
      BY <2>1, RateAssumption, SumDiffers
    <2> QED
      BY <1>3, <2>2, <2>3, RateAssumption DEF Holds
  <1>6. KeptBy(t)' = v
    BY DEF KeptBy, Within, InWindow, Times
  <1> HIDE DEF v
  <1>7. Limit * restarts' = Limit * restarts + Limit /\ Limit * restarts \in Nat /\ Limit \in Nat
    <2>1. \A k \in Nat : Limit * (k + 1) = Limit * k + Limit
      BY RateAssumption
    <2> QED
      BY <1>1, <2>1, RateAssumption DEF RateTyped
  <1>8. Capped(Within(zset, t)) \in Nat
    BY <1>3, RateAssumption DEF Capped
  <1>9. PICK n \in Nat, m \in Nat, a \in Nat, z \in Nat :
          /\ n = SumOver(KeptBy(t), Worker) /\ m = SumOver(v, Worker) /\ a = Limit * restarts
          /\ z = Capped(Within(zset, t))
    BY <1>5, <1>7, <1>8, Zenon
  <1>10. Within(admitted, t) <= z + n + a /\ n <= m + Limit
    BY <1>5, <1>9, Zenon DEF Holds
  <1>11. Within(admitted, t) <= z + m + (a + Limit)
    BY <1>3, <1>7, <1>10
  <1>12. outages' # 0
    BY <1>1 DEF RateTyped
  <1> QED
    BY <1>1, <1>4, <1>6, <1>7, <1>9, <1>11, <1>12 DEF Holds, Within, InWindow, Times

LEMMA OpenHolds ==
  ASSUME RateTyped, RateTyped', Yet, OpenWindows, [RateNext]_rateVars
  PROVE  OpenWindows'
  <1> SUFFICES ASSUME NEW t \in Running' PROVE Holds(t)'
    BY DEF OpenWindows, Holds
  <1>1. t \in Running => Holds(t)
    BY DEF OpenWindows, Holds
  <1>2. CASE AskRedis
    <2>1. t \in Running
      BY <1>2 DEF AskRedis, Running, Times
    <2> QED
      BY <1>1, <1>2, <2>1, RedisHolds
  <1>3. ASSUME NEW w \in Worker, AskLocal(w) PROVE Holds(t)'
    <2>1. t \in Running
      BY <1>3 DEF AskLocal, Running, Times
    <2> QED
      BY <1>1, <1>3, <2>1, LocalHolds
  <1>4. ASSUME NEW w \in Worker, RestartWorker(w) PROVE Holds(t)'
    <2>1. t \in Running
      BY <1>4 DEF RestartWorker, Running, Times
    <2> QED
      BY <1>1, <1>4, <2>1, RestartHolds
  <1>5. CASE PassTime
    <2>1. /\ UNCHANGED <<zset, bucket, admitted, outages, restarts>> /\ clock' = clock + 1
      BY <1>5 DEF PassTime
    <2>2. Holds(t)' <=> Holds(t)
      BY <2>1 DEF Holds, KeptBy, Within, InWindow, Times
    <2>3. CASE t \in Running
      BY <1>1, <2>2, <2>3
    <2>4. CASE t \notin Running
      <3>1. t \in Times /\ t > clock
        BY <2>1, <2>4, RateAssumption DEF Running, RateTyped, Times
      <3>2. \A s \in InWindow(t) : s \in Times /\ s > clock
        BY <3>1, RateAssumption DEF InWindow, Times, RateTyped
      <3>3. Within(admitted, t) = 0 /\ \A w \in Worker : Within(bucket[w], t) = 0
        BY <3>1, <3>2, WithinNothing DEF Yet, RateTyped, RateTypeOK
      <3>4. /\ Within(zset, t) \in Nat /\ SumOver(KeptBy(t), Worker) \in Nat
            /\ Limit * restarts \in Nat /\ Limit \in Nat
        BY <3>1, OpenSums, RateAssumption DEF RateTyped
      <3>5. Capped(Within(zset, t)) \in Nat
        BY <3>4 DEF Capped
      <3> QED
        BY <2>2, <3>3, <3>4, <3>5 DEF Holds
    <2> QED
      BY <2>3, <2>4
  <1>6. CASE UNCHANGED rateVars
    BY <1>1, <1>6 DEF rateVars, Holds, KeptBy, Within, InWindow, Times, Running
  <1> QED
    BY <1>2, <1>3, <1>4, <1>5, <1>6 DEF RateNext

LEMMA RateKept == RateInv /\ [RateNext]_rateVars => RateInv'
  BY RateTypes, OpenHolds, OthersStand DEF RateInv

LEMMA RateStarts == RateInit => RateInv
  <1> SUFFICES ASSUME RateInit PROVE RateInv
    OBVIOUS
  <1>1. RateTyped
    BY RateAssumption DEF RateInit, RateTyped, RateTypeOK, Nothing, Times
  <1>2. Yet
    BY DEF RateInit, Yet, Nothing
  <1>3. ASSUME NEW t \in Times
        PROVE  /\ Within(admitted, t) = 0 /\ \A w \in Worker : Within(bucket[w], t) = 0
               /\ Within(zset, t) \in Nat /\ SumOver(KeptBy(t), Worker) \in Nat
               /\ Limit * restarts \in Nat /\ Limit \in Nat
               /\ Limit * (1 + Cardinality(Worker) + restarts) \in Nat
               /\ Capped(Within(zset, t)) \in Nat
    <2>1. \A s \in InWindow(t) : admitted[s] = 0 /\ \A w \in Worker : bucket[w][s] = 0
      BY DEF RateInit, Nothing, InWindow
    <2>2. Within(admitted, t) = 0 /\ \A w \in Worker : Within(bucket[w], t) = 0
      BY <1>1, <2>1, WithinNothing DEF RateTyped, RateTypeOK
    <2>3. Within(zset, t) \in Nat /\ SumOver(KeptBy(t), Worker) \in Nat
      BY <1>1, OpenSums
    <2>4. Limit \in Nat /\ restarts \in Nat /\ Cardinality(Worker) \in Nat
      BY <1>1, RateAssumption, FS_CardinalityType DEF RateTyped
    <2> QED
      BY <2>2, <2>3, <2>4 DEF Capped
  <1>4. OpenWindows
    BY <1>3 DEF OpenWindows, Running
  <1>5. AllWindows
    BY <1>3 DEF AllWindows
  <1> QED
    BY <1>1, <1>2, <1>4, <1>5 DEF RateInv

LEMMA RateBounds == RateInv => AdmittedBounded
  <1> SUFFICES ASSUME RateInv PROVE AdmittedBounded
    OBVIOUS
  <1>1. ASSUME NEW t \in Times
        PROVE  MapThenSumSet(LAMBDA s : admitted[s], InWindow(t)) = Within(admitted, t)
    <2>1. IsFiniteSet(InWindow(t)) /\ \A s \in InWindow(t) : admitted[s] \in Nat
      BY WindowFinite DEF RateInv, RateTyped, RateTypeOK
    <2> QED
      BY <2>1, MapSums DEF Within
  <1> QED
    BY <1>1 DEF AdmittedBounded, RateInv, AllWindows, InWindow
-----------------------------------------------------------------------------
(* The three limits take steps in any order and share no state.            *)
LEMMA GuessSteps ==
  [GuessNext]_guessVars =>
    [FactorNext]_factorVars /\ [RateNext]_rateVars /\ [LockoutNext]_lockoutVars
  BY DEF GuessNext, guessVars

(* No code is accepted twice, neither Redis away nor a restart admits more *)
(* than the rate limiter states, and no kill but one between INCR and      *)
(* EXPIRE lets the counter of the lockout get further: services/mfa.py,    *)
(* rate_limiter.py and auth.py, in any order of their steps.               *)
THEOREM GuessersLimited == GuessSpec => []LimitsHold
  <1>1. GuessInit => FactorInv /\ RateInv /\ LockoutInv
    BY FactorStarts, RateStarts, LockoutStarts DEF GuessInit
  <1>2. FactorInv /\ RateInv /\ LockoutInv /\ [GuessNext]_guessVars
        => FactorInv' /\ RateInv' /\ LockoutInv'
    BY GuessSteps, FactorKept, RateKept, LockoutKept
  <1>3. FactorInv /\ RateInv /\ LockoutInv => LimitsHold
    BY FactorBounds, RateBounds, LockoutBounds DEF LimitsHold
  <1> QED
    BY <1>1, <1>2, <1>3, PTL DEF GuessSpec
=============================================================================
