------------------------ MODULE UnderstandingProofs ------------------------
(***************************************************************************)
(* For any texts, rules, models and skills: what reaches the state machine *)
(* is a message it is made for, and only the user's own words let an       *)
(* operation be executed.                                                  *)
(***************************************************************************)
EXTENDS Understanding, DialogManagerProofs, SequenceTheorems

\* The labels of a business segment.
Requested == Intents \cup {"PAYMENT"}

Results ==
    {r \in [label : Labels, strong : BOOLEAN, fills : BOOLEAN] :
        r.fills => r.label = "SLOT_ONLY"}

\* What a result may be in the state of the dialog, for the text it comes from:
\* answers and denials while something is waited for, a confirmation only at the
\* gate and in the user's words.
Fitting(r, words) ==
    /\ r.fills => state = "COLLECTING"
    /\ r.label = "CONFIRM" => /\ state = "CONFIRMING"
                              /\ "short" \in words /\ "confirm" \in words /\ "deny" \notin words
    /\ r.label = "DENY" => state \in WaitingStates

\* Two requests that wait are two, and none of them is the one in front.
Queued(primary, pending) ==
    /\ pending \in Seq(Requested) /\ Len(pending) <= 2
    /\ Len(pending) = 2 => pending[1] # pending[2]
    /\ pending # <<>> =>
          \/ primary.fills
          \/ primary.label \in Requested /\ pending[1] # primary.label

-----------------------------------------------------------------------------
(* Sequences that are put together *)

LEMMA OptionalSeq ==
    ASSUME NEW S, NEW holds \in BOOLEAN, NEW x, holds => x \in S
    PROVE  (IF holds THEN <<x>> ELSE <<>>) \in Seq(S)
OBVIOUS

LEMMA HeadOf ==
    ASSUME NEW S, NEW s \in Seq(S), NEW x \in S
    PROVE  Head(s \o <<x>>) \in S
OBVIOUS

LEMMA Concat ==
    ASSUME NEW S, NEW s \in Seq(S), NEW t \in Seq(S)
    PROVE  /\ s \o t \in Seq(S)
           /\ Len(s \o t) = Len(s) + Len(t)
           /\ \A i \in 1 .. Len(s) : (s \o t)[i] = s[i]
           /\ \A i \in 1 .. Len(t) : (s \o t)[Len(s) + i] = t[i]
<1>1. Len(s) \in Nat /\ Len(t) \in Nat
  OBVIOUS
<1>2. QED  BY <1>1

LEMMA BelowThree ==
    /\ \A n \in Nat : n <= 3 => n \in 0 .. 3
    /\ \A n \in {0, 2, 3} : n <= 3
    /\ \A m, n \in Nat : m <= n /\ n <= 3 => m <= 3
OBVIOUS

LEMMA BothOne ==
    ASSUME NEW m \in {0, 1}, NEW n \in {0, 1}, m + n = 2
    PROVE  m = 1 /\ n = 1
OBVIOUS

LEMMA Section ==
    ASSUME NEW S, NEW s \in Seq(S), NEW a \in 1 .. Len(s) + 1, NEW b \in 0 .. Len(s),
           a <= b + 1
    PROVE  /\ SubSeq(s, a, b) \in Seq(S)
           /\ Len(SubSeq(s, a, b)) = b - a + 1
           /\ \A i \in 1 .. b - a + 1 : SubSeq(s, a, b)[i] = s[a + i - 1]
OBVIOUS

LEMMA SingleSeq ==
    ASSUME NEW S, NEW s \in Seq(S), Len(s) = 1
    PROVE  s = <<s[1]>> /\ s[1] \in S
<1>1. s[1] \in S
  BY 1 \in 1 .. Len(s)
<1>2. <<s[1]>> \in Seq(S) /\ Len(<<s[1]>>) = 1 /\ <<s[1]>>[1] = s[1]
  BY <1>1
<1>3. QED  BY <1>1, <1>2, SeqEqual

LEMMA PairSeq ==
    ASSUME NEW S, NEW s \in Seq(S), Len(s) = 2
    PROVE  s = <<s[1], s[2]>> /\ s[1] \in S /\ s[2] \in S
<1>1. s[1] \in S
  BY 1 \in 1 .. Len(s)
<1>2. s[2] \in S
  BY 2 \in 1 .. Len(s)
<1> DEFINE t == <<s[1], s[2]>>
<1>3. t \in Seq(S) /\ Len(t) = 2 /\ t[1] = s[1] /\ t[2] = s[2]
  BY <1>1, <1>2
<1>4. QED  BY <1>1, <1>2, <1>3, SeqEqual

-----------------------------------------------------------------------------
(* The rules *)

Ruled(words) == {r \in Results \cup {Nothing} : r = Nothing \/ (r \in Results /\ Fitting(r, words))}

LEMMA LabelFacts ==
    /\ \A i \in Intents : i \notin ControlLabels /\ i \in Labels
    /\ ControlLabels \subseteq Labels
    /\ Requested = Labels \ NonBusiness
BY LabelsAssumption DEF Labels, ControlLabels, Requested, NonBusiness

LEMMA RequestFits ==
    ASSUME NEW label \in Labels \ {"CONFIRM", "DENY"}, NEW strong \in BOOLEAN, NEW words
    PROVE  Result(label, strong) \in Results /\ Fitting(Result(label, strong), words)
BY DEF Result, Results, Fitting

LEMMA RequestedFits ==
    ASSUME NEW r \in Results, r.label \in Requested, NEW words
    PROVE  Fitting(r, words)
BY LabelFacts DEF Fitting, Requested, Results, ControlLabels

\* The first rule that holds: each of them fits.
LEMMA ControlFits ==
    ASSUME NEW words, NEW filling \in BOOLEAN
    PROVE  Control(words, filling) \in Ruled(words)
<1> DEFINE R == Ruled(words)
           gate == IF state = "CONFIRMING" THEN MatchGate(words) ELSE Nothing
           answers == filling /\ "answers slot" \in words /\ PendingSlot
<1>1. Nothing \in R
  BY DEF Ruled
<1>2. \A rule \in RequestRules : Result(RuleIntent[rule], TRUE) \in R
  <2>1. ASSUME NEW rule \in RequestRules
        PROVE  RuleIntent[rule] \in Labels \ {"CONFIRM", "DENY"}
    BY TextsAssumption, LabelFacts DEF Intents, ControlLabels
  <2>2. QED  BY <2>1, RequestFits DEF Ruled
<1>3. \A label \in {"CHAT", "TRANSFER", "ABORT", "SLOT_ONLY"} : Result(label, TRUE) \in R
  BY LabelFacts, RequestFits DEF Ruled, ControlLabels
<1>4. DeniesTask(words) => Result("DENY", TRUE) \in R
  BY LabelFacts DEF DeniesTask, Result, Ruled, Results, Fitting, ControlLabels, WaitingStates
<1>5. gate # Nothing => gate \in R
  BY LabelFacts DEF MatchGate, Result, Ruled, Results, Fitting, ControlLabels, WaitingStates
<1>6. answers => AnswersSlot \in R
  BY LabelFacts DEF AnswersSlot, PendingSlot, Ruled, Results, Fitting, ControlLabels
<1> HIDE DEF R
<1>7. \A rule \in RequestRules : AsRequest(rule, words) \in Seq(R)
  BY <1>2, OptionalSeq DEF AsRequest, When
<1>8. \A label \in {"CHAT", "TRANSFER", "ABORT", "SLOT_ONLY"}, holds \in BOOLEAN :
         When(holds, label) \in Seq(R)
  BY <1>3, OptionalSeq DEF When
<1> DEFINE s1 == AsRequest("cancel order", words)
           s2 == IF gate # Nothing THEN <<gate>> ELSE <<>>
           s3 == When(DeniesTask(words), "DENY")
           s4 == AsRequest("cancel booking", words)
           s5 == IF "negation" \in words THEN <<>> ELSE AsRequest("book", words)
           s6 == IF {"negation", "third party"} \cap words # {} THEN <<>>
                 ELSE AsRequest("register", words)
           s7 == When("identity" \in words, "CHAT")
           s8 == When("transfer" \in words, "TRANSFER")
           s9 == When({"abort", "nothing else"} \subseteq words, "ABORT")
           s10 == When("bare value" \in words, "SLOT_ONLY")
           s11 == IF answers THEN <<AnswersSlot>> ELSE <<>>
<1>9. <<>> \in Seq(R)
  OBVIOUS
<1>10. /\ s1 \in Seq(R) /\ s4 \in Seq(R)
       /\ AsRequest("book", words) \in Seq(R) /\ AsRequest("register", words) \in Seq(R)
  BY <1>7 DEF RequestRules
<1>11. s5 \in Seq(R) /\ s6 \in Seq(R)
  BY <1>9, <1>10
<1>12. s2 \in Seq(R) /\ s11 \in Seq(R)
  <2> HIDE DEF gate, answers
  <2>1. QED  BY <1>5, <1>6, OptionalSeq
<1>13. s3 \in Seq(R)
  <2>1. DeniesTask(words) \in BOOLEAN
    BY DEF DeniesTask
  <2>2. QED  BY <1>4, <2>1, OptionalSeq DEF When
<1>14. s7 \in Seq(R) /\ s8 \in Seq(R) /\ s9 \in Seq(R) /\ s10 \in Seq(R)
  <2>1. /\ ("identity" \in words) \in BOOLEAN /\ ("transfer" \in words) \in BOOLEAN
        /\ ({"abort", "nothing else"} \subseteq words) \in BOOLEAN
        /\ ("bare value" \in words) \in BOOLEAN
    OBVIOUS
  <2>2. QED  BY <1>8, <2>1, Zenon
<1> DEFINE rules == s1 \o s2 \o s3 \o s4 \o s5 \o s6 \o s7 \o s8 \o s9 \o s10 \o s11
<1>15. Control(words, filling) = Head(rules \o <<Nothing>>)
  BY DEF Control
<1> HIDE DEF s1, s2, s3, s4, s5, s6, s7, s8, s9, s10, s11
<1>16. rules \in Seq(R)
  BY <1>10, <1>11, <1>12, <1>13, <1>14, Concat
<1>17. Control(words, filling) \in R
  <2> HIDE DEF rules
  <2>1. QED  BY <1>1, <1>15, <1>16, HeadOf
<1>18. QED  BY <1>17 DEF R

LEMMA SemanticFits ==
    ASSUME NEW model \in Semantic, NEW words
    PROVE  model \in Results /\ Fitting(model, words)
<1>1. PICK m \in Models : model = Judged(m)
  BY DEF Semantic
<1>2. \A label \in Catalogue \cup SetFitLabels : label \in Labels \ {"CONFIRM", "DENY"}
  BY LabelFacts DEF Catalogue, SetFitLabels, ControlLabels
<1>3. \E label \in Catalogue \cup SetFitLabels, strong \in BOOLEAN : model = Result(label, strong)
  BY <1>1 DEF Judged, Models, SetFitLabels, Catalogue
<1>4. QED  BY <1>2, <1>3, RequestFits

LEMMA ClassifiedFits ==
    ASSUME NEW words, NEW model \in Semantic
    PROVE  Classified(words, model) \in Results /\ Fitting(Classified(words, model), words)
<1>1. Control(words, TRUE) \in Ruled(words)
  BY ControlFits
<1>2. model \in Results /\ Fitting(model, words)
  BY SemanticFits
<1>3. QED  BY <1>1, <1>2 DEF Classified, Ruled

-----------------------------------------------------------------------------
(* Several requests *)

Business == {r \in Results : r.label \in Requested}

\* Two neighbours never ask for the same.
Alternating(requests) ==
    \A i \in 1 .. Len(requests) - 1 : requests[i].label # requests[i + 1].label

\* What stays of three segments alternates: what repeats its neighbour is merged.
LEMMA MergedLemma ==
    ASSUME NEW results \in Seq(Results), Len(results) <= 3
    PROVE  /\ Merged(results) \in Seq(Business)
           /\ Len(Merged(results)) <= 3
           /\ Alternating(Merged(results))
<1>1. /\ DOMAIN results = 1 .. Len(results) /\ Len(results) \in Nat
      /\ \A i \in 1 .. Len(results) : results[i] \in Results
  OBVIOUS
<1>2. \A i \in {1, 2, 3} : Stays(results, i) => results[i] \in Business
  BY <1>1, LabelFacts DEF Stays, Business, Results
<1>3. Stays(results, 1) /\ Stays(results, 2) => results[1].label # results[2].label
  BY <1>1 DEF Stays
<1>4. Stays(results, 2) /\ Stays(results, 3) => results[2].label # results[3].label
  BY <1>1 DEF Stays
<1>5. Stays(results, 1) /\ ~Stays(results, 2) /\ Stays(results, 3)
         => results[1].label # results[3].label
  BY <1>1 DEF Stays
<1>6. \A i \in {1, 2, 3} : /\ Kept(results, i) \in Seq(Business)
                           /\ Stays(results, i) => /\ Len(Kept(results, i)) = 1
                                                   /\ Kept(results, i)[1] = results[i]
                           /\ ~Stays(results, i) => Len(Kept(results, i)) = 0
  BY <1>2 DEF Kept
<1> DEFINE k1 == Kept(results, 1)
           k2 == Kept(results, 2)
           k3 == Kept(results, 3)
           u == k1 \o k2
           m == u \o k3
<1>7. /\ u \in Seq(Business) /\ Len(u) = Len(k1) + Len(k2)
      /\ \A i \in 1 .. Len(k1) : u[i] = k1[i]
      /\ \A i \in 1 .. Len(k2) : u[Len(k1) + i] = k2[i]
  <2> HIDE DEF k1, k2
  <2>1. k1 \in Seq(Business) /\ k2 \in Seq(Business)
    BY <1>6 DEF k1, k2
  <2>2. QED  BY <2>1, Concat
<1>8. /\ m \in Seq(Business) /\ Len(m) = Len(u) + Len(k3)
      /\ \A i \in 1 .. Len(u) : m[i] = u[i]
      /\ \A i \in 1 .. Len(k3) : m[Len(u) + i] = k3[i]
  <2> HIDE DEF u, k3
  <2>1. u \in Seq(Business) /\ k3 \in Seq(Business)
    BY <1>6, <1>7 DEF k3
  <2>2. QED  BY <2>1, Concat
<1>9. Len(m) <= 3 /\ Alternating(m)
  <2>1. /\ Len(k1) = IF Stays(results, 1) THEN 1 ELSE 0
        /\ Len(k2) = IF Stays(results, 2) THEN 1 ELSE 0
        /\ Len(k3) = IF Stays(results, 3) THEN 1 ELSE 0
    BY <1>6
  <2>2. /\ Stays(results, 1) => k1[1] = results[1]
        /\ Stays(results, 2) => k2[1] = results[2]
        /\ Stays(results, 3) => k3[1] = results[3]
    BY <1>6
  <2> HIDE DEF u, m, k1, k2, k3
  <2>3. CASE Stays(results, 1) /\ Stays(results, 2) /\ Stays(results, 3)
    <3>1. Len(k1) = 1 /\ Len(k2) = 1 /\ Len(k3) = 1 /\ Len(u) = 2 /\ Len(m) = 3
      BY <1>7, <1>8, <2>1, <2>3
    <3>2. u[1] = results[1] /\ u[2] = results[2]
      BY <1>7, <2>2, <2>3, <3>1
    <3>3. m[1] = results[1] /\ m[2] = results[2] /\ m[3] = results[3]
      BY <1>8, <2>2, <2>3, <3>1, <3>2
    <3>4. QED  BY <1>3, <1>4, <2>3, <3>1, <3>3 DEF Alternating
  <2>4. CASE Stays(results, 1) /\ Stays(results, 2) /\ ~Stays(results, 3)
    <3>1. Len(k1) = 1 /\ Len(k2) = 1 /\ Len(k3) = 0 /\ Len(u) = 2 /\ Len(m) = 2
      BY <1>7, <1>8, <2>1, <2>4
    <3>2. u[1] = results[1] /\ u[2] = results[2]
      BY <1>7, <2>2, <2>4, <3>1
    <3>3. m[1] = results[1] /\ m[2] = results[2]
      BY <1>8, <3>1, <3>2
    <3>4. QED  BY <1>3, <2>4, <3>1, <3>3 DEF Alternating
  <2>5. CASE Stays(results, 1) /\ ~Stays(results, 2) /\ Stays(results, 3)
    <3>1. Len(k1) = 1 /\ Len(k2) = 0 /\ Len(k3) = 1 /\ Len(u) = 1 /\ Len(m) = 2
      BY <1>7, <1>8, <2>1, <2>5
    <3>2. u[1] = results[1]
      BY <1>7, <2>2, <2>5, <3>1
    <3>3. m[1] = results[1] /\ m[2] = results[3]
      BY <1>8, <2>2, <2>5, <3>1, <3>2
    <3>4. QED  BY <1>5, <2>5, <3>1, <3>3 DEF Alternating
  <2>6. CASE ~Stays(results, 1) /\ Stays(results, 2) /\ Stays(results, 3)
    <3>1. Len(k1) = 0 /\ Len(k2) = 1 /\ Len(k3) = 1 /\ Len(u) = 1 /\ Len(m) = 2
      BY <1>7, <1>8, <2>1, <2>6
    <3>2. u[1] = results[2]
      BY <1>7, <2>2, <2>6, <3>1
    <3>3. m[1] = results[2] /\ m[2] = results[3]
      BY <1>8, <2>2, <2>6, <3>1, <3>2
    <3>4. QED  BY <1>4, <2>6, <3>1, <3>3 DEF Alternating
  <2>7. CASE Len(m) <= 1
    BY <1>8, <2>7 DEF Alternating
  <2>8. \/ Stays(results, 1) /\ Stays(results, 2)
        \/ Stays(results, 1) /\ Stays(results, 3)
        \/ Stays(results, 2) /\ Stays(results, 3)
        \/ Len(m) <= 1
    BY <1>7, <1>8, <2>1
  <2>9. QED  BY <2>3, <2>4, <2>5, <2>6, <2>7, <2>8
<1>10. Merged(results) = m
  BY DEF Merged
<1>11. QED  BY <1>8, <1>9, <1>10

LEMMA OthersLemma ==
    ASSUME NEW results \in Seq(Results)
    PROVE  Others(results) \in Seq(Results) /\ Len(Others(results)) <= Len(results)
<1>1. DOMAIN results = 1 .. Len(results) /\ Len(results) \in Nat
  OBVIOUS
<1>2. CASE Fills(results) = {}
  BY <1>1, <1>2 DEF Others
<1>3. CASE Fills(results) # {}
  <2> DEFINE first == CHOOSE i \in Fills(results) : \A j \in Fills(results) : i =< j
  <2>1. first \in 1 .. Len(results)
    <3>1. Fills(results) \subseteq 1 .. Len(results) /\ Fills(results) \subseteq Nat
      BY <1>1 DEF Fills
    <3>2. \E i \in Fills(results) : \A j \in Fills(results) : ~(j < i)
      BY <1>3, <3>1, LeastExists
    <3>3. \E i \in Fills(results) : \A j \in Fills(results) : i =< j
      BY <3>1, <3>2
    <3>4. first \in Fills(results)
      BY <3>3
    <3>5. QED  BY <3>1, <3>4
  <2> DEFINE l == SubSeq(results, 1, first - 1)
             r == SubSeq(results, first + 1, Len(results))
  <2>2. Others(results) = l \o r
    BY <1>3 DEF Others, RemoveAt
  <2> HIDE DEF first
  <2>3. l \in Seq(Results) /\ Len(l) = first - 1
    BY <1>1, <2>1, Section
  <2>4. r \in Seq(Results) /\ Len(r) = Len(results) - first
    <3>1. /\ first + 1 \in 1 .. Len(results) + 1 /\ Len(results) \in 0 .. Len(results)
          /\ first + 1 <= Len(results) + 1
      BY <1>1, <2>1
    <3>2. r \in Seq(Results) /\ Len(r) = Len(results) - (first + 1) + 1
      BY <3>1, Section
    <3> HIDE DEF r
    <3>3. first \in Nat
      BY <1>1, <2>1
    <3>4. QED  BY <1>1, <3>2, <3>3
  <2> HIDE DEF l, r
  <2>5. Others(results) \in Seq(Results) /\ Len(Others(results)) = Len(l) + Len(r)
    BY <2>2, <2>3, <2>4, Concat
  <2>6. QED  BY <1>1, <2>1, <2>3, <2>4, <2>5
<1>4. QED  BY <1>2, <1>3

\* The labels of at most two requests, from the first one on.
LEMMA FollowingLemma ==
    ASSUME NEW requests \in Seq(Business), Alternating(requests),
           NEW first \in {1, 2}, first <= Len(requests)
    PROVE  /\ Following(requests, first) \in Seq(Requested)
           /\ Len(Following(requests, first)) <= 2
           /\ Following(requests, first)[1] = requests[first].label
           /\ Len(Following(requests, first)) = 2 =>
                 Following(requests, first)[1] # Following(requests, first)[2]
<1> DEFINE last == IF Len(requests) > first THEN first + 1 ELSE Len(requests)
           next == SubSeq(requests, first, last)
           labels == Following(requests, first)
<1>1. Len(requests) \in Nat /\ last \in first .. first + 1 /\ last <= Len(requests)
  OBVIOUS
<1>2. /\ next \in Seq(Business) /\ Len(next) = last - first + 1
      /\ \A i \in 1 .. last - first + 1 : next[i] = requests[first + i - 1]
  <2> HIDE DEF last
  <2>1. QED  BY <1>1, Section
<1>3. labels = [i \in DOMAIN next |-> next[i].label]
  BY DEF Following
<1> HIDE DEF last, next, labels
<1>4. DOMAIN next = 1 .. Len(next) /\ Len(next) \in {1, 2}
  BY <1>1, <1>2
<1>5. \A i \in 1 .. Len(next) : next[i].label \in Requested
  BY <1>2 DEF Business
<1>6. /\ labels \in Seq(Requested) /\ Len(labels) = Len(next)
      /\ \A i \in 1 .. Len(next) : labels[i] = next[i].label
  BY <1>3, <1>4, <1>5
<1>7. labels[1] = requests[first].label
  BY <1>2, <1>4, <1>6
<1>8. Len(labels) = 2 => labels[1] # labels[2]
  <2>1. SUFFICES ASSUME Len(next) = 2 PROVE labels[1] # labels[2]
    BY <1>6
  <2>2. last = first + 1 /\ first \in 1 .. Len(requests) - 1
    <3>1. first \in Nat /\ last \in Nat /\ Len(requests) \in Nat /\ last <= Len(requests)
      BY <1>1
    <3>2. last - first + 1 = 2
      BY <1>2, <2>1
    <3>3. 1 <= first
      OBVIOUS
    <3>4. QED  BY <3>1, <3>2, <3>3
  <2>3. next[2] = requests[first + 2 - 1] /\ first + 2 - 1 = first + 1
    BY <1>2, <2>2
  <2>4. labels[2] = requests[first + 1].label
    BY <1>6, <2>1, <2>3
  <2>5. QED  BY <1>7, <2>2, <2>4 DEF Alternating
<1>9. Len(labels) <= 2
  BY <1>4, <1>6
<1>10. QED  BY <1>6, <1>7, <1>8, <1>9 DEF labels

\* The primary result, for the text as a whole, and what follows it.
LEMMA UnderstoodLemma ==
    ASSUME NEW text \in Texts, NEW models \in [DOMAIN text.parts \cup {1} -> Semantic]
    PROVE  /\ Understood(text, models).primary \in Results
           /\ Fitting(Understood(text, models).primary, text.whole)
           /\ Queued(Understood(text, models).primary, Understood(text, models).pending)
<1> DEFINE parts == text.parts
           results == [i \in DOMAIN parts |-> Classified(parts[i], models[i])]
           requests == Merged(Others(results))
           single == [primary |-> Classified(text.whole, models[1]), pending |-> <<>>]
           u == Understood(text, models)
<1>1. DOMAIN parts = 1 .. Len(parts) /\ Len(parts) <= 3
  <2>1. parts \in Seq(SUBSET Patterns) /\ Len(parts) \in {0, 2, 3}
    BY TextsAssumption
  <2>2. DOMAIN parts = 1 .. Len(parts)
    BY <2>1
  <2>3. Len(parts) <= 3
    BY <2>1, BelowThree
  <2>4. QED  BY <2>2, <2>3
<1>2. \A i \in DOMAIN parts :
         /\ results[i] \in Results
         /\ Fitting(results[i], parts[i])
  BY ClassifiedFits
<1>3. results \in Seq(Results) /\ Len(results) = Len(parts) /\ DOMAIN results = DOMAIN parts
  <2> HIDE DEF parts
  <2>1. \A i \in DOMAIN parts : Classified(parts[i], models[i]) \in Results
    BY <1>2
  <2>2. QED  BY <1>1, <2>1
<1>4. requests \in Seq(Business) /\ Len(requests) \in 0 .. 3 /\ Alternating(requests)
  <2> HIDE DEF results
  <2>1. Others(results) \in Seq(Results) /\ Len(Others(results)) <= 3
    <3>1. Others(results) \in Seq(Results) /\ Len(Others(results)) <= Len(results)
      BY <1>3, OthersLemma
    <3>2. Len(Others(results)) \in Nat
      BY <3>1
    <3>3. Len(results) \in Nat /\ Len(results) <= 3
      <4>1. Len(results) \in Nat
        BY <1>3
      <4>2. QED  BY <1>1, <1>3, <4>1, Zenon
    <3>4. QED  BY <3>1, <3>2, <3>3, BelowThree
  <2>2. requests \in Seq(Business) /\ Len(requests) <= 3 /\ Alternating(requests)
    BY <2>1, MergedLemma
  <2> HIDE DEF requests
  <2>3. Len(requests) \in Nat
    BY <2>2
  <2>4. QED  BY <2>2, <2>3, BelowThree
<1>5. /\ single.primary \in Results /\ Fitting(single.primary, text.whole)
      /\ Queued(single.primary, single.pending)
  <2>1. models[1] \in Semantic
    OBVIOUS
  <2>2. QED  BY <2>1, ClassifiedFits DEF Queued
<1>6. u \in {single} \cup
           (IF Fills(results) # {} /\ requests # <<>>
            THEN {[primary |-> AnswersSlot, pending |-> Following(requests, 1)]} ELSE {}) \cup
           (IF \E i, j \in DOMAIN requests : requests[i].label # requests[j].label
            THEN {[primary |-> requests[1], pending |-> Following(requests, 2)]} ELSE {})
  <2> HIDE DEF single
  <2>1. QED  BY DEF Understood, single
<1> HIDE DEF results, requests, single, u
<1>7. ASSUME Fills(results) # {}, requests # <<>>,
             u = [primary |-> AnswersSlot, pending |-> Following(requests, 1)]
      PROVE  /\ u.primary \in Results /\ Fitting(u.primary, text.whole)
             /\ Queued(u.primary, u.pending)
  <2>1. PICK i \in DOMAIN results : results[i].fills
    BY <1>7 DEF Fills
  <2>2. state = "COLLECTING"
    BY <1>2, <1>3, <2>1 DEF Fitting
  <2>3. u.primary \in Results /\ Fitting(u.primary, text.whole) /\ u.primary.fills
    BY <1>7, <2>2, LabelFacts DEF AnswersSlot, Fitting, Results, ControlLabels
  <2>4. 1 <= Len(requests)
    BY <1>4, <1>7
  <2>5. /\ Following(requests, 1) \in Seq(Requested)
        /\ Len(Following(requests, 1)) <= 2
        /\ Len(Following(requests, 1)) = 2 =>
              Following(requests, 1)[1] # Following(requests, 1)[2]
    BY <1>4, <2>4, FollowingLemma
  <2>6. /\ u.pending \in Seq(Requested)
        /\ Len(u.pending) <= 2
        /\ Len(u.pending) = 2 => u.pending[1] # u.pending[2]
    <3>1. u.pending = Following(requests, 1)
      BY <1>7
    <3>2. QED  BY <2>5, <3>1, Zenon
  <2>7. Queued(u.primary, u.pending)
    BY <2>3, <2>6 DEF Queued
  <2>8. QED  BY <2>3, <2>7
<1>8. ASSUME NEW i \in DOMAIN requests, NEW j \in DOMAIN requests,
             requests[i].label # requests[j].label,
             u = [primary |-> requests[1], pending |-> Following(requests, 2)]
      PROVE  /\ u.primary \in Results /\ Fitting(u.primary, text.whole)
             /\ Queued(u.primary, u.pending)
  <2>1. 2 <= Len(requests)
    BY <1>4, <1>8
  <2>2. requests[1] \in Business /\ requests[1].label # requests[2].label
    BY <1>4, <2>1 DEF Alternating
  <2>3. /\ Following(requests, 2) \in Seq(Requested)
        /\ Len(Following(requests, 2)) <= 2
        /\ Following(requests, 2)[1] = requests[2].label
        /\ Len(Following(requests, 2)) = 2 =>
              Following(requests, 2)[1] # Following(requests, 2)[2]
    BY <1>4, <2>1, FollowingLemma
  <2>4. u.primary = requests[1] /\ u.pending = Following(requests, 2)
    BY <1>8
  <2>5. u.primary \in Results /\ u.primary.label \in Requested
    BY <2>2, <2>4 DEF Business
  <2>6. Fitting(u.primary, text.whole)
    BY <2>5, RequestedFits
  <2>7. Queued(u.primary, u.pending)
    BY <2>2, <2>3, <2>4, <2>5, Zenon DEF Queued
  <2>8. QED  BY <2>5, <2>6, <2>7
<1>9. QED  BY <1>5, <1>6, <1>7, <1>8 DEF u

\* What is pushed below the current task is what a message may carry.
LEMMA PushedLemma ==
    ASSUME NEW labels \in Seq(Requested), Len(labels) <= 2,
           Len(labels) = 2 => labels[1] # labels[2]
    PROVE  /\ Pushed(labels) \in Pendings(Requests)
           /\ Pushed(labels) # <<>> => labels # <<>>
           /\ Pushed(labels) # <<>> => Len(Pushed(labels)) \in {1, 2}
           /\ Len(Pushed(labels)) = 2 => Pushed(labels)[1].intent = labels[1]
<1> DEFINE p1 == AsTask(labels, 1)
           p2 == AsTask(labels, 2)
           p == p1 \o p2
           One(i) == [intent |-> labels[i], slots |-> NoSlots]
<1>1. DOMAIN labels = 1 .. Len(labels) /\ Len(labels) \in Nat /\ Len(labels) <= 2
  OBVIOUS
<1>2. \A i \in {1, 2} : /\ AsTask(labels, i) \in Seq(Requests)
                        /\ Len(AsTask(labels, i)) \in {0, 1}
                        /\ Len(AsTask(labels, i)) = 1 =>
                              /\ i <= Len(labels)
                              /\ AsTask(labels, i)[1] = One(i)
  <2>1. SUFFICES ASSUME NEW i \in {1, 2}, i \in DOMAIN labels, labels[i] \in Intents
                 PROVE  One(i) \in Requests
    BY <1>1 DEF AsTask
  <2>2. One(i) \in [intent : Intents, slots : {NoSlots}]
    BY <2>1
  <2>3. QED  BY <2>2, TextsAssumption
<1>3. /\ p \in Seq(Requests) /\ Len(p) = Len(p1) + Len(p2)
      /\ \A i \in 1 .. Len(p1) : p[i] = p1[i]
      /\ \A i \in 1 .. Len(p2) : p[Len(p1) + i] = p2[i]
  <2> HIDE DEF p1, p2
  <2>1. p1 \in Seq(Requests) /\ p2 \in Seq(Requests)
    BY <1>2 DEF p1, p2
  <2>2. QED  BY <2>1, Concat
<1>4. /\ Len(p1) \in {0, 1} /\ Len(p2) \in {0, 1}
      /\ Len(p) = Len(p1) + Len(p2)
  BY <1>2, <1>3
<1>5. Pushed(labels) = p
  BY DEF Pushed
<1> HIDE DEF p1, p2, p
<1>6. Len(p) \in 0 .. 2
  BY <1>3, <1>4
<1>7. CASE Len(p) = 0
  BY <1>3, <1>5, <1>6, <1>7 DEF Pendings
<1>8. CASE Len(p) = 1
  <2>1. p = <<p[1]>> /\ p[1] \in Requests
    BY <1>3, <1>8, SingleSeq
  <2>2. p \in Pendings(Requests)
    BY <2>1 DEF Pendings
  <2>3. Len(labels) # 0
    <3>1. Len(p1) = 1 \/ Len(p2) = 1
      BY <1>3, <1>4, <1>8
    <3>2. QED  BY <1>1, <1>2, <3>1 DEF p1, p2
  <2>4. QED  BY <1>5, <1>8, <2>2, <2>3
<1>9. CASE Len(p) = 2
  <2>1. Len(p1) = 1 /\ Len(p2) = 1
    BY <1>4, <1>9, BothOne
  <2>2. p1[1] = One(1) /\ p2[1] = One(2) /\ Len(labels) = 2
    BY <1>1, <1>2, <2>1 DEF p1, p2
  <2>3. p[1] = One(1) /\ p[2] = One(2)
    BY <1>3, <2>1, <2>2
  <2>4. p = <<p[1], p[2]>> /\ p[1] \in Requests /\ p[2] \in Requests
    BY <1>3, <1>9, PairSeq
  <2>5. p[1].intent = labels[1] /\ p[2].intent = labels[2]
    BY <2>3
  <2> HIDE DEF One
  <2>6. p \in Pendings(Requests)
    BY <2>2, <2>4, <2>5 DEF Pendings
  <2>7. QED  BY <1>5, <1>9, <2>2, <2>5, <2>6
<1>10. QED  BY <1>6, <1>7, <1>8, <1>9

-----------------------------------------------------------------------------
(* The way of a message *)

Steps == {"none", "guard", "classify", "extract", "parse", "resolve",
          "execute", "tool", "product", "rag", "template", "reply"}

TurnRecords ==
    [pc : Steps, text : Texts \cup {NoTurn.text}, words : SUBSET Patterns,
     primary : [label : Labels \cup {"none"}, strong : BOOLEAN, fills : BOOLEAN],
     pending : Seq(Requested), slots : SlotFillings, verdict : Verdicts,
     task : Tasks \cup {NoTask}]

DialogSound ==
    /\ state \in States /\ active \in Tasks \cup {NoTask} /\ stack \in Stacks
    /\ Armed(state, active)

\* The text is there until it has been classified.
Readable == turn.pc \in {"guard", "classify"} => turn.text \in Texts

\* What was understood fits the state of the dialog until it is relabelled.
Understands ==
    turn.pc \in {"extract", "parse"} =>
        /\ turn.primary \in Results
        /\ Fitting(turn.primary, turn.words)
        /\ Queued(turn.primary, turn.pending)

\* What confirms the task at the gate are the user's own words.
InOwnWords(task) ==
    \/ turn.verdict = "CONFIRM"
    \/ /\ {"short", "confirm"} \subseteq turn.words /\ "deny" \notin turn.words
       /\ "weak" \in turn.words => task.intent \notin L3Intents

Agreed == At("resolve") /\ turn.primary.label = "CONFIRM" => InOwnWords(active)

UnderstandingInv ==
    /\ turn \in TurnRecords
    /\ DialogSound
    /\ Readable
    /\ Understands
    /\ Agreed
    /\ Deliverable
    /\ ExecutesConfirmed

LEMMA NoTurnType ==
    /\ NoTurn \in TurnRecords
    /\ NoTurn.pc = "none" /\ NoTurn.words = {} /\ NoTurn.verdict = NoVerdict
BY NoSlotsType DEF NoTurn, TurnRecords, Steps, Nothing, Result, Verdicts, NoVerdict

LEMMA InitUnderstanding == Init => UnderstandingInv
BY NoTurnType, EmptyIsStack
   DEF Init, UnderstandingInv, DialogSound, Readable, Understands, Agreed,
       Deliverable, ExecutesConfirmed, At, Armed, States, WaitingStates

\* Nothing is asked of a turn that has not been classified or is over.
LEMMA RestFits ==
    ASSUME turn' \in TurnRecords, DialogSound',
           turn'.pc \in {"none", "tool", "product", "rag", "template", "reply"}
    PROVE  UnderstandingInv'
BY DEF UnderstandingInv, Readable, Understands, Agreed, Deliverable, ExecutesConfirmed, At

LEMMA BlockedFits ==
    ASSUME DialogSound', Blocked
    PROVE  UnderstandingInv'
<1>1. turn' \in TurnRecords /\ turn'.pc = "reply"
  BY NoTurnType DEF Blocked, TurnRecords, Steps
<1>2. QED  BY <1>1, RestFits

LEMMA GuardFits ==
    ASSUME UnderstandingInv,
           \/ \E text \in Texts : Receive(text)
           \/ \E b, c \in BOOLEAN : GuardAbuse(b, c) \/ GuardPass(b, c)
           \/ GuardInjection
    PROVE  UnderstandingInv'
<1>1. DialogSound'
  BY DEF UnderstandingInv, DialogSound, Receive, GuardAbuse, GuardPass, GuardInjection, dialog
<1>2. ASSUME NEW text \in Texts, Receive(text) PROVE UnderstandingInv'
  <2>1. /\ turn' \in TurnRecords /\ turn'.pc = "guard" /\ turn'.text = text
    BY <1>2, NoTurnType DEF Receive, TurnRecords, Steps
  <2>2. QED
    BY <1>1, <2>1 DEF UnderstandingInv, Readable, Understands, Agreed, Deliverable,
                      ExecutesConfirmed, At
<1>3. CASE Blocked
  BY <1>1, <1>3, BlockedFits
<1>4. CASE At("guard") /\ turn' = [turn EXCEPT !.pc = "classify"]
  <2>1. turn.text \in Texts
    BY <1>4 DEF UnderstandingInv, Readable, At
  <2>2. /\ turn' \in TurnRecords /\ turn'.pc = "classify" /\ turn'.text = turn.text
    BY <1>4 DEF UnderstandingInv, TurnRecords, Steps
  <2>3. QED
    BY <1>1, <2>1, <2>2 DEF UnderstandingInv, Readable, Understands, Agreed, Deliverable,
                            ExecutesConfirmed, At
<1>5. QED
  BY <1>2, <1>3, <1>4 DEF GuardAbuse, GuardPass, GuardInjection

\* The rest of the text is not looked at any more.
LEMMA GistFits ==
    ASSUME NEW r, Fitting(r, turn.text.whole)
    PROVE  Fitting(r, Gist)
BY DEF Fitting, Gist

LEMMA ClassifyFits ==
    ASSUME UnderstandingInv, Classify \/ \E intent \in Intents : AcceptOffer(intent)
    PROVE  UnderstandingInv'
<1>1. DialogSound' /\ state' = state /\ At("classify") /\ turn.text \in Texts
  BY DEF UnderstandingInv, DialogSound, Classify, AcceptOffer, dialog, Readable, At
<1>2. Gist \in SUBSET Patterns
  BY DEF Gist, Patterns
<1> DEFINE Reads(r, pending, words) ==
             /\ r \in Results /\ Fitting(r, words) /\ Queued(r, pending)
             /\ words \in SUBSET Patterns
             /\ turn' \in TurnRecords /\ turn'.pc = "extract" /\ turn'.words = words
             /\ turn'.primary = r /\ turn'.pending = pending
<1>3. \A r \in Results : r \in [label : Labels \cup {"none"}, strong : BOOLEAN, fills : BOOLEAN]
  BY DEF Results
<1>4. ASSUME Classify PROVE \E r, pending, words : Reads(r, pending, words)
  <2>1. PICK models \in [DOMAIN turn.text.parts \cup {1} -> Semantic] :
           turn' = [NoTurn EXCEPT !.pc = "extract", !.words = Gist,
                       !.primary = Understood(turn.text, models).primary,
                       !.pending = Understood(turn.text, models).pending]
    BY <1>4 DEF Classify
  <2>2. PICK r, pending : /\ r = Understood(turn.text, models).primary
                          /\ pending = Understood(turn.text, models).pending
    OBVIOUS
  <2>3. r \in Results /\ Fitting(r, Gist) /\ Queued(r, pending)
    BY <1>1, <2>2, UnderstoodLemma, GistFits
  <2>4. pending \in Seq(Requested)
    BY <2>3 DEF Queued
  <2>5. /\ turn' \in TurnRecords /\ turn'.pc = "extract" /\ turn'.words = Gist
        /\ turn'.primary = r /\ turn'.pending = pending
    BY <1>2, <1>3, <2>1, <2>2, <2>3, <2>4, NoTurnType DEF TurnRecords, Steps
  <2>6. QED  BY <1>2, <2>3, <2>5
<1>5. ASSUME NEW intent \in Intents, AcceptOffer(intent)
      PROVE  \E r, pending, words : Reads(r, pending, words)
  <2>1. PICK r : r = Result(intent, TRUE)
    OBVIOUS
  <2>2. r \in Results /\ Fitting(r, Gist)
    <3>1. intent \in Labels \ {"CONFIRM", "DENY"}
      BY LabelFacts DEF ControlLabels
    <3>2. QED  BY <2>1, <3>1, RequestFits
  <2>3. Queued(r, <<>>)
    BY DEF Queued
  <2>4. NoTurn.pending = <<>>
    BY DEF NoTurn
  <2>5. turn' = [NoTurn EXCEPT !.pc = "extract", !.words = Gist, !.primary = r]
    BY <1>5, <2>1 DEF AcceptOffer
  <2>6. /\ turn' \in TurnRecords /\ turn'.pc = "extract" /\ turn'.words = Gist
        /\ turn'.primary = r /\ turn'.pending = <<>>
    BY <1>2, <1>3, <2>2, <2>4, <2>5, NoTurnType DEF TurnRecords, Steps
  <2>7. QED  BY <1>2, <2>2, <2>3, <2>6
<1>6. PICK r, pending, words : Reads(r, pending, words)
  BY <1>4, <1>5
<1>7. (Fitting(r, words) /\ Queued(r, pending))'
  BY <1>1, <1>6 DEF Fitting, Queued
<1>8. QED
  BY <1>1, <1>6, <1>7 DEF UnderstandingInv, Readable, Understands, Agreed,
                           Deliverable, ExecutesConfirmed, At

LEMMA ExtractFits ==
    ASSUME UnderstandingInv, NEW slots \in SlotFillings, Extract(slots)
    PROVE  UnderstandingInv'
<1>1. DialogSound' /\ state' = state /\ At("extract")
  BY DEF UnderstandingInv, DialogSound, Extract, dialog
<1>2. turn \in TurnRecords /\ turn' = [turn EXCEPT !.pc = "parse", !.slots = slots]
  BY DEF UnderstandingInv, Extract
<1>3. /\ turn' \in TurnRecords /\ turn'.pc = "parse" /\ turn'.words = turn.words
      /\ turn'.primary = turn.primary /\ turn'.pending = turn.pending
  BY <1>2 DEF TurnRecords, Steps
<1>4. PICK r, pending, words : r = turn.primary /\ pending = turn.pending /\ words = turn.words
  OBVIOUS
<1>5. r \in Results /\ Fitting(r, words) /\ Queued(r, pending)
  BY <1>1, <1>4 DEF UnderstandingInv, Understands, At
<1>6. (Fitting(r, words) /\ Queued(r, pending))'
  BY <1>1, <1>5 DEF Fitting, Queued
<1>7. QED
  BY <1>1, <1>3, <1>4, <1>5, <1>6
  DEF UnderstandingInv, Readable, Understands, Agreed, Deliverable, ExecutesConfirmed, At

\* The label after the parser of the gate, given the one before it.
Parsed(label, verdict) ==
    IF state = "CONFIRMING" /\ label \notin Settled THEN Relabelled(label, verdict)
    ELSE IF state = "CONFIRMING" THEN Rechecked(label) ELSE label

\* The parser makes confirmations only at the gate, and only of the user's words.
LEMMA ParsedLemma ==
    ASSUME NEW r \in Results, NEW words, Fitting(r, words), words = turn.words,
           NEW verdict \in Verdicts,
           ~(state = "CONFIRMING" /\ r.label \notin Settled) => verdict = NoVerdict
    PROVE  /\ Parsed(r.label, verdict) \in Labels
           /\ Sayable(Parsed(r.label, verdict), state)
           /\ Parsed(r.label, verdict) = "CONFIRM" =>
                 \/ verdict = "CONFIRM"
                 \/ /\ {"short", "confirm"} \subseteq words /\ "deny" \notin words
                    /\ "weak" \in words => active.intent \notin L3Intents
           /\ Parsed(r.label, verdict) # r.label => state = "CONFIRMING"
           /\ Parsed(r.label, verdict) \in {r.label, "CONFIRM", "DENY", "SLOT_ONLY"}
<1>1. r.label \in Labels /\ {"CONFIRM", "DENY", "SLOT_ONLY"} \subseteq Labels
  BY LabelFacts DEF Results, ControlLabels
<1>2. CASE state = "CONFIRMING" /\ r.label \notin Settled
  <2>1. Parsed(r.label, verdict) = Relabelled(r.label, verdict)
    BY <1>2 DEF Parsed
  <2>2. /\ verdict = "CONFIRM" => Relabelled(r.label, verdict) = "CONFIRM"
        /\ verdict = "DENY" => Relabelled(r.label, verdict) = "DENY"
        /\ verdict = "MODIFY" => Relabelled(r.label, verdict) = "SLOT_ONLY"
        /\ verdict \notin {"CONFIRM", "DENY", "MODIFY"} =>
              Relabelled(r.label, verdict) = r.label
    BY DEF Relabelled
  <2>3. r.label # "CONFIRM"
    BY <1>2 DEF Settled
  <2>4. QED  BY <1>1, <1>2, <2>1, <2>2, <2>3 DEF Sayable, WaitingStates
<1>3. CASE state = "CONFIRMING" /\ r.label \in Settled
  <2>1. Parsed(r.label, verdict) = Rechecked(r.label)
    BY <1>3 DEF Parsed
  <2>2. CASE r.label = "CONFIRM"
    BY <1>1, <1>3, <2>1, <2>2 DEF Rechecked, Weak, Fitting, Sayable
  <2>3. CASE r.label # "CONFIRM"
    BY <1>1, <1>3, <2>1, <2>3 DEF Rechecked, Sayable, WaitingStates
  <2>4. QED  BY <2>2, <2>3
<1>4. CASE state # "CONFIRMING"
  <2>1. Parsed(r.label, verdict) = r.label
    BY <1>4 DEF Parsed
  <2>2. QED  BY <1>1, <1>4, <2>1 DEF Fitting, Sayable
<1>5. QED  BY <1>2, <1>3, <1>4

\* A message with its label, as the state machine takes it.
Handed(label, slots, pending, strong) ==
    [label |-> label,
     slots |-> IF label \in Intents \cup {"SLOT_ONLY", "UNKNOWN"} THEN slots ELSE NoSlots,
     pending |-> IF label \in {"TRANSFER", "ABORT", "UNKNOWN"} THEN <<>> ELSE Pushed(pending),
     strong |-> label \notin Intents \/ strong]

LEMMA HandedLemma ==
    ASSUME NEW r \in Results, NEW pending, Queued(r, pending),
           NEW words, Fitting(r, words),
           NEW label \in Labels, label \in {r.label, "CONFIRM", "DENY", "SLOT_ONLY"},
           label # r.label => state = "CONFIRMING",
           NEW slots \in SlotFillings, NEW strong \in BOOLEAN
    PROVE  /\ Handed(label, slots, pending, strong) \in Messages
           /\ CarriesPending(label, state, Handed(label, slots, pending, strong).pending)
<1> DEFINE m == Handed(label, slots, pending, strong)
<1>1. /\ Pushed(pending) \in Pendings(Requests)
      /\ Pushed(pending) # <<>> => pending # <<>>
      /\ Len(Pushed(pending)) = 2 => Pushed(pending)[1].intent = pending[1]
      /\ Pushed(pending) # <<>> => Len(Pushed(pending)) \in {1, 2}
  BY PushedLemma DEF Queued
<1>2. m.pending \in Pendings(Requests) /\ m.slots \in SlotFillings /\ m.strong \in BOOLEAN
  BY <1>1, NoSlotsType DEF Handed, Pendings
<1>3. m \in Messages
  BY <1>2 DEF Handed, Messages
<1>4. CarriesPending(label, state, m.pending)
  <2>1. SUFFICES ASSUME m.pending # <<>>
                 PROVE  CarriesPending(label, state, Pushed(pending))
    BY DEF Handed, CarriesPending
  <2>2. /\ label \notin {"TRANSFER", "ABORT", "UNKNOWN"} /\ Pushed(pending) # <<>>
    BY <2>1 DEF Handed
  <2>3. pending # <<>>
    BY <1>1, <2>2
  <2>4. CASE r.fills
    <3>1. r.label = "SLOT_ONLY" /\ state = "COLLECTING"
      BY <2>4 DEF Results, Fitting
    <3>2. label = "SLOT_ONLY"
      BY <3>1
    <3>3. QED  BY <3>1, <3>2 DEF CarriesPending
  <2>5. CASE r.label \in Requested /\ pending[1] # r.label
    <3>1. CASE label = r.label
      <4>1. label \in Intents \cup {"CHAT", "PAYMENT"}
        BY <2>5, <3>1 DEF Requested
      <4>2. Pushed(pending)[1].intent = label => Len(Pushed(pending)) # 2
        BY <1>1, <2>5, <3>1
      <4>3. Len(Pushed(pending)) \in {1, 2}
        BY <1>1, <2>2
      <4>4. Pushed(pending)[1].intent = label => Len(Pushed(pending)) = 1
        BY <4>2, <4>3
      <4>5. QED  BY <4>1, <4>4 DEF CarriesPending
    <3>2. CASE label # r.label
      BY <3>2 DEF CarriesPending
    <3>3. QED  BY <3>1, <3>2
  <2>6. QED  BY <2>3, <2>4, <2>5 DEF Queued
<1>5. QED  BY <1>3, <1>4

LEMMA ParseFits ==
    ASSUME UnderstandingInv, NEW verdict \in Verdicts, NEW corrected \in SlotFillings,
           Parse(verdict, corrected)
    PROVE  UnderstandingInv'
<1>1. /\ DialogSound' /\ state' = state /\ active' = active
      /\ At("parse") /\ turn \in TurnRecords
  BY DEF UnderstandingInv, DialogSound, Parse, dialog
<1>2. PICK r, pending, words : r = turn.primary /\ pending = turn.pending /\ words = turn.words
  OBVIOUS
<1>3. r \in Results /\ Fitting(r, words) /\ Queued(r, pending)
  BY <1>1, <1>2 DEF UnderstandingInv, Understands, At
<1>4. PICK label : label = Parsed(r.label, verdict)
  OBVIOUS
<1>5. PICK slots : slots = Merge(turn.slots, corrected)
  OBVIOUS
<1>6. ~(state = "CONFIRMING" /\ r.label \notin Settled) => verdict = NoVerdict
  BY <1>2 DEF Parse
<1>7. turn' = [turn EXCEPT !.pc = "resolve", !.primary.label = label,
                           !.slots = slots, !.verdict = verdict]
  BY <1>2, <1>4, <1>5 DEF Parse, Parsed
<1>8. /\ label \in Labels
      /\ Sayable(label, state)
      /\ label = "CONFIRM" =>
            \/ verdict = "CONFIRM"
            \/ /\ {"short", "confirm"} \subseteq words /\ "deny" \notin words
               /\ "weak" \in words => active.intent \notin L3Intents
      /\ label # r.label => state = "CONFIRMING"
      /\ label \in {r.label, "CONFIRM", "DENY", "SLOT_ONLY"}
  BY <1>2, <1>3, <1>4, <1>6, ParsedLemma
<1>9. slots \in SlotFillings
  BY <1>1, <1>5, MergeType DEF TurnRecords
<1>10. /\ turn' \in TurnRecords /\ turn'.pc = "resolve"
       /\ turn'.primary.label = label /\ turn'.primary.strong = r.strong
       /\ turn'.pending = pending /\ turn'.words = words
       /\ turn'.slots = slots /\ turn'.verdict = verdict
  BY <1>1, <1>2, <1>7, <1>8, <1>9 DEF TurnRecords, Steps
<1>11. PICK strong \in BOOLEAN : strong = (r.strong \/ "switch" \in words)
  BY <1>3 DEF Results
<1>12. Message' = Handed(label, slots, pending, strong)
  BY <1>10, <1>11 DEF Message, Handed
<1>13. /\ Handed(label, slots, pending, strong) \in Messages
       /\ CarriesPending(label, state, Handed(label, slots, pending, strong).pending)
  BY <1>3, <1>8, <1>9, HandedLemma
<1>14. Handed(label, slots, pending, strong).label = label
  BY DEF Handed
<1>15. Deliverable'
  BY <1>1, <1>8, <1>12, <1>13, <1>14 DEF Deliverable, Sayable, CarriesPending
<1>16. Agreed'
  BY <1>1, <1>8, <1>10 DEF Agreed, InOwnWords
<1>17. QED
  BY <1>1, <1>10, <1>15, <1>16
  DEF UnderstandingInv, Readable, Understands, ExecutesConfirmed, At

\* Only what stands at the gate is handed over, when the label is a confirmation:
\* the user's words that made it one stand beside the task.
LEMMA ResolvedFits ==
    ASSUME UnderstandingInv, Resolved
    PROVE  UnderstandingInv'
<1>1. PICK out : out = Resolve(state, active, stack, Message)
  OBVIOUS
<1>2. /\ At("resolve") /\ turn \in TurnRecords
      /\ state' = out.state /\ active' = out.active /\ stack' = out.stack
      /\ \E pc \in Branches(out) : turn' =
            IF pc = "execute" THEN [turn EXCEPT !.pc = pc, !.task = out.finished]
            ELSE [NoTurn EXCEPT !.pc = pc]
  BY <1>1 DEF Resolved, UnderstandingInv
<1>3. /\ state \in States /\ active \in Tasks \cup {NoTask} /\ stack \in Stacks
      /\ Armed(state, active)
      /\ Message \in Messages /\ Sayable(Message.label, state)
  BY <1>2 DEF UnderstandingInv, DialogSound, Deliverable
<1>4. /\ Sound(out)
      /\ out.finished # NoTask => active # NoTask /\ out.finished = active
      /\ out.finished # NoTask => Message.label = "CONFIRM"
  <2>1. PICK msg \in Messages : msg = Message
    BY <1>3
  <2>2. out = Resolve(state, active, stack, msg) /\ Sayable(msg.label, state)
    BY <1>1, <1>3, <2>1
  <2>3. QED  BY <1>3, <2>1, <2>2, ResolveDecides
<1>5. DialogSound'
  BY <1>2, <1>4 DEF DialogSound, Sound, Outcomes
<1>6. PICK pc \in Branches(out) : turn' =
         IF pc = "execute" THEN [turn EXCEPT !.pc = pc, !.task = out.finished]
         ELSE [NoTurn EXCEPT !.pc = pc]
  BY <1>2
<1>7. /\ pc \in {"execute", "tool", "product", "rag", "template"}
      /\ pc = "execute" => out.finished # NoTask
  BY DEF Branches
<1>8. CASE pc # "execute"
  <2>1. turn' \in TurnRecords /\ turn'.pc = pc
    BY <1>6, <1>7, <1>8, NoTurnType DEF TurnRecords, Steps
  <2>2. QED  BY <1>5, <1>7, <1>8, <2>1, RestFits
<1>9. CASE pc = "execute"
  <2>1. out.finished = active /\ active \in Tasks /\ Message.label = "CONFIRM"
    BY <1>3, <1>4, <1>7, <1>9
  <2>2. InOwnWords(active)
    BY <1>2, <2>1 DEF UnderstandingInv, Agreed, Message
  <2>3. /\ turn' \in TurnRecords /\ turn'.pc = "execute" /\ turn'.task = active
        /\ turn'.words = turn.words /\ turn'.verdict = turn.verdict
    BY <1>2, <1>6, <1>9, <2>1 DEF TurnRecords, Steps
  <2>4. ExecutesConfirmed'
    BY <2>2, <2>3 DEF ExecutesConfirmed, InOwnWords
  <2>5. QED
    BY <1>5, <2>3, <2>4 DEF UnderstandingInv, Readable, Understands, Agreed, Deliverable, At
<1>10. QED  BY <1>8, <1>9

LEMMA OverFits ==
    ASSUME UnderstandingInv, Lapse \/ \E b \in BOOLEAN : Reply(b)
    PROVE  UnderstandingInv'
<1>1. turn' = NoTurn
  BY DEF Lapse, Reply
<1>2. DialogSound'
  BY EmptyIsStack
  DEF UnderstandingInv, DialogSound, Lapse, Reply, dialog, Armed, States, WaitingStates
<1>3. QED  BY <1>1, <1>2, NoTurnType, RestFits

LEMMA NextUnderstanding == UnderstandingInv /\ [Next]_vars => UnderstandingInv'
<1> SUFFICES ASSUME UnderstandingInv, [Next]_vars PROVE UnderstandingInv'
  OBVIOUS
<1>1. CASE UNCHANGED vars
  BY <1>1 DEF vars, dialog, UnderstandingInv, DialogSound, Readable, Understands, Agreed,
              Deliverable, ExecutesConfirmed, At, InOwnWords, Fitting, Queued, Message
<1>2. CASE Next
  BY <1>2, GuardFits, ClassifyFits, ExtractFits, ParseFits, ResolvedFits, OverFits DEF Next
<1>3. QED  BY <1>1, <1>2

LEMMA UnderstandingInvariant == Spec => []UnderstandingInv
BY InitUnderstanding, NextUnderstanding, PTL DEF Spec

\* What reaches the state machine is a message it is made for: a confirmation or
\* a denial only while one is waited for, secondary requests only beside a request
\* or an answer, and never two that ask for the same.  So what DialogManager and
\* ChatTurn assume of their inputs is what the nodes before them deliver.
THEOREM DeliverableTheorem == Spec => []Deliverable
<1>1. UnderstandingInv => Deliverable
  BY DEF UnderstandingInv
<1>2. QED  BY <1>1, UnderstandingInvariant, PTL

\* However a message is split, judged by the models and relabelled, only the
\* user's own words let an operation be executed.
THEOREM ExecutesTheorem == Spec => []ExecutesConfirmed
<1>1. UnderstandingInv => ExecutesConfirmed
  BY DEF UnderstandingInv
<1>2. QED  BY <1>1, UnderstandingInvariant, PTL
=============================================================================
