------------------------- MODULE RentalTerminal_proofs -------------------------
(***************************************************************************)
(* The terminal of "My Instances" is the screen of TerminalScreen, skips   *)
(* no output and sends no line to another session, proved for any number   *)
(* of sessions, clicks and chunks.                                         *)
(***************************************************************************)
EXTENDS RentalTerminal, SequenceTheorems, TLAPS

Chunks == [sess : Sessions, seq : 1 .. MaxChunks]

(* A session on the screen was handed out. *)
IdsIssued == {active, shown} \subseteq issued \cup {NoSession}

(* Only the effect of the rendered session waits for an answer. *)
OnlyShownAsks == \A s \in Sessions : poll[s].at = "asked" => s = shown

(* What may be asked for next comes after all that is on the screen of the
   session that asks, and a session that is not rendered yet has nothing there. *)
AsksForLater ==
  \A i \in DOMAIN screen :
    /\ screen[i].sess \in issued
    /\ screen[i].sess = active => active = shown
    /\ screen[i].sess = shown =>
         /\ screen[i].seq <= seq
         /\ poll[shown].at = "asked" => screen[i].seq <= poll[shown].after

(* Between a change of sessions and its Render the new session starts from
   nothing, unless something slips in. *)
StartsBlank ==
  ~slipped /\ active # shown => screen = <<>> /\ seq = 0 /\ draft = NoSession

(* The effect of the session on the screen asks for what comes next. *)
AsksForNext ==
  ~slipped /\ active = shown /\ shown # NoSession /\ poll[shown].at = "asked" => poll[shown].after = seq

(* A line is sent to a session and was typed under one. *)
LinesHaveASession == \A c \in calls : c.kind = "write" => {c.sess, c.typed} \subseteq Sessions

(* The input line, and the lines on their way, are for the session they were
   typed under. *)
LinesKeepTheirSession ==
  ~slipped => /\ draft \in {NoSession, active}
              /\ \A c \in calls : c.kind = "write" => c.sess = c.typed

ShownInv == TypeOK /\ IdsIssued /\ OnlyShownAsks /\ AsksForLater /\ LinesHaveASession

TerminalInv ==
  /\ ShownInv
  /\ StartsBlank /\ AsksForNext /\ LinesKeepTheirSession
  /\ NothingSkipped /\ InputReachesItsSession

----------------------------------------------------------------------------
(* Pages and what is kept of them. *)

LEMMA PageIsSeq ==
  ASSUME NEW s \in Sessions, NEW first \in Nat \ {0}, NEW last \in Nat, last >= first - 1, last <= MaxChunks
  PROVE  /\ Page(s, first, last) \in Seq(Chunks)
         /\ Len(Page(s, first, last)) = last - first + 1
         /\ \A i \in 1 .. (last - first + 1) : Page(s, first, last)[i] = [sess |-> s, seq |-> first + i - 1]
<1>. DEFINE n == last - first + 1
<1>1. n \in Nat
  OBVIOUS
<1>2. Page(s, first, last) \in [1 .. n -> Chunks]
  BY TerminalAssumption DEF Page, Chunks
<1>3. Page(s, first, last) \in Seq(Chunks)
  BY <1>1, <1>2, SeqDef
<1>4. Len(Page(s, first, last)) = n
  BY <1>1, <1>2, <1>3, LenProperties
<1>. QED BY <1>3, <1>4 DEF Page

(* Whatever is on the screen after an answer was there before or is of the answer. *)
LEMMA AppendKeeps ==
  ASSUME NEW out \in Seq(Chunks), Len(out) <= Cap, NEW more \in Seq(Chunks),
         NEW new, new = AppendTerminalChunk(out, more)
  PROVE  /\ new \in Seq(Chunks) /\ Len(new) <= Cap
         /\ \A i \in DOMAIN new : \/ \E j \in DOMAIN out : new[i] = out[j]
                                  \/ \E j \in DOMAIN more : new[i] = more[j]
<1>. DEFINE all == out \o more
<1>. Cap \in Nat \ {0}
  BY TerminalAssumption
<1>1. Len(out) \in Nat /\ DOMAIN out = 1 .. Len(out) /\ Len(more) \in Nat /\ DOMAIN more = 1 .. Len(more)
  BY LenProperties
<1>2. /\ all \in Seq(Chunks) /\ Len(all) = Len(out) + Len(more)
      /\ \A k \in 1 .. Len(out) + Len(more) : all[k] = IF k <= Len(out) THEN out[k] ELSE more[k - Len(out)]
  BY ConcatProperties
<1>3. \A k \in 1 .. Len(all) : /\ all[k] \in Chunks
                               /\ \/ \E j \in DOMAIN out : all[k] = out[j]
                                  \/ \E j \in DOMAIN more : all[k] = more[j]
  <2>1. TAKE k \in 1 .. Len(all)
  <2>2. CASE k <= Len(out)
    BY <1>1, <1>2, <2>2, ElementOfSeq
  <2>3. CASE k > Len(out)
    <3>1. k - Len(out) \in 1 .. Len(more)
      BY <1>1, <1>2, <2>3
    <3>. QED BY <1>1, <1>2, <2>3, <3>1, ElementOfSeq
  <2>. QED BY <1>1, <2>2, <2>3
<1>4. CASE Len(all) <= Cap
  <2>1. new = all
    BY <1>4 DEF AppendTerminalChunk
  <2>2. DOMAIN new = 1 .. Len(all)
    BY <1>2, <2>1, LenProperties
  <2>. HIDE DEF all
  <2>. QED BY <1>2, <1>3, <1>4, <2>1, <2>2
<1>5. CASE Len(all) > Cap
  <2>. DEFINE d == Len(all) - Cap
  <2>1. new = SubSeq(all, d + 1, Len(all))
    BY <1>5 DEF AppendTerminalChunk
  <2>. HIDE DEF all
  <2>2. d \in Nat /\ Len(all) \in Int /\ Cap = Len(all) - (d + 1) + 1 /\ d + 1 <= Len(all)
    BY <1>1, <1>2, <1>5
  <2>3. \A i \in d + 1 .. Len(all) : all[i] \in Chunks
    BY <1>3, <2>2
  <2>. HIDE DEF d
  <2>4. /\ new \in Seq(Chunks) /\ Len(new) = Cap
        /\ \A i \in 1 .. Cap : new[i] = all[(d + 1) + i - 1]
    BY <2>1, <2>2, <2>3, SubSeqProperties
  <2>5. DOMAIN new = 1 .. Cap
    BY <2>4, LenProperties
  <2>6. ASSUME NEW i \in 1 .. Cap
        PROVE  \/ \E j \in DOMAIN out : new[i] = out[j]
               \/ \E j \in DOMAIN more : new[i] = more[j]
    <3>1. (d + 1) + i - 1 \in 1 .. Len(all)
      BY <2>2
    <3>2. new[i] = all[(d + 1) + i - 1]
      BY <2>4
    <3>. QED BY <1>3, <3>1, <3>2
  <2>. QED BY <2>4, <2>5, <2>6
<1>6. Len(all) \in Nat
  BY <1>1, <1>2
<1>. QED BY <1>4, <1>5, <1>6

(* A page and the page that follows it. *)
LEMMA PagesJoin ==
  ASSUME NEW s \in Sessions, NEW f \in Nat \ {0}, NEW q \in Nat, NEW last \in Nat,
         f - 1 <= q, q <= last, last <= MaxChunks
  PROVE  Page(s, f, q) \o Page(s, q + 1, last) = Page(s, f, last)
<1>. PICK out : out = Page(s, f, q)
  OBVIOUS
<1>. PICK more : more = Page(s, q + 1, last)
  OBVIOUS
<1>. PICK goal : goal = Page(s, f, last)
  OBVIOUS
<1>. MaxChunks \in Nat
  BY TerminalAssumption
<1>1. /\ out \in Seq(Chunks) /\ Len(out) = q - f + 1
      /\ \A i \in 1 .. (q - f + 1) : out[i] = [sess |-> s, seq |-> f + i - 1]
  <2>1. q >= f - 1 /\ q <= MaxChunks
    OBVIOUS
  <2>. QED BY <2>1, PageIsSeq
<1>2. /\ more \in Seq(Chunks) /\ Len(more) = last - (q + 1) + 1
      /\ \A i \in 1 .. (last - (q + 1) + 1) : more[i] = [sess |-> s, seq |-> (q + 1) + i - 1]
  <2>1. q + 1 \in Nat \ {0} /\ last >= (q + 1) - 1
    OBVIOUS
  <2>. QED BY <2>1, PageIsSeq
<1>3. /\ goal \in Seq(Chunks) /\ Len(goal) = last - f + 1
      /\ \A i \in 1 .. (last - f + 1) : goal[i] = [sess |-> s, seq |-> f + i - 1]
  <2>1. last >= f - 1
    OBVIOUS
  <2>. QED BY <2>1, PageIsSeq
<1>0. PICK both : both = out \o more
  OBVIOUS
<1>4. /\ both \in Seq(Chunks) /\ Len(both) = Len(out) + Len(more)
      /\ \A k \in 1 .. Len(out) + Len(more) :
           both[k] = IF k <= Len(out) THEN out[k] ELSE more[k - Len(out)]
  BY <1>0, <1>1, <1>2, ConcatProperties
<1>5. Len(out) + Len(more) = last - f + 1
  BY <1>1, <1>2
<1>6. ASSUME NEW k \in 1 .. (last - f + 1) PROVE both[k] = goal[k]
  <2>. DEFINE n == q - f + 1
  <2>0. k \in 1 .. Len(out) + Len(more) /\ n = Len(out) /\ n \in Nat
    BY <1>1, <1>5
  <2>1. CASE k <= n
    <3>1. both[k] = out[k] /\ k \in 1 .. n
      BY <1>4, <2>0, <2>1
    <3>. QED BY <1>1, <1>3, <3>1
  <2>2. CASE k > n
    <3>1. k - n \in 1 .. (last - (q + 1) + 1) /\ (q + 1) + (k - n) - 1 = f + k - 1
      BY <2>2
    <3>2. both[k] = more[k - n]
      BY <1>4, <2>0, <2>2
    <3>. QED BY <1>2, <1>3, <3>1, <3>2
  <2>. QED BY <2>0, <2>1, <2>2
<1>7. both = goal
  <2>1. Len(both) = Len(goal) /\ \A k \in 1 .. Len(both) : both[k] = goal[k]
    BY <1>3, <1>4, <1>5, <1>6
  <2>. QED BY <1>3, <1>4, <2>1, SeqEqual
<1>. QED BY <1>0, <1>7

(* What is left of a page when its oldest chunks are forgotten. *)
LEMMA PageCut ==
  ASSUME NEW s \in Sessions, NEW f \in Nat \ {0}, NEW d \in Nat, NEW last \in Nat,
         f + d <= last, last <= MaxChunks
  PROVE  SubSeq(Page(s, f, last), d + 1, last - f + 1) = Page(s, f + d, last)
<1>. PICK out : out = Page(s, f, last)
  OBVIOUS
<1>. PICK goal : goal = Page(s, f + d, last)
  OBVIOUS
<1>. DEFINE n == last - f + 1
<1>1. /\ out \in Seq(Chunks) /\ Len(out) = n
      /\ \A i \in 1 .. n : out[i] = [sess |-> s, seq |-> f + i - 1]
  <2>1. last >= f - 1
    OBVIOUS
  <2>. QED BY <2>1, PageIsSeq
<1>2. /\ goal \in Seq(Chunks) /\ Len(goal) = last - (f + d) + 1
      /\ \A i \in 1 .. (last - (f + d) + 1) : goal[i] = [sess |-> s, seq |-> (f + d) + i - 1]
  <2>1. f + d \in Nat \ {0} /\ last >= (f + d) - 1
    OBVIOUS
  <2>. QED BY <2>1, PageIsSeq
<1>3. /\ d + 1 \in Int /\ n \in Int /\ d + 1 <= n /\ n - (d + 1) + 1 = last - (f + d) + 1
      /\ \A i \in d + 1 .. n : i \in 1 .. n
  OBVIOUS
<1>4. \A i \in d + 1 .. n : out[i] \in Chunks
  BY <1>1, <1>3, ElementOfSeq
<1>. HIDE DEF n
<1>5. /\ SubSeq(out, d + 1, n) \in Seq(Chunks) /\ Len(SubSeq(out, d + 1, n)) = n - (d + 1) + 1
      /\ \A i \in 1 .. n - (d + 1) + 1 : SubSeq(out, d + 1, n)[i] = out[(d + 1) + i - 1]
  BY <1>3, <1>4, SubSeqProperties
<1>6. ASSUME NEW i \in 1 .. n - (d + 1) + 1 PROVE SubSeq(out, d + 1, n)[i] = goal[i]
  <2>1. (d + 1) + i - 1 \in 1 .. n /\ f + ((d + 1) + i - 1) - 1 = (f + d) + i - 1
    BY <1>3
  <2>. QED BY <1>1, <1>2, <1>3, <1>5, <2>1
<1>. QED BY <1>2, <1>3, <1>5, <1>6, SeqEqual DEF n

(* A screen that holds the newest chunks of a session up to q still does so
   when those after q are appended. *)
FirstKept(q) == IF q > Cap THEN q - Cap + 1 ELSE 1

LEMMA AppendNext ==
  ASSUME NEW s \in Sessions, NEW q \in 0 .. MaxChunks, NEW last \in 0 .. MaxChunks, q <= last
  PROVE  AppendTerminalChunk(Page(s, FirstKept(q), q), Page(s, q + 1, last)) = Page(s, FirstKept(last), last)
<1>. PICK f : f = FirstKept(q)
  OBVIOUS
<1>. PICK all : all = Page(s, f, last)
  OBVIOUS
<1>. Cap \in Nat \ {0} /\ MaxChunks \in Nat
  BY TerminalAssumption
<1>0. q \in Nat /\ last \in Nat /\ last <= MaxChunks
  OBVIOUS
<1>1. f \in Nat \ {0} /\ f - 1 <= q /\ q \in Nat /\ last \in Nat /\ last <= MaxChunks /\ (f = 1 \/ f = q - Cap + 1) /\ last >= f - 1
  <2>1. CASE q > Cap
    BY <1>0, <2>1 DEF FirstKept
  <2>2. CASE ~(q > Cap)
    BY <1>0, <2>2 DEF FirstKept
  <2>. QED BY <2>1, <2>2
<1>2. Page(s, f, q) \o Page(s, q + 1, last) = all
  BY <1>1, PagesJoin
<1>3. Len(all) = last - f + 1
  BY <1>1, PageIsSeq
<1>4. CASE Len(all) <= Cap
  <2>1. FirstKept(last) = f
    BY <1>1, <1>3, <1>4 DEF FirstKept
  <2>. QED BY <1>2, <1>4, <2>1 DEF AppendTerminalChunk
<1>5. CASE Len(all) > Cap
  <2>. DEFINE d == Len(all) - Cap
  <2>1. d \in Nat /\ f + d <= last /\ FirstKept(last) = f + d /\ Len(all) - Cap + 1 = d + 1
    BY <1>1, <1>3, <1>5 DEF FirstKept
  <2>. HIDE DEF d
  <2>2. SubSeq(Page(s, f, last), d + 1, last - f + 1) = Page(s, f + d, last)
    <3>1. d \in Nat /\ f + d <= last
      BY <2>1
    <3>2. f \in Nat \ {0} /\ last \in Nat /\ last <= MaxChunks
      BY <1>1
    <3>. QED BY <3>1, <3>2, PageCut
  <2>3. SubSeq(all, d + 1, Len(all)) = Page(s, f + d, last)
    BY <1>3, <2>2
  <2>4. ~(Len(all) <= Cap)
    BY <1>1, <1>3, <1>5
  <2>5. AppendTerminalChunk(Page(s, f, q), Page(s, q + 1, last)) = SubSeq(all, Len(all) - Cap + 1, Len(all))
    BY <1>2, <2>4, Zenon DEF AppendTerminalChunk
  <2>. QED BY <2>1, <2>3, <2>5
<1>6. Len(all) \in Int
  BY <1>1, <1>3
<1>. QED BY <1>4, <1>5, <1>6

----------------------------------------------------------------------------
(* What the effect of a session is answered with. *)

LEMMA AnswerGrows ==
  ASSUME ShownInv, NEW s \in Sessions, PollAnswered(s), screen' # screen \/ seq' # seq
  PROVE  \E last \in 1 .. written[s] :
           /\ poll[s].after \in 0 .. last - 1
           /\ last <= MaxChunks
           /\ seq' = last
           /\ screen' = AppendTerminalChunk(screen, Page(s, poll[s].after + 1, last))
           /\ slipped' = (slipped \/ active # s)
<1>. PageLimit \in Nat \ {0} /\ MaxChunks \in Nat
  BY TerminalAssumption
<1>1. poll[s].after \in 0 .. MaxChunks /\ poll[s].stored \in 0 .. MaxChunks /\ written[s] \in 0 .. MaxChunks
  BY DEF ShownInv, TypeOK
<1>2. PICK stored \in poll[s].stored .. written[s] :
        LET from == poll[s].after + 1
            last == IF stored - poll[s].after > PageLimit THEN poll[s].after + PageLimit ELSE stored
        IN IF last < from
             THEN UNCHANGED <<seq, screen, slipped>>
             ELSE /\ seq' = last
                  /\ screen' = AppendTerminalChunk(screen, Page(s, from, last))
                  /\ slipped' = (slipped \/ active # s)
  BY DEF PollAnswered
<1>. DEFINE last == IF stored - poll[s].after > PageLimit THEN poll[s].after + PageLimit ELSE stored
<1>3. last \in Int /\ last <= stored
  BY <1>1
<1>4. ~(last < poll[s].after + 1)
  BY <1>2
<1>5. last \in 1 .. written[s] /\ poll[s].after \in 0 .. last - 1 /\ last <= MaxChunks
  BY <1>1, <1>3, <1>4
<1>6. /\ seq' = last
      /\ screen' = AppendTerminalChunk(screen, Page(s, poll[s].after + 1, last))
      /\ slipped' = (slipped \/ active # s)
  BY <1>2, <1>4
<1>. HIDE DEF last
<1>. QED BY <1>5, <1>6

(* The screen after an answer: what was there, or of that answer. *)
LEMMA AnswerKeeps ==
  ASSUME ShownInv, NEW s \in Sessions, NEW after \in Nat, NEW last \in Nat, after < last, last <= MaxChunks,
         screen' = AppendTerminalChunk(screen, Page(s, after + 1, last))
  PROVE  /\ screen' \in Seq(Chunks) /\ Len(screen') <= Cap
         /\ \A i \in DOMAIN screen' :
              \/ \E j \in DOMAIN screen : screen'[i] = screen[j]
              \/ screen'[i].sess = s /\ screen'[i].seq \in after + 1 .. last
<1>. PICK more : more = Page(s, after + 1, last)
  OBVIOUS
<1>. MaxChunks \in Nat
  BY TerminalAssumption
<1>1. /\ more \in Seq(Chunks) /\ Len(more) = last - (after + 1) + 1
      /\ \A i \in 1 .. last - (after + 1) + 1 : more[i] = [sess |-> s, seq |-> (after + 1) + i - 1]
  <2>1. after + 1 \in Nat \ {0} /\ last >= (after + 1) - 1
    OBVIOUS
  <2>. QED BY <2>1, PageIsSeq
<1>2. screen \in Seq(Chunks) /\ Len(screen) <= Cap
  BY DEF ShownInv, TypeOK, Chunks
<1>3. /\ screen' \in Seq(Chunks) /\ Len(screen') <= Cap
      /\ \A i \in DOMAIN screen' : \/ \E j \in DOMAIN screen : screen'[i] = screen[j]
                                   \/ \E j \in DOMAIN more : screen'[i] = more[j]
  <2>1. screen' = AppendTerminalChunk(screen, more)
    OBVIOUS
  <2>. QED BY <1>1, <1>2, <2>1, AppendKeeps
<1>4. DOMAIN more = 1 .. last - (after + 1) + 1
  BY <1>1, LenProperties
<1>5. ASSUME NEW j \in DOMAIN more PROVE more[j].sess = s /\ more[j].seq \in after + 1 .. last
  <2>1. j \in 1 .. last - (after + 1) + 1 /\ more[j] = [sess |-> s, seq |-> (after + 1) + j - 1]
    BY <1>1, <1>4
  <2>2. (after + 1) + j - 1 \in after + 1 .. last
    BY <2>1
  <2>. QED BY <2>1, <2>2
<1>. QED BY <1>3, <1>5

----------------------------------------------------------------------------
(* Every action keeps the types. *)

LEMMA TypeInit == Init => TypeOK
<1>. SUFFICES ASSUME Init PROVE TypeOK
  OBVIOUS
<1>1. screen \in Seq([sess : Sessions, seq : 1 .. MaxChunks]) /\ Len(screen) <= Cap
  BY EmptySeq, TerminalAssumption DEF Init
<1>2. written \in [Sessions -> 0 .. MaxChunks] /\ clicks \in 0 .. MaxClicks /\ seq \in 0 .. MaxChunks
  BY TerminalAssumption DEF Init
<1>3. poll \in [Sessions -> [at : {"idle", "asked"}, after : 0 .. MaxChunks, stored : 0 .. MaxChunks]]
  BY TerminalAssumption DEF Init, Quiet
<1>. QED BY <1>1, <1>2, <1>3 DEF Init, TypeOK

LEMMA ClickTypes ==
  ASSUME TypeOK, NEW kind \in {"open", "write", "close"},
         NEW s \in Sessions \cup {NoSession}, NEW typed \in Sessions \cup {NoSession},
         Click(kind, s, typed)
  PROVE  calls' \subseteq Call /\ clicks' \in 0 .. MaxClicks
<1>1. MaxClicks \in Nat /\ clicks \in 0 .. MaxClicks /\ clicks < MaxClicks /\ clicks' = clicks + 1
  BY TerminalAssumption DEF TypeOK, Click
<1>2. clicks + 1 \in 1 .. MaxClicks
  BY <1>1
<1>3. [id |-> clicks + 1, kind |-> kind, sess |-> s, typed |-> typed] \in Call
  BY <1>2 DEF Call
<1>. QED BY <1>1, <1>2, <1>3 DEF TypeOK, Click

LEMMA TypeStep ==
  ASSUME ShownInv, [Next]_vars
  PROVE  TypeOK'
<1>. Cap \in Nat \ {0} /\ MaxChunks \in Nat /\ MaxClicks \in Nat
  BY TerminalAssumption
<1>. TypeOK
  BY DEF ShownInv
<1>e. <<>> \in Seq([sess : Sessions, seq : 1 .. MaxChunks]) /\ Len(<<>>) <= Cap
  BY EmptySeq
<1>1. ASSUME NEW s \in Sessions, Write(s) PROVE TypeOK'
  <2>1. written' \in [Sessions -> 0 .. MaxChunks]
    <3>1. written \in [Sessions -> 0 .. MaxChunks]
      BY DEF TypeOK
    <3>2. written[s] + 1 \in 0 .. MaxChunks
      BY <1>1, <3>1 DEF Write
    <3>. QED BY <1>1, <3>1, <3>2 DEF Write
  <2>. QED BY <1>1, <2>1 DEF TypeOK, Write, view
<1>2. ASSUME NEW s \in Sessions, PollTick(s) PROVE TypeOK'
  BY <1>2 DEF TypeOK, PollTick, Asking, served, view
<1>3. ASSUME NEW s \in Sessions, PollAnswered(s) PROVE TypeOK'
  <2>1. poll' \in [Sessions -> [at : {"idle", "asked"}, after : 0 .. MaxChunks, stored : 0 .. MaxChunks]]
    BY <1>3 DEF TypeOK, PollAnswered, Quiet
  <2>2. /\ screen' \in Seq([sess : Sessions, seq : 1 .. MaxChunks]) /\ Len(screen') <= Cap
        /\ seq' \in 0 .. MaxChunks /\ slipped' \in BOOLEAN
    <3>1. CASE screen' # screen \/ seq' # seq
      <4>1. PICK last \in 1 .. written[s] :
           /\ poll[s].after \in 0 .. last - 1
           /\ last <= MaxChunks
           /\ seq' = last
           /\ screen' = AppendTerminalChunk(screen, Page(s, poll[s].after + 1, last))
           /\ slipped' = (slipped \/ active # s)
        BY <1>3, <3>1, AnswerGrows
      <4>2. poll[s].after \in Nat /\ last \in Nat /\ poll[s].after < last /\ last \in 0 .. MaxChunks
        <5>1. written[s] \in 0 .. MaxChunks
          BY DEF TypeOK
        <5>. QED BY <4>1, <5>1
      <4>3. screen' \in Seq(Chunks) /\ Len(screen') <= Cap
        BY <4>1, <4>2, AnswerKeeps
      <4>. QED BY <4>1, <4>2, <4>3 DEF Chunks, TypeOK
    <3>2. CASE ~(screen' # screen \/ seq' # seq)
      BY <1>3, <3>2 DEF TypeOK, PollAnswered
    <3>. QED BY <3>1, <3>2
  <2>. QED BY <1>3, <2>1, <2>2 DEF TypeOK, PollAnswered, served
<1>4. ASSUME NEW s \in Sessions, PollFailed(s) PROVE TypeOK'
  <2>1. poll' \in [Sessions -> [at : {"idle", "asked"}, after : 0 .. MaxChunks, stored : 0 .. MaxChunks]]
    BY <1>4 DEF TypeOK, PollFailed, Quiet
  <2>. QED BY <1>4, <2>1 DEF TypeOK, PollFailed, served, view
<1>5. CASE Render
  <2>1. poll' \in [Sessions -> [at : {"idle", "asked"}, after : 0 .. MaxChunks, stored : 0 .. MaxChunks]]
    BY <1>5 DEF TypeOK, Render, EffectOf, Asking, Quiet
  <2>. QED BY <1>5, <2>1 DEF TypeOK, Render, served
<1>6. CASE OpenTerminal
  <2>1. calls' \subseteq Call /\ clicks' \in 0 .. MaxClicks
    BY <1>6, ClickTypes DEF OpenTerminal
  <2>. QED BY <1>6, <2>1 DEF TypeOK, OpenTerminal, served
<1>7. ASSUME NEW c \in calls, TerminalOpened(c) PROVE TypeOK'
  <2>1. /\ screen' \in Seq([sess : Sessions, seq : 1 .. MaxChunks]) /\ Len(screen') <= Cap
        /\ seq' \in 0 .. MaxChunks /\ draft' = NoSession
    BY <1>e, <1>7 DEF TerminalOpened, Blank
  <2>2. issued' \subseteq Sessions /\ active' \in Sessions
    BY <1>7 DEF TypeOK, TerminalOpened
  <2>. QED BY <1>7, <2>1, <2>2 DEF TypeOK, TerminalOpened
<1>8. ASSUME NEW c \in calls, OpenFailed(c) PROVE TypeOK'
  BY <1>8 DEF TypeOK, OpenFailed, view
<1>9. CASE Type
  BY <1>9 DEF TypeOK, Type, served
<1>10. CASE SendTerminalInput
  <2>1. calls' \subseteq Call /\ clicks' \in 0 .. MaxClicks
    BY <1>10, ClickTypes DEF SendTerminalInput, TypeOK
  <2>. QED BY <1>10, <2>1 DEF TypeOK, SendTerminalInput, served, view
<1>11. ASSUME NEW c \in calls, InputSent(c) \/ InputFailed(c) PROVE TypeOK'
  <2>1. <<c.sess, c.typed>> \in Sessions \X Sessions
    BY <1>11 DEF ShownInv, LinesHaveASession, InputSent, InputFailed
  <2>2. delivered' \in {delivered, delivered \cup {<<c.sess, c.typed>>}}
    BY <1>11 DEF InputSent, InputFailed
  <2>. delivered' \subseteq Sessions \X Sessions
    BY <2>1, <2>2 DEF TypeOK
  <2>3. CASE InputSent(c)
    BY <2>3 DEF TypeOK, InputSent, served
  <2>4. CASE InputFailed(c)
    BY <2>4 DEF TypeOK, InputFailed, served, view
  <2>. QED BY <1>11, <2>3, <2>4
<1>12. CASE CloseActiveTerminal
  <2>1. calls' \subseteq Call /\ clicks' \in 0 .. MaxClicks
    BY <1>12, ClickTypes DEF CloseActiveTerminal, TypeOK
  <2>2. UNCHANGED <<served, view, poll, delivered, slipped>>
    BY <1>12 DEF CloseActiveTerminal
  <2>. QED BY <2>1, <2>2 DEF TypeOK, served, view
<1>13. ASSUME NEW c \in calls, TerminalClosed(c) PROVE TypeOK'
  BY <1>e, <1>13, SMTT(30) DEF TypeOK, TerminalClosed, Blank, served
<1>14. CASE Leave
  <2>1. poll' \in [Sessions -> [at : {"idle", "asked"}, after : 0 .. MaxChunks, stored : 0 .. MaxChunks]]
    BY <1>14 DEF Leave, Quiet
  <2>2. delivered' \subseteq Sessions \X Sessions
    BY <1>14 DEF TypeOK, Leave, ShownInv, LinesHaveASession
  <2>3. /\ screen' \in Seq([sess : Sessions, seq : 1 .. MaxChunks]) /\ Len(screen') <= Cap
        /\ seq' \in 0 .. MaxChunks /\ draft' = NoSession
    BY <1>e, <1>14 DEF Leave, Blank
  <2>4. clicks' \in 0 .. MaxClicks
    BY <1>14 DEF TypeOK, Leave
  <2>. QED BY <1>14, <2>1, <2>2, <2>3, <2>4 DEF TypeOK, Leave, served
<1>15. CASE UNCHANGED vars
  BY <1>15 DEF TypeOK, vars, served, view
<1>. QED
  BY <1>1, <1>2, <1>3, <1>4, <1>5, <1>6, <1>7, <1>8, <1>9, <1>10, <1>11, <1>12, <1>13, <1>14, <1>15
     DEF Next, Answered, TerminalCard

----------------------------------------------------------------------------
(* Every action keeps the invariant. *)

LEMMA TerminalInit == Init => TerminalInv
<1>. SUFFICES ASSUME Init PROVE TerminalInv
  OBVIOUS
<1>1. TypeOK
  BY TypeInit
<1>2. IdsIssued /\ OnlyShownAsks /\ LinesHaveASession
  BY DEF Init, Quiet, IdsIssued, OnlyShownAsks, LinesHaveASession
<1>3. AsksForLater
  <2>1. DOMAIN screen = {}
    BY EmptySeq DEF Init
  <2>. QED BY <2>1 DEF AsksForLater
<1>4. StartsBlank /\ AsksForNext /\ LinesKeepTheirSession /\ NothingSkipped /\ InputReachesItsSession
  BY DEF Init, StartsBlank, AsksForNext, LinesKeepTheirSession, NothingSkipped, InputReachesItsSession
<1>. QED BY <1>1, <1>2, <1>3, <1>4 DEF TerminalInv, ShownInv

(* An empty screen holds the chunks of a session that wrote none. *)
LEMMA BlankPage == \A s : Page(s, IF 0 > Cap THEN 0 - Cap + 1 ELSE 1, 0) = <<>>
<1>. Cap \in Nat \ {0}
  BY TerminalAssumption
<1>. TAKE s
<1>1. (IF 0 > Cap THEN 0 - Cap + 1 ELSE 1) = 1 /\ 0 - 1 + 1 = 0 /\ 1 .. 0 = {}
  OBVIOUS
<1>2. Page(s, 1, 0) = <<>>
  BY <1>1 DEF Page
<1>. QED BY <1>1, <1>2

(* What a step owes to the invariant besides the types. *)
Rest == /\ IdsIssued /\ OnlyShownAsks /\ AsksForLater /\ LinesHaveASession
        /\ StartsBlank /\ AsksForNext /\ LinesKeepTheirSession
        /\ NothingSkipped /\ InputReachesItsSession

(* A screen that was emptied. *)
LEMMA BlankKeeps ==
  ASSUME Blank
  PROVE  /\ AsksForLater'
         /\ StartsBlank'
         /\ NothingSkipped'
<1>. screen' = <<>> /\ seq' = 0 /\ draft' = NoSession
  BY DEF Blank
<1>1. DOMAIN screen' = {}
  BY EmptySeq
<1>. QED BY <1>1, BlankPage DEF AsksForLater, StartsBlank, NothingSkipped

LEMMA RestStep ==
  ASSUME TerminalInv, [Next]_vars
  PROVE  Rest'
<1>. TypeOK /\ Rest
  BY DEF TerminalInv, ShownInv, Rest
<1>. NoSession \notin Sessions
  BY TerminalAssumption
<1>1. ASSUME NEW s \in Sessions, Write(s) PROVE Rest'
  BY <1>1 DEF Rest, IdsIssued, OnlyShownAsks, AsksForLater, LinesHaveASession, StartsBlank, AsksForNext,
     LinesKeepTheirSession, NothingSkipped, InputReachesItsSession, Write, view
<1>2. ASSUME NEW s \in Sessions, PollTick(s) PROVE Rest'
  <2>1. shown = s /\ shown \in Sessions /\ poll' = [poll EXCEPT ![s] = Asking(s, seq)]
    BY <1>2 DEF PollTick
  <2>2. /\ poll'[s].at = "asked" /\ poll'[s].after = seq
        /\ \A t \in Sessions \ {s} : poll'[t] = poll[t]
    BY <2>1 DEF Asking, TypeOK
  <2>3. UNCHANGED <<written, issued, active, shown, seq, screen, draft, calls, delivered, slipped>>
    BY <1>2 DEF PollTick, served, view
  <2>4. OnlyShownAsks' /\ AsksForLater' /\ AsksForNext'
    BY <2>1, <2>2, <2>3 DEF Rest, OnlyShownAsks, AsksForLater, AsksForNext
  <2>. QED BY <2>3, <2>4 DEF Rest, IdsIssued, LinesHaveASession, StartsBlank,
              LinesKeepTheirSession, NothingSkipped, InputReachesItsSession
<1>3. ASSUME NEW s \in Sessions, PollAnswered(s) PROVE Rest'
  <2>1. shown = s /\ poll[s].at = "asked" /\ shown \in issued
    BY <1>3 DEF PollAnswered, Rest, OnlyShownAsks, IdsIssued
  <2>2. /\ poll'[s].at = "idle"
        /\ \A t \in Sessions \ {s} : poll'[t] = poll[t]
    BY <1>3 DEF PollAnswered, TypeOK, Quiet
  <2>3. UNCHANGED <<written, issued, active, shown, draft, calls, delivered>>
    BY <1>3 DEF PollAnswered, served
  <2>4. OnlyShownAsks' /\ AsksForNext' /\ IdsIssued' /\ LinesHaveASession'
    BY <2>1, <2>2, <2>3 DEF Rest, OnlyShownAsks, AsksForNext, IdsIssued, LinesHaveASession
  <2>5. CASE screen' # screen \/ seq' # seq
    <3>1. PICK last \in 1 .. written[s] :
            /\ poll[s].after \in 0 .. last - 1
            /\ last <= MaxChunks
            /\ seq' = last
            /\ screen' = AppendTerminalChunk(screen, Page(s, poll[s].after + 1, last))
            /\ slipped' = (slipped \/ active # s)
      BY <1>3, <2>5, AnswerGrows DEF TerminalInv
    <3>2. poll[s].after \in Nat /\ last \in Nat /\ poll[s].after < last
      <4>1. written[s] \in Nat
        BY DEF TypeOK
      <4>. QED BY <3>1, <4>1
    <3>3. \A i \in DOMAIN screen' :
              \/ \E j \in DOMAIN screen : screen'[i] = screen[j]
              \/ screen'[i].sess = s /\ screen'[i].seq \in poll[s].after + 1 .. last
      BY <3>1, <3>2, AnswerKeeps DEF TerminalInv
    <3>4. AsksForLater'
      <4>1. ASSUME NEW j \in DOMAIN screen, screen[j].sess = s PROVE screen[j].seq <= last
        <5>1. screen[j].seq <= poll[s].after
          BY <2>1, <4>1 DEF Rest, AsksForLater
        <5>2. screen[j].seq \in Int
          <6>1. screen \in Seq(Chunks)
            BY DEF TypeOK, Chunks
          <6>2. screen[j] \in Chunks
            BY <6>1, LenProperties, ElementOfSeq
          <6>. QED BY <6>2 DEF Chunks
        <5>. QED BY <3>2, <5>1, <5>2
      <4>2. \A j \in DOMAIN screen : screen[j].sess \in issued /\ (screen[j].sess = active => active = shown)
        BY DEF Rest, AsksForLater
      <4>3. ASSUME NEW i \in DOMAIN screen'
            PROVE  /\ screen'[i].sess \in issued
                   /\ screen'[i].sess = active => active = shown
                   /\ screen'[i].sess = s => screen'[i].seq <= last
        BY <2>1, <3>2, <3>3, <4>1, <4>2
      <4>. QED BY <2>1, <2>2, <2>3, <3>1, <4>3 DEF AsksForLater
    <3>5. ASSUME ~slipped' PROVE active = s /\ seq = poll[s].after /\ screen = Page(s, FirstKept(seq), seq) /\ ~slipped
      <4>1. ~slipped /\ active = s
        BY <3>1, <3>5
      <4>. QED BY <2>1, <4>1 DEF Rest, AsksForNext, NothingSkipped, FirstKept
    <3>6. NothingSkipped'
      <4>1. ASSUME ~slipped' PROVE screen' = Page(s, FirstKept(last), last)
        <5>1. seq \in 0 .. MaxChunks /\ last \in 0 .. MaxChunks /\ seq <= last
          BY <3>1, <3>2, <3>5, <4>1 DEF TypeOK
        <5>. QED BY <3>1, <3>5, <4>1, <5>1, AppendNext
      <4>. QED BY <2>3, <3>1, <3>5, <4>1 DEF NothingSkipped, FirstKept
    <3>7. StartsBlank' /\ LinesKeepTheirSession' /\ InputReachesItsSession'
      BY <2>1, <2>3, <3>1, <3>5 DEF Rest, StartsBlank, LinesKeepTheirSession, InputReachesItsSession
    <3>. QED BY <2>4, <3>4, <3>6, <3>7 DEF Rest
  <2>6. CASE screen' = screen /\ seq' = seq
    <3>1. ~slipped' => ~slipped
      BY <1>3 DEF PollAnswered
    <3>2. AsksForLater'
      BY <2>1, <2>2, <2>3, <2>6 DEF Rest, AsksForLater
    <3>3. StartsBlank' /\ LinesKeepTheirSession' /\ InputReachesItsSession' /\ NothingSkipped'
      BY <2>1, <2>3, <2>6, <3>1 DEF Rest, StartsBlank, LinesKeepTheirSession, InputReachesItsSession, NothingSkipped
    <3>. QED BY <2>4, <3>2, <3>3 DEF Rest
  <2>. QED BY <2>5, <2>6
<1>4. ASSUME NEW s \in Sessions, PollFailed(s) PROVE Rest'
  <2>1. /\ poll'[s].at = "idle"
        /\ \A t \in Sessions \ {s} : poll'[t] = poll[t]
    BY <1>4 DEF PollFailed, TypeOK, Quiet
  <2>2. UNCHANGED <<written, issued, active, shown, seq, screen, draft, calls, delivered, slipped>>
    BY <1>4 DEF PollFailed, served, view
  <2>3. poll[s].at = "asked"
    BY <1>4 DEF PollFailed
  <2>4. s = shown
    BY <2>3 DEF Rest, OnlyShownAsks
  <2>. QED BY <2>1, <2>2, <2>4 DEF Rest, OnlyShownAsks, AsksForLater, AsksForNext, IdsIssued, LinesHaveASession,
              StartsBlank, LinesKeepTheirSession, NothingSkipped, InputReachesItsSession
<1>5. CASE Render
  <2>1. UNCHANGED <<written, issued, active, seq, screen, draft, calls, delivered, slipped>> /\ shown' = active
    BY <1>5 DEF Render, served
  <2>2. IdsIssued' /\ LinesHaveASession' /\ StartsBlank' /\ LinesKeepTheirSession' /\ NothingSkipped' /\ InputReachesItsSession'
    BY <2>1 DEF Rest, IdsIssued, LinesHaveASession, StartsBlank, LinesKeepTheirSession, NothingSkipped, InputReachesItsSession
  <2>3. CASE shown = active
    <3>1. poll' = poll
      BY <1>5, <2>3 DEF Render
    <3>. QED BY <2>1, <2>2, <2>3, <3>1 DEF Rest, OnlyShownAsks, AsksForLater, AsksForNext
  <2>4. CASE shown # active
    <3>1. \A t \in Sessions : /\ poll'[t].at = "asked" => t = active
                              /\ t = active => poll'[t].after = seq
      BY <1>5, <2>4 DEF Render, EffectOf, Asking, Quiet
    <3>2. \A i \in DOMAIN screen : screen[i].sess # active /\ screen[i].sess \in issued
      BY <2>4 DEF Rest, AsksForLater
    <3>3. active \in Sessions \/ active = NoSession
      BY DEF TypeOK
    <3>4. OnlyShownAsks' /\ AsksForLater'
      BY <2>1, <3>1, <3>2 DEF OnlyShownAsks, AsksForLater
    <3>5. AsksForNext'
      BY <2>1, <3>1, <3>3 DEF AsksForNext
    <3>. QED BY <2>2, <3>4, <3>5 DEF Rest
  <2>. QED BY <2>3, <2>4
<1>6. CASE OpenTerminal \/ CloseActiveTerminal
  <2>1. UNCHANGED <<written, issued, active, shown, seq, screen, draft, poll, delivered, slipped>>
    BY <1>6 DEF OpenTerminal, CloseActiveTerminal, served, view
  <2>2. \A c \in calls' : c.kind = "write" => c \in calls
    BY <1>6 DEF OpenTerminal, CloseActiveTerminal, Click
  <2>. QED BY <2>1, <2>2 DEF Rest, OnlyShownAsks, AsksForLater, AsksForNext, IdsIssued, LinesHaveASession,
              StartsBlank, LinesKeepTheirSession, NothingSkipped, InputReachesItsSession
<1>7. ASSUME NEW c \in calls, TerminalOpened(c) PROVE Rest'
  <2>1. AsksForLater' /\ StartsBlank' /\ NothingSkipped'
    BY <1>7, BlankKeeps DEF TerminalOpened
  <2>2. PICK s \in Sessions \ issued : issued' = issued \cup {s} /\ active' = s
    BY <1>7 DEF TerminalOpened
  <2>3. UNCHANGED <<shown, poll, delivered, slipped>> /\ calls' \subseteq calls /\ draft' = NoSession
    BY <1>7 DEF TerminalOpened, Blank
  <2>4. shown # s
    BY <2>2 DEF Rest, IdsIssued
  <2>. QED BY <2>1, <2>2, <2>3, <2>4 DEF Rest, OnlyShownAsks, AsksForNext, IdsIssued, LinesHaveASession,
              LinesKeepTheirSession, InputReachesItsSession
<1>8. ASSUME NEW c \in calls, OpenFailed(c) PROVE Rest'
  <2>1. UNCHANGED <<written, active, shown, seq, screen, draft, poll, delivered, slipped>> /\ calls' \subseteq calls
    BY <1>8 DEF OpenFailed, view
  <2>2. issued \subseteq issued'
    BY <1>8 DEF OpenFailed
  <2>. QED BY <2>1, <2>2 DEF Rest, OnlyShownAsks, AsksForLater, AsksForNext, IdsIssued, LinesHaveASession,
              StartsBlank, LinesKeepTheirSession, NothingSkipped, InputReachesItsSession
<1>9. CASE Type
  <2>1. UNCHANGED <<written, issued, active, shown, seq, screen, poll, calls, delivered>>
    BY <1>9 DEF Type, served
  <2>2. draft' = shown /\ slipped' = (slipped \/ active # shown)
    BY <1>9 DEF Type
  <2>. QED BY <2>1, <2>2 DEF Rest, OnlyShownAsks, AsksForLater, AsksForNext, IdsIssued, LinesHaveASession,
              StartsBlank, LinesKeepTheirSession, NothingSkipped, InputReachesItsSession
<1>10. CASE SendTerminalInput
  <2>1. UNCHANGED <<written, issued, active, shown, seq, screen, draft, poll, delivered, slipped>>
    BY <1>10 DEF SendTerminalInput, served, view
  <2>2. shown # NoSession /\ draft # NoSession /\ {shown, draft} \subseteq Sessions
    BY <1>10 DEF SendTerminalInput, TypeOK
  <2>3. calls' = calls \cup {[id |-> clicks + 1, kind |-> "write", sess |-> shown, typed |-> draft]}
    BY <1>10 DEF SendTerminalInput, Click
  <2>4. ~slipped => shown = draft
    BY <2>2 DEF Rest, StartsBlank, LinesKeepTheirSession
  <2>5. LinesHaveASession' /\ LinesKeepTheirSession'
    BY <2>1, <2>2, <2>3, <2>4 DEF Rest, LinesHaveASession, LinesKeepTheirSession
  <2>. QED BY <2>1, <2>5 DEF Rest, OnlyShownAsks, AsksForLater, AsksForNext, IdsIssued,
              StartsBlank, NothingSkipped, InputReachesItsSession
<1>11. ASSUME NEW c \in calls, InputSent(c) \/ InputFailed(c) PROVE Rest'
  <2>1. UNCHANGED <<written, issued, active, shown, seq, screen, poll, slipped>> /\ calls' \subseteq calls
    BY <1>11 DEF InputSent, InputFailed, served, view
  <2>2. draft' \in {draft, NoSession} /\ c.kind = "write"
    BY <1>11 DEF InputSent, InputFailed, view
  <2>3. delivered' \subseteq delivered \cup {<<c.sess, c.typed>>}
    BY <1>11 DEF InputSent, InputFailed
  <2>4. ~slipped => c.sess = c.typed
    BY <2>2 DEF Rest, LinesKeepTheirSession
  <2>5. InputReachesItsSession'
    BY <2>1, <2>3, <2>4 DEF Rest, InputReachesItsSession
  <2>. QED BY <2>1, <2>2, <2>5 DEF Rest, OnlyShownAsks, AsksForLater, AsksForNext, IdsIssued, LinesHaveASession,
              StartsBlank, LinesKeepTheirSession, NothingSkipped
<1>12. ASSUME NEW c \in calls, TerminalClosed(c) PROVE Rest'
  <2>1. AsksForLater' /\ StartsBlank' /\ NothingSkipped'
    BY <1>12, BlankKeeps DEF TerminalClosed
  <2>2. /\ UNCHANGED <<issued, shown, poll, delivered, slipped>> /\ calls' \subseteq calls
        /\ active' = NoSession /\ draft' = NoSession
    BY <1>12 DEF TerminalClosed, Blank, served
  <2>. QED BY <2>1, <2>2 DEF Rest, OnlyShownAsks, AsksForNext, IdsIssued, LinesHaveASession,
              LinesKeepTheirSession, InputReachesItsSession
<1>13. CASE Leave
  <2>1. AsksForLater' /\ StartsBlank' /\ NothingSkipped'
    BY <1>13, BlankKeeps DEF Leave
  <2>2. /\ active' = NoSession /\ shown' = NoSession /\ draft' = NoSession /\ calls' = {}
        /\ UNCHANGED <<issued, slipped>>
    BY <1>13 DEF Leave, Blank, served
  <2>3. OnlyShownAsks' /\ AsksForNext'
    BY <1>13, <2>2 DEF Leave, Quiet, OnlyShownAsks, AsksForNext
  <2>4. InputReachesItsSession'
    <3>1. PICK late \in SUBSET {c \in calls : c.kind = "write"} :
            delivered' = delivered \cup {<<c.sess, c.typed>> : c \in late}
      BY <1>13 DEF Leave
    <3>2. ~slipped => \A c \in late : c.sess = c.typed
      BY <3>1 DEF Rest, LinesKeepTheirSession
    <3>. QED BY <2>2, <3>1, <3>2 DEF Rest, InputReachesItsSession
  <2>. QED BY <2>1, <2>2, <2>3, <2>4 DEF Rest, IdsIssued, LinesHaveASession, LinesKeepTheirSession
<1>14. CASE UNCHANGED vars
  BY <1>14 DEF vars, served, view, Rest, OnlyShownAsks, AsksForLater, AsksForNext, IdsIssued, LinesHaveASession,
     StartsBlank, LinesKeepTheirSession, NothingSkipped, InputReachesItsSession
<1>. QED
  BY <1>1, <1>2, <1>3, <1>4, <1>5, <1>6, <1>7, <1>8, <1>9, <1>10, <1>11, <1>12, <1>13, <1>14
     DEF Next, Answered, TerminalCard

(* The invariant of the terminal: an effect asks for what comes after all it
   has shown, and between a change of sessions and its Render nothing of the
   session before is left. *)
THEOREM TerminalInvariant == Spec => []TerminalInv
<1>1. Init => TerminalInv
  BY TerminalInit
<1>2. TerminalInv /\ [Next]_vars => TerminalInv'
  <2>. SUFFICES ASSUME TerminalInv, [Next]_vars PROVE TerminalInv'
    OBVIOUS
  <2>1. TypeOK'
    BY TypeStep DEF TerminalInv
  <2>2. Rest'
    BY RestStep
  <2>. QED BY <2>1, <2>2 DEF TerminalInv, ShownInv, Rest
<1>. QED BY <1>1, <1>2, PTL DEF Spec

(* Everything the panel keeps stays within its types; in particular the
   screen never holds more than its limit. *)
THEOREM TypeCorrect == Spec => []TypeOK
<1>1. TerminalInv => TypeOK
  BY DEF TerminalInv, ShownInv
<1>. QED BY <1>1, TerminalInvariant, PTL

(* Unless something slips in before a Render, the screen ends with the last
   chunk that was asked for and has no gap before it (pollTerminalOutput and
   appendTerminalChunk of ServerRentalPanel). *)
THEOREM NoOutputIsSkipped == Spec => []NothingSkipped
<1>1. TerminalInv => NothingSkipped
  BY DEF TerminalInv
<1>. QED BY <1>1, TerminalInvariant, PTL

(* Unless it was typed before a Render, input reaches the session it was
   typed under and no other (sendTerminalInput of ServerRentalPanel). *)
THEOREM InputIsNotMisdirected == Spec => []InputReachesItsSession
<1>1. TerminalInv => InputReachesItsSession
  BY DEF TerminalInv
<1>. QED BY <1>1, TerminalInvariant, PTL

----------------------------------------------------------------------------
(* The panel is the screen of TerminalScreen. *)

(* An answer grows the screen by chunks that are all later than those shown. *)
LEMMA AnswerIsGrow ==
  ASSUME ShownInv, NEW s \in Sessions, PollAnswered(s), screen' # screen
  PROVE  Screen!Grow(s)
<1>1. PICK last \in 1 .. written[s] :
        /\ poll[s].after \in 0 .. last - 1
        /\ screen' = AppendTerminalChunk(screen, Page(s, poll[s].after + 1, last))
  BY AnswerGrows
<1>2. s = shown /\ poll[s].at = "asked" /\ UNCHANGED written
  BY DEF PollAnswered, ShownInv, OnlyShownAsks, served
<1>3. written[s] \in Nat
  BY DEF ShownInv, TypeOK
<1>. DEFINE first == poll[s].after + 1
<1>4. first \in 1 .. written[s] /\ last \in first .. written[s]
  BY <1>1, <1>3
<1>5. Screen!After(s, screen, first)
  <2>1. ASSUME NEW i \in DOMAIN screen, screen[i].sess = s PROVE screen[i].seq < first
    <3>1. screen[i].seq <= poll[s].after
      BY <1>2, <2>1 DEF ShownInv, AsksForLater
    <3>2. screen \in Seq(Chunks)
      BY DEF ShownInv, TypeOK, Chunks
    <3>3. screen[i] \in Chunks
      BY <3>2, LenProperties, ElementOfSeq
    <3>4. screen[i].seq \in Int /\ poll[s].after \in Int
      BY <1>1, <1>3, <3>3 DEF Chunks
    <3>. QED BY <3>1, <3>4
  <2>. QED BY <2>1 DEF Screen!After
<1>6. screen' = Screen!Suffix(screen \o Screen!Page(s, first, last))
  BY <1>1 DEF AppendTerminalChunk, Page, Screen!Suffix, Screen!Page
<1>. HIDE DEF first
<1>. QED BY <1>2, <1>4, <1>5, <1>6 DEF Screen!Grow

LEMMA StepIsScreenStep ==
  ASSUME TerminalInv, [Next]_vars
  PROVE  [Screen!Next]_(Screen!screenVars)
<1>1. ASSUME NEW s \in Sessions, Write(s) PROVE Screen!Write(s)
  BY <1>1 DEF Write, view, Screen!Write
<1>2. ASSUME NEW s \in Sessions, PollAnswered(s) PROVE Screen!Grow(s) \/ UNCHANGED <<written, screen>>
  <2>1. CASE screen' # screen
    BY <1>2, <2>1, AnswerIsGrow DEF TerminalInv
  <2>2. CASE screen' = screen
    BY <1>2, <2>2 DEF PollAnswered, served
  <2>. QED BY <2>1, <2>2
<1>3. ASSUME NEW c \in calls, TerminalOpened(c) \/ TerminalClosed(c) PROVE Screen!Clear
  BY <1>3 DEF TerminalOpened, TerminalClosed, Blank, served, Screen!Clear
<1>4. CASE Leave
  BY <1>4 DEF Leave, Blank, served, Screen!Clear, Screen!Next
<1>5. ASSUME \/ \E s \in Sessions : PollTick(s) \/ PollFailed(s)
             \/ Render \/ OpenTerminal \/ TerminalCard
             \/ \E c \in calls : OpenFailed(c) \/ InputSent(c) \/ InputFailed(c)
             \/ UNCHANGED vars
      PROVE UNCHANGED <<written, screen>>
  BY <1>5 DEF PollTick, PollFailed, Render, OpenTerminal, TerminalCard, Type, SendTerminalInput,
     CloseActiveTerminal, OpenFailed, InputSent, InputFailed, vars, served, view
<1>. QED
  BY <1>1, <1>2, <1>3, <1>4, <1>5 DEF Next, Answered, Screen!Next, Screen!screenVars

(* Whatever answers come late or not at all, the terminal of ServerRentalPanel
   shows each session's output in order, none twice, and only ever clears the
   screen as a whole or forgets at its oldest end. *)
THEOREM TerminalImplementsScreen == Spec => ScreenSpec
<1>1. Init => Screen!Init
  BY DEF Init, Screen!Init
<1>2. TerminalInv /\ [Next]_vars => [Screen!Next]_(Screen!screenVars)
  BY StepIsScreenStep
<1>. QED BY <1>1, <1>2, TerminalInvariant, PTL DEF Spec, ScreenSpec, Screen!Spec

----------------------------------------------------------------------------
(* Chunks on the screen are in order. *)

(* new is out and then more without the first d chunks. *)
Shifted(out, more, new, d) ==
  /\ DOMAIN new = 1 .. (Len(out) + Len(more) - d)
  /\ \A i \in DOMAIN new : \/ d + i \in DOMAIN out /\ new[i] = out[d + i]
                           \/ (d + i) - Len(out) \in DOMAIN more /\ new[i] = more[(d + i) - Len(out)]

(* An answer shifts the screen by the chunks that are forgotten. *)
LEMMA AppendShifts ==
  ASSUME NEW out \in Seq(Chunks), NEW more \in Seq(Chunks),
         NEW new, new = AppendTerminalChunk(out, more)
  PROVE  \E d \in Nat : Shifted(out, more, new, d)
<1>. Cap \in Nat \ {0}
  BY TerminalAssumption
<1>0. PICK all : all = out \o more
  OBVIOUS
<1>1. Len(out) \in Nat /\ DOMAIN out = 1 .. Len(out) /\ Len(more) \in Nat /\ DOMAIN more = 1 .. Len(more)
  BY LenProperties
<1>2. /\ all \in Seq(Chunks) /\ Len(all) = Len(out) + Len(more)
      /\ \A k \in 1 .. Len(out) + Len(more) : all[k] = IF k <= Len(out) THEN out[k] ELSE more[k - Len(out)]
  BY <1>0, ConcatProperties
<1>3. ASSUME NEW k \in 1 .. Len(all)
      PROVE  \/ k \in DOMAIN out /\ all[k] = out[k]
             \/ k - Len(out) \in DOMAIN more /\ all[k] = more[k - Len(out)]
  <2>1. CASE k <= Len(out)
    BY <1>1, <1>2, <2>1
  <2>2. CASE k > Len(out)
    <3>1. k - Len(out) \in 1 .. Len(more)
      BY <1>1, <1>2, <2>2
    <3>. QED BY <1>1, <1>2, <2>2, <3>1
  <2>. QED BY <1>1, <2>1, <2>2
<1>4. CASE Len(all) <= Cap
  <2>1. new = all
    BY <1>0, <1>4 DEF AppendTerminalChunk
  <2>2. DOMAIN new = 1 .. (Len(out) + Len(more) - 0)
    BY <1>1, <1>2, <2>1, LenProperties
  <2>3. ASSUME NEW i \in DOMAIN new
        PROVE  \/ 0 + i \in DOMAIN out /\ new[i] = out[0 + i]
               \/ (0 + i) - Len(out) \in DOMAIN more /\ new[i] = more[(0 + i) - Len(out)]
    <3>1. i \in 1 .. Len(all) /\ 0 + i = i
      BY <1>1, <1>2, <2>2
    <3>. QED BY <1>3, <2>1, <3>1
  <2>. QED BY <2>2, <2>3 DEF Shifted
<1>5. CASE ~(Len(all) <= Cap)
  <2>. DEFINE d == Len(all) - Cap
  <2>1. new = SubSeq(all, d + 1, Len(all))
    BY <1>0, <1>5, Zenon DEF AppendTerminalChunk
  <2>2. d \in Nat /\ Len(all) \in Int /\ d + 1 <= Len(all) /\ Len(all) - (d + 1) + 1 = Len(out) + Len(more) - d
    BY <1>1, <1>2, <1>5
  <2>3. \A i \in d + 1 .. Len(all) : all[i] \in Chunks
    BY <1>2, <2>2, ElementOfSeq
  <2>. HIDE DEF d
  <2>4. /\ new \in Seq(Chunks) /\ Len(new) = Len(out) + Len(more) - d
        /\ \A i \in 1 .. Len(out) + Len(more) - d : new[i] = all[(d + 1) + i - 1]
    BY <2>1, <2>2, <2>3, SubSeqProperties
  <2>5. DOMAIN new = 1 .. (Len(out) + Len(more) - d)
    BY <2>4, LenProperties
  <2>6. ASSUME NEW i \in DOMAIN new
        PROVE  \/ d + i \in DOMAIN out /\ new[i] = out[d + i]
               \/ (d + i) - Len(out) \in DOMAIN more /\ new[i] = more[(d + i) - Len(out)]
    <3>1. d + i \in 1 .. Len(all) /\ (d + 1) + i - 1 = d + i
      BY <1>1, <1>2, <2>2, <2>5
    <3>2. PICK k \in 1 .. Len(all) : k = d + i
      BY <3>1
    <3>3. new[i] = all[k]
      BY <2>4, <2>5, <3>1, <3>2
    <3>4. \/ k \in DOMAIN out /\ new[i] = out[k]
          \/ k - Len(out) \in DOMAIN more /\ new[i] = more[k - Len(out)]
      BY <1>3, <3>3
    <3>. QED BY <3>2, <3>4
  <2>. QED BY <2>2, <2>5, <2>6 DEF Shifted
<1>. QED BY <1>4, <1>5

(* An answer leaves the screen in order. *)
LEMMA AnswerInOrder ==
  ASSUME ShownInv, Screen!InOrder, NEW s \in Sessions, PollAnswered(s), screen' # screen
  PROVE  Screen!InOrder'
<1>1. PICK last \in 1 .. written[s] :
        /\ poll[s].after \in 0 .. last - 1
        /\ last <= MaxChunks
        /\ screen' = AppendTerminalChunk(screen, Page(s, poll[s].after + 1, last))
  BY AnswerGrows
<1>2. s = shown /\ poll[s].at = "asked" /\ written' = written
  BY DEF PollAnswered, ShownInv, OnlyShownAsks, served
<1>3. PICK after : after = poll[s].after
  OBVIOUS
<1>4. after \in Nat /\ last \in Nat /\ after < last /\ last <= written[s] /\ written[s] \in Nat
  <2>1. written[s] \in Nat
    BY DEF ShownInv, TypeOK
  <2>. QED BY <1>1, <1>3, <2>1
<1>5. PICK more : more = Page(s, after + 1, last)
  OBVIOUS
<1>6. /\ more \in Seq(Chunks) /\ DOMAIN more = 1 .. last - (after + 1) + 1
      /\ \A i \in DOMAIN more : more[i] = [sess |-> s, seq |-> (after + 1) + i - 1]
  <2>1. after + 1 \in Nat \ {0} /\ last >= (after + 1) - 1
    BY <1>4
  <2>2. /\ more \in Seq(Chunks) /\ Len(more) = last - (after + 1) + 1
        /\ \A i \in 1 .. last - (after + 1) + 1 : more[i] = [sess |-> s, seq |-> (after + 1) + i - 1]
    BY <1>1, <1>4, <1>5, <2>1, PageIsSeq
  <2>3. DOMAIN more = 1 .. last - (after + 1) + 1
    BY <2>2, LenProperties
  <2>. QED BY <2>2, <2>3
<1>7. screen \in Seq(Chunks)
  BY DEF ShownInv, TypeOK, Chunks
<1>8. \A i \in DOMAIN screen : screen[i].seq \in Nat /\ (screen[i].sess = s => screen[i].seq <= after)
  <2>1. TAKE i \in DOMAIN screen
  <2>2. screen[i] \in Chunks
    BY <1>7, LenProperties, ElementOfSeq
  <2>3. screen[i].sess = s => screen[i].seq <= after
    BY <1>2, <1>3 DEF ShownInv, AsksForLater
  <2>. QED BY <2>2, <2>3, TerminalAssumption DEF Chunks
<1>9. \A i \in DOMAIN more : more[i].sess = s /\ more[i].seq \in after + 1 .. last
  <2>1. TAKE i \in DOMAIN more
  <2>2. more[i] = [sess |-> s, seq |-> (after + 1) + i - 1]
    BY <1>6
  <2>3. (after + 1) + i - 1 \in after + 1 .. last
    BY <1>4, <1>6
  <2>. QED BY <2>2, <2>3
<1>10. PICK d \in Nat :
         /\ DOMAIN screen' = 1 .. (Len(screen) + Len(more) - d)
         /\ \A i \in DOMAIN screen' :
              \/ d + i \in DOMAIN screen /\ screen'[i] = screen[d + i]
              \/ (d + i) - Len(screen) \in DOMAIN more /\ screen'[i] = more[(d + i) - Len(screen)]
  <2>1. PICK new : new = screen'
    OBVIOUS
  <2>2. new = AppendTerminalChunk(screen, more)
    BY <1>1, <1>3, <1>5, <2>1
  <2>3. \E d \in Nat : Shifted(screen, more, new, d)
    BY <1>6, <1>7, <2>2, AppendShifts
  <2>. QED BY <2>1, <2>3 DEF Shifted
<1>11. Len(screen) \in Nat /\ DOMAIN screen = 1 .. Len(screen)
  BY <1>7, LenProperties
<1>12. \A i \in DOMAIN screen' : screen'[i].seq <= written[screen'[i].sess]
  <2>1. TAKE i \in DOMAIN screen'
  <2>2. CASE d + i \in DOMAIN screen /\ screen'[i] = screen[d + i]
    BY <2>2 DEF Screen!InOrder
  <2>3. CASE (d + i) - Len(screen) \in DOMAIN more /\ screen'[i] = more[(d + i) - Len(screen)]
    <3>1. screen'[i].sess = s /\ screen'[i].seq \in after + 1 .. last
      BY <1>9, <2>3
    <3>. QED BY <1>4, <3>1
  <2>. QED BY <1>10, <2>2, <2>3
<1>13. ASSUME NEW i \in DOMAIN screen', NEW j \in DOMAIN screen', i < j, screen'[i].sess = screen'[j].sess
       PROVE  screen'[i].seq < screen'[j].seq
  <2>1. d + i \in Int /\ d + j \in Int /\ d + i < d + j /\ i \in Int /\ j \in Int
    BY <1>10, <1>13
  <2>2. CASE d + j \in DOMAIN screen /\ screen'[j] = screen[d + j]
    <3>1. d + i \in DOMAIN screen
      BY <1>10, <1>11, <2>1, <2>2
    <3>2. ~((d + i) - Len(screen) \in DOMAIN more)
      BY <1>6, <1>11, <2>1, <3>1
    <3>3. screen'[i] = screen[d + i]
      BY <1>10, <3>2
    <3>. QED BY <1>13, <2>1, <2>2, <3>1, <3>3 DEF Screen!InOrder
  <2>3. CASE (d + j) - Len(screen) \in DOMAIN more /\ screen'[j] = more[(d + j) - Len(screen)]
    <3>1. screen'[j].sess = s /\ screen'[j].seq \in after + 1 .. last
      BY <1>9, <2>3
    <3>2. CASE d + i \in DOMAIN screen /\ screen'[i] = screen[d + i]
      <4>1. screen'[i].seq <= after /\ screen'[i].seq \in Nat
        BY <1>8, <1>13, <3>1, <3>2
      <4>. QED BY <1>4, <3>1, <4>1
    <3>3. CASE (d + i) - Len(screen) \in DOMAIN more /\ screen'[i] = more[(d + i) - Len(screen)]
      <4>1. /\ screen'[i].seq = (after + 1) + ((d + i) - Len(screen)) - 1
            /\ screen'[j].seq = (after + 1) + ((d + j) - Len(screen)) - 1
        BY <1>6, <2>3, <3>3
      <4>. QED BY <1>4, <1>11, <2>1, <4>1
    <3>. QED BY <1>10, <3>2, <3>3
  <2>. QED BY <1>10, <2>2, <2>3
<1>. QED BY <1>2, <1>12, <1>13 DEF Screen!InOrder

(* The chunks of a session are on the screen of ServerRentalPanel in the order
   in which its shell wrote them, none twice and none that was not written. *)
THEOREM OutputInOrder == Spec => []Screen!InOrder
<1>1. Init => Screen!InOrder
  <2>. SUFFICES ASSUME Init PROVE Screen!InOrder
    OBVIOUS
  <2>1. DOMAIN screen = {}
    BY EmptySeq DEF Init
  <2>. QED BY <2>1 DEF Screen!InOrder
<1>2. TerminalInv /\ Screen!InOrder /\ [Next]_vars => Screen!InOrder'
  <2>. SUFFICES ASSUME TerminalInv, Screen!InOrder, [Next]_vars PROVE Screen!InOrder'
    OBVIOUS
  <2>1. CASE screen' = <<>>
    <3>1. DOMAIN screen' = {}
      BY <2>1, EmptySeq
    <3>. QED BY <3>1 DEF Screen!InOrder
  <2>2. CASE UNCHANGED <<written, screen>>
    BY <2>2 DEF Screen!InOrder
  <2>3. ASSUME NEW s \in Sessions, Write(s) PROVE Screen!InOrder'
    <3>1. screen' = screen /\ written' = [written EXCEPT ![s] = @ + 1]
      BY <2>3 DEF Write, view
    <3>2. \A i \in DOMAIN screen : screen[i].sess \in Sessions /\ screen[i].seq \in Nat
      <4>1. screen \in Seq(Chunks)
        BY DEF TerminalInv, ShownInv, TypeOK, Chunks
      <4>2. \A i \in DOMAIN screen : screen[i] \in Chunks
        BY <4>1, LenProperties, ElementOfSeq
      <4>. QED BY <4>2, TerminalAssumption DEF Chunks
    <3>3. \A t \in Sessions : written[t] \in Nat /\ written'[t] \in Nat /\ written[t] <= written'[t]
      <4>. TAKE t \in Sessions
      <4>1. written \in [Sessions -> 0 .. MaxChunks] /\ MaxChunks \in Nat
        BY TerminalAssumption DEF TerminalInv, ShownInv, TypeOK
      <4>2. written[t] \in 0 .. MaxChunks
        BY <4>1
      <4>3. written'[t] = written[t] \/ written'[t] = written[t] + 1
        BY <3>1, <4>1
      <4>. QED BY <4>1, <4>2, <4>3
    <3>4. ASSUME NEW i \in DOMAIN screen PROVE screen[i].seq <= written'[screen[i].sess]
      <4>. PICK t : t = screen[i].sess
        OBVIOUS
      <4>. PICK q : q = screen[i].seq
        OBVIOUS
      <4>1. t \in Sessions /\ q \in Nat
        BY <3>2
      <4>2. q <= written[t]
        BY DEF Screen!InOrder
      <4>3. q <= written'[t]
        BY <3>3, <4>1, <4>2
      <4>. QED BY <4>3
    <3>. QED BY <3>1, <3>4 DEF Screen!InOrder
  <2>4. ASSUME NEW s \in Sessions, PollAnswered(s), screen' # screen PROVE Screen!InOrder'
    BY <2>4, AnswerInOrder DEF TerminalInv
  <2>5. Screen!Clear \/ (\E s \in Sessions : Write(s) \/ PollAnswered(s)) \/ UNCHANGED <<written, screen>>
    BY DEF Next, Answered, TerminalCard, PollTick, PollFailed, Render, OpenTerminal, Type, SendTerminalInput,
       CloseActiveTerminal, OpenFailed, InputSent, InputFailed, TerminalOpened, TerminalClosed, Leave, Blank,
       vars, served, view, Screen!Clear
  <2>6. ASSUME NEW s \in Sessions, PollAnswered(s), screen' = screen PROVE UNCHANGED <<written, screen>>
    BY <2>6 DEF PollAnswered, served
  <2>. QED BY <2>1, <2>2, <2>3, <2>4, <2>5, <2>6 DEF Screen!Clear
<1>. QED BY <1>1, <1>2, TerminalInvariant, PTL DEF Spec

================================================================================
