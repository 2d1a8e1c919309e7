-------------------------- MODULE LinkParserProofs ---------------------------
(***************************************************************************)
(* For every text and every list of matches: the loop of partialHtmlParser *)
(* displays what it has cut off, and runs past no link when no two matches *)
(* touch.                                                                  *)
(***************************************************************************)
EXTENDS LinkParser, SequenceTheorems, TLAPS

Match == [first : Nat, last : Nat]

LinkTypes ==
    /\ text \in Seq(Char)
    /\ found \in Seq(Match)
    /\ \A k \in 1 .. Len(found) :
         1 <= found[k].first /\ found[k].first <= found[k].last /\ found[k].last <= Len(text)
    /\ links \in Seq(Seq(Char))
    /\ currentLink \in Seq(Char)
    /\ restText \in Seq(Char)
    /\ shown \in Seq(Char)
    /\ anchors \in Seq(Seq(Char))

LEMMA MatchIsNat ==
    ASSUME LinkTypes, NEW k \in 1 .. Len(found)
    PROVE  found[k].first \in Nat /\ found[k].last \in Nat
<1>1. found \in Seq(Match)
  BY DEF LinkTypes
<1>2. found[k] \in Match
  BY <1>1, ElementOfSeq
<1> QED  BY <1>2 DEF Match

LEMMA MatchedIsSeq ==
    ASSUME LinkTypes, NEW k \in 1 .. Len(found)
    PROVE  /\ Matched(found[k]) \in Seq(Char)
           /\ Len(Matched(found[k])) = found[k].last - found[k].first + 1
<1>1. found[k] \in Match
  BY ElementOfSeq DEF LinkTypes
<1> DEFINE m == found[k].first
           n == found[k].last
<1>2. m \in Nat /\ n \in Nat /\ 1 <= m /\ m <= n /\ n <= Len(text)
  BY <1>1 DEF LinkTypes, Match
<1>3. \A i \in m .. n : text[i] \in Char
  BY <1>2, ElementOfSeq DEF LinkTypes
<1> QED  BY <1>2, <1>3, SubSeqProperties DEF Matched

LEMMA CutIsSeq ==
    ASSUME NEW s \in Seq(Char), NEW p \in Seq(Char), IsPrefix(p, s)
    PROVE  CutPrefix(s, p) \in Seq(Char) /\ p \o CutPrefix(s, p) = s
<1>1. Len(p) \in Nat /\ Len(s) \in Nat /\ Len(p) <= Len(s)
  BY LenProperties DEF IsPrefix
<1>2. SubSeq(s, 1, Len(p)) = p
  BY SubSeqFull DEF IsPrefix
<1>3. SubSeq(s, 1, Len(p)) \o SubSeq(s, Len(p) + 1, Len(s)) = s
  <2>1. 1 \in 1 .. Len(s) + 1 /\ Len(p) \in 1 - 1 .. Len(s) /\ Len(s) \in Len(p) .. Len(s)
    BY <1>1
  <2>2. SubSeq(s, 1, Len(p)) \o SubSeq(s, Len(p) + 1, Len(s)) = SubSeq(s, 1, Len(s))
    BY <2>1, ConcatAdjacentSubSeq
  <2> QED  BY <2>2, SubSeqFull
<1>4. CutPrefix(s, p) \in Seq(Char)
  BY <1>1, SubSeqProperties, ElementOfSeq DEF CutPrefix
<1> QED  BY <1>2, <1>3, <1>4 DEF CutPrefix

(* Copying a character moves it from the one side to the other.              *)
LEMMA CopyKeeps ==
    ASSUME NEW s \in Seq(Char), NEW rest \in Seq(Char), CopyOne(s, rest)
    PROVE  /\ shown' \in Seq(Char) /\ restText' \in Seq(Char)
           /\ shown' \o restText' = s \o rest
           /\ Len(shown') <= Len(s) + 1
<1>1. CASE rest = <<>> /\ shown' = s /\ restText' = rest
  BY <1>1, LenProperties
<1>2. CASE rest # <<>> /\ shown' = Append(s, Head(rest)) /\ restText' = Tail(rest)
  <2>1. Head(rest) \in Char /\ Tail(rest) \in Seq(Char)
    BY <1>2, HeadTailProperties
  <2>2. Append(s, Head(rest)) = s \o <<Head(rest)>> /\ <<Head(rest)>> \in Seq(Char)
    BY <2>1
  <2>3. <<Head(rest)>> \o Tail(rest) = rest
    BY <1>2
  <2>4. (s \o <<Head(rest)>>) \o Tail(rest) = s \o (<<Head(rest)>> \o Tail(rest))
    BY <2>1, <2>2, ConcatAssociative
  <2>5. Len(Append(s, Head(rest))) = Len(s) + 1 /\ Append(s, Head(rest)) \in Seq(Char)
    BY <2>1
  <2> QED  BY <1>2, <2>1, <2>2, <2>3, <2>4, <2>5
<1> QED  BY <1>1, <1>2 DEF CopyOne

------------------------------------------------------------------------------
(* Nothing is lost, repeated or reordered while the loop runs.               *)
LoopInv ==
    /\ LinkTypes
    /\ at = "find" => shown = <<>> /\ restText = text /\ anchors = <<>>
    /\ ShownThenRest

LEMMA FindMatchStep == LoopInv /\ FindMatch => LoopInv'
<1> SUFFICES ASSUME LoopInv, FindMatch PROVE LoopInv'
  OBVIOUS
<1>1. PICK first \in DOMAIN text, last \in DOMAIN text :
        first <= last /\ found' = Append(found, [first |-> first, last |-> last])
  BY DEF FindMatch
<1>2. first \in 1 .. Len(text) /\ last \in 1 .. Len(text) /\ Len(text) \in Nat
  BY LenProperties DEF LoopInv, LinkTypes
<1>3. [first |-> first, last |-> last] \in Match
  BY <1>2 DEF Match
<1>4. /\ found' \in Seq(Match) /\ Len(found') = Len(found) + 1 /\ Len(found) \in Nat
      /\ \A k \in 1 .. Len(found) : found'[k] = found[k]
      /\ found'[Len(found) + 1] = [first |-> first, last |-> last]
  BY <1>1, <1>3, LenProperties DEF LoopInv, LinkTypes
<1>5. ASSUME NEW k \in 1 .. Len(found')
      PROVE  1 <= found'[k].first /\ found'[k].first <= found'[k].last
             /\ found'[k].last <= Len(text)
  <2>1. CASE k \in 1 .. Len(found)
    BY <1>4, <2>1 DEF LoopInv, LinkTypes
  <2>2. CASE k = Len(found) + 1
    BY <1>1, <1>2, <1>4, <2>2
  <2> QED  BY <1>4, <2>1, <2>2
<1> QED  BY <1>4, <1>5 DEF FindMatch, LoopInv, LinkTypes, ShownThenRest

LEMMA EnterLoopStep == LoopInv /\ EnterLoop => LoopInv'
<1> SUFFICES ASSUME LoopInv, EnterLoop PROVE LoopInv'
  OBVIOUS
<1>1. FoundLinks \in Seq(Seq(Char)) /\ Len(FoundLinks) = Len(found)
  <2>1. DOMAIN found = 1 .. Len(found) /\ Len(found) \in Nat
    BY LenProperties DEF LoopInv, LinkTypes
  <2>2. \A k \in 1 .. Len(found) : Matched(found[k]) \in Seq(Char)
    BY MatchedIsSeq DEF LoopInv
  <2> QED  BY <2>1, <2>2 DEF FoundLinks
<1>2. Len(found) # 0
  BY LenProperties, EmptySeq DEF EnterLoop, LoopInv, LinkTypes
<1>3. Head(FoundLinks) \in Seq(Char)
  BY <1>1, <1>2, HeadTailProperties, EmptySeq
<1>4. shown \o restText = text
  BY ConcatEmptySeq DEF EnterLoop, LoopInv, LinkTypes
<1> QED  BY <1>1, <1>3, <1>4 DEF EnterLoop, LoopInv, LinkTypes, ShownThenRest

LEMMA WrapLinkStep == LoopInv /\ WrapLink => LoopInv'
<1> SUFFICES ASSUME LoopInv, WrapLink PROVE LoopInv'
  OBVIOUS
<1>1. IsPrefix(currentLink, restText)
  BY DEF WrapLink, HasPrefix
<1>2. PICK cut \in Seq(Char) : cut = CutPrefix(restText, currentLink)
  BY <1>1, CutIsSeq DEF LoopInv, LinkTypes
<1>3. currentLink \o cut = restText
  BY <1>1, <1>2, CutIsSeq DEF LoopInv, LinkTypes
<1>4. PICK s \in Seq(Char), p \in Seq(Char) : s = shown /\ p = currentLink
  BY DEF LoopInv, LinkTypes
<1>5. s \o p \in Seq(Char) /\ (s \o p) \o cut = s \o (p \o cut)
  BY ConcatProperties, ConcatAssociative
<1>6. /\ shown' \in Seq(Char) /\ restText' \in Seq(Char)
      /\ shown' \o restText' = shown \o restText
  <2>1. CopyOne(s \o p, cut)
    BY <1>2, <1>4 DEF WrapLink
  <2>2. /\ shown' \in Seq(Char) /\ restText' \in Seq(Char)
        /\ shown' \o restText' = (s \o p) \o cut
    BY <1>5, <2>1, CopyKeeps
  <2> QED  BY <1>3, <1>4, <1>5, <2>2
<1>7. Tail(links) \in Seq(Seq(Char)) /\ anchors' \in Seq(Seq(Char))
  BY HeadTailProperties DEF WrapLink, LoopInv, LinkTypes
<1>8. currentLink' \in Seq(Char)
  <2>1. Len(links) \in Nat /\ Len(links) # 0
    BY LenProperties, EmptySeq DEF WrapLink, LoopInv, LinkTypes
  <2>2. \A k \in 1 .. Len(links) : links[k] \in Seq(Char)
    BY ElementOfSeq DEF LoopInv, LinkTypes
  <2> QED  BY <2>1, <2>2 DEF WrapLink
<1> QED  BY <1>6, <1>7, <1>8 DEF WrapLink, LoopInv, LinkTypes, ShownThenRest

LEMMA CopyOnlyStep == LoopInv /\ CopyOnly => LoopInv'
BY CopyKeeps DEF CopyOnly, LoopInv, LinkTypes, ShownThenRest

LEMMA LoopStep == LoopInv /\ [Next]_vars => LoopInv'
<1>1. LoopInv /\ NoLinks => LoopInv'
  BY DEF NoLinks, LoopInv, LinkTypes, ShownThenRest
<1>2. LoopInv /\ LeaveLoop => LoopInv'
  BY DEF LeaveLoop, LoopInv, LinkTypes, ShownThenRest
<1>3. LoopInv /\ UNCHANGED vars => LoopInv'
  BY DEF vars, LoopInv, LinkTypes, ShownThenRest
<1> QED
  BY <1>1, <1>2, <1>3, FindMatchStep, EnterLoopStep, WrapLinkStep, CopyOnlyStep DEF Next

LEMMA LoopInvariance == Spec => []LoopInv
<1>1. Init => LoopInv
  BY TextsAssumption, EmptySeq DEF TextsAssumption, Init, LoopInv, LinkTypes, ShownThenRest
<1> QED  BY <1>1, LoopStep, PTL DEF Spec

(* The loop loses, repeats and reorders nothing, for any text and matches.   *)
THEOREM NothingLostInTheLoop == Spec => []ShownThenRest
BY LoopInvariance, PTL DEF LoopInv

------------------------------------------------------------------------------
(* The loop and the matches: links holds those of found that have no anchor  *)
(* yet, and currentLink is the first of them.                                *)
OrderInv ==
    /\ at = "loop" =>
        /\ Len(anchors) + Len(links) = Len(found)
        /\ \A k \in 1 .. Len(links) : links[k] = Matched(found[Len(anchors) + k])
        /\ links # <<>> => currentLink = links[1]
    /\ NotPastNextLink

LEMMA Lengths ==
    ASSUME LinkTypes
    PROVE  /\ Len(text) \in Nat /\ Len(found) \in Nat /\ Len(links) \in Nat
           /\ Len(anchors) \in Nat /\ Len(shown) \in Nat
           /\ links # <<>> <=> Len(links) > 0
           /\ found # <<>> <=> Len(found) > 0
BY LenProperties, EmptySeq DEF LinkTypes

(* A link is noticed where it begins.                                        *)
LEMMA LinkIsPrefix ==
    ASSUME LinkTypes, shown \o restText = text, NEW k \in 1 .. Len(found),
           Len(shown) + 1 = found[k].first
    PROVE  IsPrefix(Matched(found[k]), restText)
<1>1. found[k] \in Match
  BY ElementOfSeq DEF LinkTypes
<1> DEFINE m == found[k].first
           n == found[k].last
<1>2. m \in Nat /\ n \in Nat /\ 1 <= m /\ m <= n /\ n <= Len(text)
  BY <1>1 DEF LinkTypes, Match
<1>3. Len(text) = Len(shown) + Len(restText) /\ Len(shown) \in Nat /\ Len(restText) \in Nat
  BY ConcatProperties, LenProperties DEF LinkTypes
<1>4. /\ m \in Len(shown) + 1 .. Len(shown) + Len(restText)
      /\ n \in Len(shown) + 1 .. Len(shown) + Len(restText)
  BY <1>2, <1>3
<1>5. SubSeq(text, m, n) = SubSeq(restText, m - Len(shown), n - Len(shown))
  <2>1. PICK s \in Seq(Char), t \in Seq(Char) : s = shown /\ t = restText
    BY DEF LinkTypes
  <2>2. PICK i \in Int, j \in Int : i = m /\ j = n
    BY <1>2
  <2>3. i \in Len(s) + 1 .. Len(s) + Len(t) /\ j \in Len(s) + 1 .. Len(s) + Len(t)
    BY <1>4, <2>1, <2>2
  <2>4. SubSeq(s \o t, i, j) = SubSeq(t, i - Len(s), j - Len(s))
    BY <2>3, SubSeqOfConcat2
  <2> QED  BY <2>1, <2>2, <2>4
<1>6. m - Len(shown) = 1 /\ n - Len(shown) = n - m + 1
  BY <1>2, <1>3
<1>7. Matched(found[k]) \in Seq(Char) /\ Len(Matched(found[k])) = n - m + 1
  BY MatchedIsSeq
<1>8. SubSeq(Matched(found[k]), 1, Len(Matched(found[k]))) = Matched(found[k])
  BY <1>7, SubSeqFull
<1>9. Len(Matched(found[k])) <= Len(restText)
  BY <1>2, <1>3, <1>7
<1> QED  BY <1>5, <1>6, <1>7, <1>8, <1>9 DEF IsPrefix, Matched

LEMMA EnterOrder == LoopInv /\ EnterLoop => OrderInv'
<1> SUFFICES ASSUME LoopInv, EnterLoop PROVE OrderInv'
  OBVIOUS
<1>1. DOMAIN found = 1 .. Len(found) /\ Len(found) \in Nat /\ Len(found) > 0
  BY LenProperties, EmptySeq DEF EnterLoop, LoopInv, LinkTypes
<1>2. /\ Len(links') = Len(found)
      /\ \A k \in 1 .. Len(found) : links'[k] = Matched(found[k])
  BY <1>1 DEF EnterLoop, FoundLinks
<1>3. currentLink' = links'[1]
  BY <1>1 DEF EnterLoop, FoundLinks
<1>4. Len(anchors') = 0 /\ Len(shown') = 0 /\ found' = found /\ text' = text
  BY EmptySeq DEF EnterLoop, LoopInv
<1>5. 0 < found[1].first
  <2>1. 1 \in 1 .. Len(found)
    BY <1>1
  <2>2. found[1] \in Match /\ 1 <= found[1].first
    BY <2>1, ElementOfSeq DEF LoopInv, LinkTypes
  <2> QED  BY <2>2 DEF Match
<1> QED
  BY <1>1, <1>2, <1>3, <1>4, <1>5 DEF OrderInv, NotPastNextLink, Matched

LEMMA WrapOrder == LoopInv /\ OrderInv /\ WrapLink => OrderInv'
<1> SUFFICES ASSUME LoopInv, OrderInv, WrapLink PROVE OrderInv'
  OBVIOUS
<1> DEFINE n == Len(anchors) + 1
<1>1. /\ Len(found) \in Nat /\ Len(links) \in Nat /\ Len(anchors) \in Nat
      /\ Len(shown) \in Nat /\ Len(links) > 0
  BY Lengths DEF LoopInv, WrapLink
<1>2. n \in 1 .. Len(found) /\ currentLink = Matched(found[n])
  BY <1>1 DEF OrderInv, WrapLink
<1>3. /\ links' \in Seq(Seq(Char)) /\ Len(links') = Len(links) - 1
      /\ \A k \in 1 .. Len(links') : links'[k] = links[k + 1]
  BY HeadTailProperties DEF WrapLink, LoopInv, LinkTypes
<1>4. anchors' \in Seq(Seq(Char)) /\ Len(anchors') = n
  BY DEF WrapLink, LoopInv, LinkTypes
<1>5. found' = found /\ text' = text /\ at' = "loop"
  BY DEF WrapLink
<1>6. /\ n + Len(links') = Len(found)
      /\ \A k \in 1 .. Len(links') : links'[k] = Matched(found[n + k])
  <2>1. ASSUME NEW k \in 1 .. Len(links')
        PROVE  links'[k] = Matched(found[n + k])
    <3>1. k + 1 \in 1 .. Len(links) /\ Len(anchors) + (k + 1) = n + k
      BY <1>1, <1>3
    <3>2. links[k + 1] = Matched(found[Len(anchors) + (k + 1)])
      BY <3>1 DEF OrderInv, WrapLink
    <3> QED  BY <1>3, <3>1, <3>2
  <2> QED  BY <1>1, <1>3, <2>1 DEF OrderInv, WrapLink
<1>7. links' # <<>> => currentLink' = links'[1]
  <2>1. links' # <<>> => Len(links') > 0
    BY <1>3, EmptySeq
  <2> QED  BY <1>1, <1>3, <2>1 DEF WrapLink
<1>8. ASSUME Apart, links' # <<>> PROVE Len(shown') < found[n + 1].first
  <2>1. n + 1 \in 1 .. Len(found) /\ n \in 1 .. Len(found) - 1
    BY <1>1, <1>2, <1>3, <1>6, <1>8, EmptySeq
  <2>2. found[n].first \in Nat /\ found[n].last \in Nat /\ found[n + 1].first \in Nat
    BY <1>2, <2>1, MatchIsNat DEF LoopInv
  <2>3. Len(currentLink) = found[n].last - found[n].first + 1 /\ currentLink \in Seq(Char)
    BY <1>2, MatchedIsSeq DEF LoopInv
  <2>4. Len(shown) < found[n].first
    BY <1>8 DEF OrderInv, NotPastNextLink, WrapLink
  <2>5. found[n].last + 1 < found[n + 1].first
    BY <1>8, <2>1 DEF Apart
  <2>6. Len(shown') <= Len(shown) + Len(currentLink) + 1
    <3>1. /\ shown \o currentLink \in Seq(Char)
          /\ Len(shown \o currentLink) = Len(shown) + Len(currentLink)
      BY ConcatProperties DEF LoopInv, LinkTypes
    <3>2. CutPrefix(restText, currentLink) \in Seq(Char)
      BY CutIsSeq DEF LoopInv, LinkTypes, WrapLink, HasPrefix
    <3>3. CopyOne(shown \o currentLink, CutPrefix(restText, currentLink))
      BY DEF WrapLink
    <3> QED  BY <3>1, <3>2, <3>3, CopyKeeps
  <2>7. Len(shown') \in Nat
    BY WrapLinkStep, LenProperties DEF LoopInv, LinkTypes
  <2>8. PICK first \in Nat, last \in Nat, next \in Nat :
          first = found[n].first /\ last = found[n].last /\ next = found[n + 1].first
    BY <2>2
  <2>9. Len(shown) < first /\ last + 1 < next /\ Len(currentLink) = last - first + 1
    BY <2>3, <2>4, <2>5, <2>8
  <2>10. Len(shown') < next
    BY <1>1, <2>6, <2>7, <2>9
  <2> QED  BY <2>8, <2>10
<1>9. Apart' <=> Apart
  BY <1>5 DEF Apart
<1> QED
  BY <1>4, <1>5, <1>6, <1>7, <1>8, <1>9 DEF OrderInv, NotPastNextLink, Matched

LEMMA CopyOrder == LoopInv /\ OrderInv /\ CopyOnly => OrderInv'
<1> SUFFICES ASSUME LoopInv, OrderInv, CopyOnly PROVE OrderInv'
  OBVIOUS
<1> DEFINE n == Len(anchors) + 1
<1>1. /\ Len(found) \in Nat /\ Len(links) \in Nat /\ Len(anchors) \in Nat
      /\ Len(shown) \in Nat /\ Len(links) > 0
  BY Lengths DEF LoopInv, CopyOnly
<1>2. n \in 1 .. Len(found) /\ currentLink = Matched(found[n])
  BY <1>1 DEF OrderInv, CopyOnly
<1>3. ASSUME Apart PROVE Len(shown') < found[n].first
  <2>1. Len(shown) < found[n].first
    BY <1>3 DEF OrderInv, NotPastNextLink, CopyOnly
  <2>2. Len(shown) + 1 # found[n].first
    BY <1>2, LinkIsPrefix DEF LoopInv, ShownThenRest, CopyOnly, HasPrefix
  <2>3. Len(shown') <= Len(shown) + 1 /\ Len(shown') \in Nat
    BY CopyKeeps, LenProperties DEF CopyOnly, LoopInv, LinkTypes
  <2>4. found[n].first \in Nat
    BY <1>2, MatchIsNat DEF LoopInv
  <2> QED  BY <1>1, <2>1, <2>2, <2>3, <2>4
<1> QED
  BY <1>3 DEF CopyOnly, OrderInv, NotPastNextLink, Apart, Matched

LEMMA OrderStep == LoopInv /\ OrderInv /\ [Next]_vars => OrderInv'
<1>1. OrderInv /\ (NoLinks \/ FindMatch) => OrderInv'
  BY DEF NoLinks, FindMatch, OrderInv, NotPastNextLink
<1>2. OrderInv /\ LeaveLoop => OrderInv'
  BY DEF LeaveLoop, OrderInv, NotPastNextLink
<1>3. OrderInv /\ UNCHANGED vars => OrderInv'
  BY DEF vars, OrderInv, NotPastNextLink, Apart, Matched
<1> QED
  BY <1>1, <1>2, <1>3, EnterOrder, WrapOrder, CopyOrder DEF Next

(* While no two matches touch, the loop runs past no link, for any text.     *)
THEOREM NoLinkIsPassed == Spec => []NotPastNextLink
<1>1. Init => OrderInv
  BY DEF Init, OrderInv, NotPastNextLink
<1>2. Spec => []OrderInv
  BY <1>1, OrderStep, LoopInvariance, PTL DEF Spec
<1> QED  BY <1>2, PTL DEF OrderInv
==============================================================================
