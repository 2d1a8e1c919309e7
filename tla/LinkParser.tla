----------------------------- MODULE LinkParser ------------------------------
(***************************************************************************)
(* partialHtmlParser of src/shareNotes.go, which turns the text of a note  *)
(* into HTML: it asks xurls for the links in the text, then goes through   *)
(* the text and wraps each link in an anchor.                              *)
(*                                                                         *)
(* xurls is external: what it finds is any list of matches that follow     *)
(* each other in the text.  Two matches may touch: in "foo.com:bar.com"    *)
(* they are "foo.com:", with a port of no digits, and "bar.com".           *)
(*                                                                         *)
(* newText is kept as the text it displays and the list of its anchors;    *)
(* how an anchor is spelled, with "http://" in front or not, is left out.  *)
(* One iteration of the loop is one step.                                  *)
(***************************************************************************)
EXTENDS SequencesExt

CONSTANTS
    Char,    \* the characters texts are made of
    Texts    \* the texts of notes

ASSUME TextsAssumption == Texts \subseteq Seq(Char)

VARIABLES
    text,          \* the argument
    found,         \* the matches in it, each [first |-> .., last |-> ..]
    at,            \* "find" in xurls, "loop", "done" when the function returned
    links,         \* the links still to come
    currentLink,
    restText,
    shown,         \* newText: what it displays
    anchors        \* newText: the links it has wrapped

vars == <<text, found, at, links, currentLink, restText, shown, anchors>>

------------------------------------------------------------------------------
Init ==
    /\ text \in Texts
    /\ found = <<>>
    /\ at = "find"
    /\ links = <<>>
    /\ currentLink = <<>>
    /\ restText = text
    /\ shown = <<>>
    /\ anchors = <<>>

Matched(m) == SubSeq(text, m.first, m.last)

FoundLinks == [k \in DOMAIN found |-> Matched(found[k])]

\* xurls goes on behind the last match.
FindMatch ==
    /\ at = "find"
    /\ \E first, last \in DOMAIN text :
        /\ first <= last
        /\ found # <<>> => Last(found).last < first
        /\ found' = Append(found, [first |-> first, last |-> last])
    /\ UNCHANGED <<text, at, links, currentLink, restText, shown, anchors>>

\* No link: newText is the text.
NoLinks ==
    /\ at = "find"
    /\ found = <<>>
    /\ shown' = restText
    /\ at' = "done"
    /\ UNCHANGED <<text, found, links, currentLink, restText, anchors>>

EnterLoop ==
    /\ at = "find"
    /\ found # <<>>
    /\ links' = FoundLinks
    /\ currentLink' = Head(links')
    /\ at' = "loop"
    /\ UNCHANGED <<text, found, restText, shown, anchors>>

\* The second half of an iteration: newText is s and restText is rest by now;
\* one character is copied, if there is one.
CopyOne(s, rest) ==
    \/ /\ rest # <<>>
       /\ shown' = Append(s, Head(rest))
       /\ restText' = Tail(rest)
    \/ /\ rest = <<>>
       /\ shown' = s
       /\ restText' = rest

\* (mutant) a link that ends the text is no prefix of what is left
HasLongerPrefix(s, prefix) == IsStrictPrefix(prefix, s)

HasPrefix(s, prefix) == IsPrefix(prefix, s)

\* (mutant) the slice starts one too early
CutTooLittle(s, prefix) == SubSeq(s, Len(prefix), Len(s))

\* restText[len(currentLink):len(restText)]
CutPrefix(s, prefix) == SubSeq(s, Len(prefix) + 1, Len(s))

\* An iteration in which currentLink is next; the last link stays in
\* currentLink when links is empty.
WrapLink ==
    /\ at = "loop"
    /\ links # <<>>
    /\ HasPrefix(restText, currentLink)
    /\ anchors' = Append(anchors, currentLink)
    /\ links' = Tail(links)
    /\ currentLink' = IF Len(links) > 1 THEN links[2] ELSE links[1]
    /\ CopyOne(shown \o currentLink, CutPrefix(restText, currentLink))
    /\ UNCHANGED <<text, found, at>>

\* An iteration in which it is not.
CopyOnly ==
    /\ at = "loop"
    /\ links # <<>>
    /\ ~ HasPrefix(restText, currentLink)
    /\ CopyOne(shown, restText)
    /\ UNCHANGED <<text, found, at, links, currentLink, anchors>>

LeaveLoop ==
    /\ at = "loop"
    /\ links = <<>>
    /\ at' = "done"
    /\ UNCHANGED <<text, found, links, currentLink, restText, shown, anchors>>

Next == FindMatch \/ NoLinks \/ EnterLoop \/ WrapLink \/ CopyOnly \/ LeaveLoop

\* The handler's goroutine keeps running.
Spec == Init /\ [][Next]_vars /\ WF_vars(Next)

------------------------------------------------------------------------------
(* Some character lies between any two matches.                              *)
Apart == \A k \in 1 .. Len(found) - 1 : found[k].last + 1 < found[k + 1].first

(* The loop loses, repeats and reorders nothing: what newText displays and   *)
(* restText make up the text, also when currentLink turns up where xurls saw *)
(* no link.  (restText and newText are cut and extended in five places.)     *)
ShownThenRest == at = "loop" => shown \o restText = text

(* When no two matches touch, the loop never runs past a link that it has    *)
(* still to wrap, although it compares contents and not positions.           *)
NotPastNextLink ==
    at = "loop" /\ links # <<>> /\ Apart
        => Len(shown) < found[Len(anchors) + 1].first

(* When no two matches touch, the function returns, having wrapped every     *)
(* link that xurls found, in their order.                                    *)
ApartReturns ==
    at = "loop" /\ Apart ~> at = "done" /\ anchors = FoundLinks

(* A page that shows a note is served: its template waits for this function. *)
Returns == at = "loop" ~> at = "done"
==============================================================================
