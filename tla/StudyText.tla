------------------------------- MODULE StudyText -------------------------------
(***************************************************************************)
(* The text a study's adapter sees of a page (_VisibleTextParser): four    *)
(* depth counters over the tags, fed one token at a time.  What it should  *)
(* see is said with the elements that are open for a reader: an end tag    *)
(* ends the innermost element of its name, with all that is open in it,    *)
(* and without one it ends nothing.                                        *)
(***************************************************************************)
EXTENDS Integers, Sequences, SequencesExt

CONSTANTS
    ContentTags, \* content_tags: "article", or the one tag a study gives instead
    OtherTags,   \* tags without a meaning here, blocks among them
    MaxTokens,   \* bound: tokens of a page
    MaxOpen      \* bound: elements open at once

HiddenTags == {"script", "noscript"}    \* "style" and "template" are as these
BlockTags == {"p", "h1"} \cup ContentTags
PageTags == HiddenTags \cup ContentTags \cup OtherTags \cup {"title", "h1"}

ASSUME StudyTextAssumption ==
    /\ \E tag \in ContentTags : ContentTags = {tag}
    /\ {"script", "noscript", "title", "h1", "br"} \cap (ContentTags \cup OtherTags) = {}
    /\ MaxTokens \in Nat /\ MaxOpen \in Nat

VARIABLES
    open,     \* the elements that are open for a reader, outermost first
    fed,      \* tokens so far; a piece of text is the number of its token
    parser,   \* _VisibleTextParser
    seen,     \* what it should have read: text, headings and the document's title
    veiled,   \* history: pieces of text in a hidden element
    ended,    \* history: the tokens that ended an element of a text, as its own end tag
    unclosed, \* history: tags of elements that ended with another one's end tag
    crossed   \* history: whether the end tag of a hidden element that was not open
              \* came within another one

textVars == <<open, fed, parser, seen, veiled, ended, unclosed, crossed>>
history == <<seen, veiled, ended, unclosed, crossed>>

Break == 0 \* white space that the parser adds

StudyTextTypeOK ==
    /\ open \in Seq(PageTags) /\ Len(open) <= MaxOpen
    /\ fed \in 0..MaxTokens
    /\ parser \in [hidden : 0..fed, content : 0..fed, heading : 0..fed, titled : 0..fed,
                   text : Seq(0..fed), headings : Seq(0..fed), title : Seq(0..fed)]
    /\ seen \in [text : Seq(1..fed), headings : Seq(1..fed), title : Seq(1..fed)]
    /\ veiled \subseteq 1..fed
    /\ ended \in [text : SUBSET (1..fed), headings : SUBSET (1..fed), title : SUBSET (1..fed)]
    /\ unclosed \subseteq PageTags /\ crossed \in BOOLEAN

TextInit ==
    /\ open = <<>> /\ fed = 0
    /\ parser = [hidden |-> 0, content |-> 0, heading |-> 0, titled |-> 0,
                 text |-> <<>>, headings |-> <<>>, title |-> <<>>]
    /\ seen = [text |-> <<>>, headings |-> <<>>, title |-> <<>>]
    /\ veiled = {} /\ ended = [text |-> {}, headings |-> {}, title |-> {}]
    /\ unclosed = {} /\ crossed = FALSE
-------------------------------------------------------------------------------
(* Bodies with one plausible mistake each; no action uses them.            *)

DataIfContent(p, n) ==
    [p EXCEPT !.title = IF p.titled > 0 THEN Append(@, n) ELSE @,
              !.text = IF p.content > 0 THEN Append(@, n) ELSE @,
              !.headings = IF p.content > 0 /\ p.heading > 0 THEN Append(@, n) ELSE @]
-------------------------------------------------------------------------------
\* handle_starttag: at most one counter moves.
Started(p, tag) ==
    LET q == IF tag \in HiddenTags THEN [p EXCEPT !.hidden = @ + 1]
             ELSE IF p.hidden > 0 THEN p
             ELSE IF tag = "title" THEN [p EXCEPT !.titled = @ + 1]
             ELSE IF tag \in ContentTags THEN [p EXCEPT !.content = @ + 1]
             ELSE IF tag = "h1" /\ p.content > 0 THEN [p EXCEPT !.heading = @ + 1]
             ELSE p
    IN  IF tag = "br" /\ q.hidden = 0 /\ q.content > 0 THEN [q EXCEPT !.text = Append(@, Break)]
        ELSE q

\* handle_endtag.
Ended(p, tag) ==
    IF tag \in HiddenTags /\ p.hidden > 0 THEN [p EXCEPT !.hidden = @ - 1]
    ELSE IF p.hidden > 0 THEN p
    ELSE IF tag = "title" /\ p.titled > 0
    THEN [p EXCEPT !.titled = @ - 1, !.title = Append(@, Break)]
    ELSE IF tag \in ContentTags /\ p.content > 0
    THEN [p EXCEPT !.content = @ - 1, !.text = Append(@, Break)]
    ELSE LET ends == p.content > 0 /\ tag = "h1" /\ p.heading > 0
             q == IF ends THEN [p EXCEPT !.heading = @ - 1, !.headings = Append(@, Break)] ELSE p
         IN  IF p.content > 0 /\ tag \in BlockTags THEN [q EXCEPT !.text = Append(@, Break)] ELSE q

\* handle_data, of text that is not blank.
Data(p, n) ==
    IF p.hidden > 0 THEN p
    ELSE [p EXCEPT !.title = IF p.titled > 0 THEN Append(@, n) ELSE @,
                   !.text = IF p.content > 0 THEN Append(@, n) ELSE @,
                   !.headings = IF p.content > 0 /\ p.heading > 0 THEN Append(@, n) ELSE @]

\* What a reader sees: nothing in a hidden element; the text of the content
\* elements, and of the headings within them.
Visible == ToSet(open) \cap HiddenTags = {}
Within(tags) == \E i \in DOMAIN open : open[i] \in tags
InHeading ==
    \E i, j \in DOMAIN open : i < j /\ open[i] \in ContentTags /\ open[j] = "h1"

\* The elements that should count: hidden ones, and those of a text that are
\* in no hidden one.
Noted(j) ==
    LET within == {open[i] : i \in 1..(j - 1)}
    IN  \/ open[j] \in HiddenTags
        \/ /\ within \cap HiddenTags = {}
           /\ \/ open[j] \in ContentTags \cup {"title"}
              \/ open[j] = "h1" /\ within \cap ContentTags # {}

\* html.parser (external) feeds the tokens of a page.  In a script it knows
\* no tag but the script's end.
OpenTag ==
    /\ fed < MaxTokens /\ Len(open) < MaxOpen
    /\ ~Within({"script"})
    /\ \E tag \in PageTags :
          open' = Append(open, tag) /\ parser' = Started(parser, tag)
    /\ fed' = fed + 1
    /\ UNCHANGED history

LineBreak ==
    /\ fed < MaxTokens
    /\ ~Within({"script"})
    /\ parser' = Started(parser, "br")
    /\ fed' = fed + 1
    /\ UNCHANGED <<open, history>>

Added(set, holds) == IF holds THEN set \cup {fed'} ELSE set

\* The end tag of an open element: everything that is open in it ends as well.
CloseTag(tag) ==
    /\ fed < MaxTokens
    /\ Within({"script"}) => tag = "script"
    /\ fed' = fed + 1
    /\ parser' = Ended(parser, tag)
    /\ \E i \in DOMAIN open :
          /\ open[i] = tag /\ \A j \in DOMAIN open : i < j => open[j] # tag
          /\ open' = SubSeq(open, 1, i - 1)
          /\ unclosed' = unclosed \cup {open[j] : j \in {k \in DOMAIN open : i < k /\ Noted(k)}}
    /\ ended' = [text |-> Added(ended.text, Visible /\ tag \in BlockTags /\ Within(ContentTags)),
                 headings |-> Added(ended.headings, Visible /\ tag = "h1" /\ InHeading),
                 title |-> Added(ended.title, Visible /\ tag = "title")]
    /\ UNCHANGED <<seen, veiled, crossed>>

\* An end tag of an element that is not open.
StrayTag(tag) ==
    /\ fed < MaxTokens
    /\ ~Within({"script", tag})
    /\ fed' = fed + 1
    /\ parser' = Ended(parser, tag)
    /\ crossed' = (crossed \/ (tag \in HiddenTags /\ ~Visible))
    /\ UNCHANGED <<open, seen, veiled, ended, unclosed>>

Text ==
    /\ fed < MaxTokens
    /\ fed' = fed + 1
    /\ parser' = Data(parser, fed')
    /\ veiled' = Added(veiled, ~Visible)
    /\ seen' = IF ~Visible THEN seen
               ELSE [seen EXCEPT !.title = IF Within({"title"}) THEN Append(@, fed') ELSE @,
                                 !.text = IF Within(ContentTags) THEN Append(@, fed') ELSE @,
                                 !.headings = IF InHeading THEN Append(@, fed') ELSE @]
    /\ UNCHANGED <<open, ended, unclosed, crossed>>

TextNext ==
    \/ OpenTag
    \/ LineBreak
    \/ \E tag \in PageTags : CloseTag(tag) \/ StrayTag(tag)
    \/ Text

TextSpec == TextInit /\ [][TextNext]_textVars
-------------------------------------------------------------------------------
\* A text with white space added is still the text it should be: a piece is
\* the number of its token, so its pieces and their order tell.
Pieces(s) == ToSet(s) \ {Break}
InOrder(s) ==
    \A i, j \in DOMAIN s : i < j /\ s[i] # Break /\ s[j] # Break => s[i] < s[j]
SameText(shown, due) == Pieces(shown) = Pieces(due) /\ InOrder(shown) /\ InOrder(due)

(* Nothing of a script, a noscript or a template is evidence, whatever     *)
(* else is left open and however it nests, unless within a hidden element  *)
(* the end tag of a hidden one comes that is not open.                     *)
HiddenProvesNothing ==
    ~crossed => veiled \cap (Pieces(parser.text) \cup Pieces(parser.headings)
                                \cup Pieces(parser.title)) = {}

(* What a reader sees in the study's element is looked at, in its order,   *)
(* and so are the headings in it and the document's title, though any of   *)
(* these or a tag without meaning may be left open.  Only a hidden element *)
(* that is left open hides what follows it from the parser.                *)
NothingIsMissed ==
    ~crossed /\ unclosed \cap HiddenTags = {} =>
        /\ Pieces(seen.text) \subseteq Pieces(parser.text) /\ InOrder(parser.text)
        /\ Pieces(seen.headings) \subseteq Pieces(parser.headings) /\ InOrder(parser.headings)
        /\ Pieces(seen.title) \subseteq Pieces(parser.title) /\ InOrder(parser.title)

(* A page that closes its hidden elements, its content, headings and title *)
(* is evidence by their text and by nothing else.  (It may leave others    *)
(* open, and have any end tag too many.)                                   *)
TextIsVisible ==
    ~crossed /\ unclosed = {} =>
        /\ SameText(parser.text, seen.text)
        /\ SameText(parser.headings, seen.headings)
        /\ SameText(parser.title, seen.title)

Apart(s, ends) ==
    \A i \in 1..(Len(s) - 1) : s[i] # Break /\ s[i + 1] # Break =>
        \A e \in ends : ~ (s[i] < e /\ e < s[i + 1])

(* The words of a content element, a heading, a paragraph or a title that  *)
(* has ended with its own end tag are never glued to those that come       *)
(* after it, whatever else is left open but hidden elements.  (Where one   *)
(* begins, words may be: only "br" and an end tag add a break.)            *)
ElementsStayApart ==
    ~crossed /\ unclosed \cap HiddenTags = {} =>
        /\ Apart(parser.text, ended.text)
        /\ Apart(parser.headings, ended.headings)
        /\ Apart(parser.title, ended.title)

(* The parser shows what a reader of the page sees, element by element, as *)
(* far as the page's own mistakes let it.                                  *)
StudyTextInv ==
    /\ StudyTextTypeOK /\ HiddenProvesNothing /\ NothingIsMissed
    /\ TextIsVisible /\ ElementsStayApart
===============================================================================
