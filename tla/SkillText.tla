------------------------------ MODULE SkillText ------------------------------
(* skills/parser.ts, validator.ts and formatter.ts: a manifest is read line by *)
(* line, frontmatter and Markdown, then validated and formatted for a prompt.  *)
(* A line is what the parser tells it apart by; the name of a key, the words   *)
(* of a rule and the like are one or two representatives.                      *)
EXTENDS NoValue, Integers, Sequences, SequencesExt, FiniteSets, FiniteSetsExt

CONSTANTS Keys,            \* keys of the frontmatter
          Words,           \* words of rules
          Critical,        \* those that inferSeverity finds critical
          MaxLines,        \* bound: lines of a text
          MaxRuleLimit

VARIABLE text

\* Lines of the frontmatter: a key with a scalar or without, an item, a subkey,
\* and what is not indented and has no key (a comment, an item at the margin).
YamlLines ==
  [kind : {"key"}, key : Keys, scalar : BOOLEAN] \cup [kind : {"item"}, word : Words]
    \cup [kind : {"sub"}, word : Words] \cup [kind : {"bare"}]

\* Lines of the body: headings of a rule section and of another, bullets, other
\* text, and the two fences of a code block.
BodyLines ==
  [kind : {"heading"}, rules : BOOLEAN] \cup [kind : {"bullet"}, word : Words]
    \cup [kind : {"text"}] \cup [kind : {"fence"}, script : BOOLEAN]

\* What is absent is neither a key nor a line.
ASSUME TextAssumption == None \notin Keys \cup BodyLines

TextInit ==
  \/ text = [on |-> "yaml", lines |-> <<>>, key |-> None, array |-> FALSE, nested |-> FALSE,
             result |-> [k \in Keys |-> None]]
  \/ text = [on |-> "body", lines |-> <<>>, sections |-> <<>>, heading |-> None, open |-> <<>>]
  \/ \E rules \in SeqOf(Words, 3), limit \in 0..MaxRuleLimit :
       text = [on |-> "prompt", rules |-> rules, limit |-> limit, shown |-> None]
-----------------------------------------------------------------------------
(* Scans of a sequence from its start (filter and map over lines and rules).   *)

\* The members of s that are in C.
Among(s, C) ==
  LET upTo[n \in 0..Len(s)] ==
        IF n = 0 THEN <<>>
        ELSE IF s[n] \in C THEN Append(upTo[n - 1], s[n]) ELSE upTo[n - 1]
  IN upTo[Len(s)]

\* The words of the lines of a kind.
WordsOf(lines, kind) ==
  LET upTo[n \in 0..Len(lines)] ==
        IF n = 0 THEN <<>>
        ELSE IF lines[n].kind = kind THEN Append(upTo[n - 1], lines[n].word) ELSE upTo[n - 1]
  IN upTo[Len(lines)]
-----------------------------------------------------------------------------
(* parseYamlBlock.  A value is a scalar, an array of the items or an object    *)
(* of the subkeys; currentArray and currentNestedObj are the value while they  *)
(* are its own, and detached from it after the other kind has replaced it.     *)

Null == [kind |-> "null", of |-> <<>>]

OnKey(t, line) ==
  [t EXCEPT !.key = line.key, !.array = FALSE, !.nested = FALSE,
            !.result[line.key] = IF line.scalar THEN [kind |-> "scalar", of |-> <<>>] ELSE Null]

Grown(value, kind, word) ==
  IF value.kind = kind THEN [value EXCEPT !.of = Append(@, word)] ELSE value

OnItem(t, line) ==
  IF t.key = None THEN t
  ELSE IF t.array THEN [t EXCEPT !.result[t.key] = Grown(@, "array", line.word)]
  ELSE [t EXCEPT !.array = TRUE, !.result[t.key] = [kind |-> "array", of |-> <<line.word>>]]

OnSub(t, line) ==
  IF t.key = None THEN t
  ELSE IF t.nested THEN [t EXCEPT !.result[t.key] = Grown(@, "object", line.word)]
  ELSE [t EXCEPT !.nested = TRUE, !.result[t.key] = [kind |-> "object", of |-> <<line.word>>]]

OnBare(t) == [t EXCEPT !.array = FALSE, !.nested = FALSE]

ParseYamlLine ==
  /\ text.on = "yaml" /\ Len(text.lines) < MaxLines
  /\ \E line \in YamlLines :
       text' = [(CASE line.kind = "key" -> OnKey(text, line)
                   [] line.kind = "item" -> OnItem(text, line)
                   [] line.kind = "sub" -> OnSub(text, line)
                   [] line.kind = "bare" -> OnBare(text)) EXCEPT !.lines = Append(@, line)]
-----------------------------------------------------------------------------
(* parseMarkdownSections: a heading closes the section before it, also a line  *)
(* that only looks like one inside a code block.                               *)

Closed(t) ==
  IF t.heading # None \/ t.open # <<>>
    THEN Append(t.sections, [heading |-> t.heading, content |-> t.open]) ELSE t.sections

ParseBodyLine ==
  /\ text.on = "body" /\ Len(text.lines) < MaxLines
  /\ \E line \in BodyLines :
       text' = [(IF line.kind = "heading"
                   THEN [text EXCEPT !.sections = Closed(text), !.heading = line, !.open = <<>>]
                   ELSE [text EXCEPT !.open = Append(@, line)]) EXCEPT !.lines = Append(@, line)]

\* extractRulesFromMarkdown: the bullets of rule sections, numbered throughout.
RulesOf(section) ==
  IF section.heading = None \/ ~section.heading.rules THEN <<>>
  ELSE WordsOf(section.content, "bullet")

ExtractRules(sections) == FlattenSeq([i \in DOMAIN sections |-> RulesOf(sections[i])])

\* extractScriptsFromMarkdown: fences pair off in order, wherever they are.
ExtractScripts(lines) ==
  LET fences == SelectSeq(lines, LAMBDA l : l.kind = "fence")
  IN Cardinality({i \in 1..(Len(fences) \div 2) : fences[2 * i - 1].script})

\* What is said once is said: guidelines are the words of the rules.
GuidelinesOf(rules) ==
  LET upTo[n \in 0..Len(rules)] ==
        IF n = 0 THEN <<>>
        ELSE IF rules[n] \in ToSet(upTo[n - 1]) THEN upTo[n - 1] ELSE Append(upTo[n - 1], rules[n])
  IN upTo[Len(rules)]

\* validateSkillManifest: a name of more than one word and a rule without a
\* description are errors, and so is what fails the security check: a dangerous
\* name, payload or path.
Validated(oneWord, rules, safe) ==
  [valid |-> oneWord /\ "" \notin ToSet(rules) /\ safe, securityPass |-> safe]

\* parseSkillContent: the name is the frontmatter's or that of the first heading,
\* which may have a blank in it; a rule of the frontmatter may be empty.
ParseSkillContent ==
  /\ text.on = "body"
  /\ \E named \in {"key", "word", "words"}, given \in SeqOf(Words \cup {""}, 1), safe \in BOOLEAN :
       LET sections == Closed(text)
           rules == given \o ExtractRules(sections)
           scripts == ExtractScripts(text.lines)
           first == sections # <<>> /\ sections[1].heading # None
       IN text' = [on |-> "manifest", lines |-> text.lines, sections |-> sections,
                   given |-> given, rules |-> rules, scripts |-> scripts,
                   guidelines |-> GuidelinesOf(rules),
                   check |-> Validated(named # "words" \/ ~first, rules, safe)]
-----------------------------------------------------------------------------
(* formatSkillPrompt: critical rules first, and no more rules than the limit.  *)

Remaining(limit, critical) == Max({0, limit - Len(critical)})

Cut(rules, limit) == SubSeq(rules, 1, Min({limit, Len(rules)}))

FormatSkillPrompt ==
  /\ text.on = "prompt" /\ text.shown = None
  /\ LET critical == Among(text.rules, Critical)
         others == Among(text.rules, Words \ Critical)
     IN text' = [text EXCEPT !.shown = Cut(critical, text.limit)
                                         \o Cut(others, Remaining(text.limit, critical))]

TextNext == ParseYamlLine \/ ParseBodyLine \/ ParseSkillContent \/ FormatSkillPrompt
-----------------------------------------------------------------------------
(* Properties *)

\* The lines below the last occurrence of a key, up to the next key.
StartsOf(lines, k) == {i \in DOMAIN lines : lines[i].kind = "key" /\ lines[i].key = k}

BlockAfter(lines, start) ==
  LET ends == {i \in DOMAIN lines : i > start /\ lines[i].kind = "key"} \cup {Len(lines) + 1}
  IN SubSeq(lines, start + 1, Min(ends) - 1)

\* Where the lines of a kind begin in a block, 0 if there are none.
Began(block, kind) ==
  LET of == {i \in DOMAIN block : block[i].kind = kind} IN IF of = {} THEN 0 ELSE Min(of)

\* What of a block counts: its last lines between two bare ones.
LastRun(block) ==
  LET said == {i \in DOMAIN block : block[i].kind # "bare"}
      bare(end) == {i \in 1..end : block[i].kind = "bare"} \cup {0}
  IN IF said = {} THEN <<>> ELSE SubSeq(block, Max(bare(Max(said))) + 1, Max(said))

\* What a key with these lines is worth: all their items or all their subkeys,
\* whichever began later.
ValueOf(line, run) ==
  IF run = <<>> THEN [kind |-> IF line.scalar THEN "scalar" ELSE "null", of |-> <<>>]
  ELSE IF Began(run, "item") > Began(run, "sub")
    THEN [kind |-> "array", of |-> WordsOf(run, "item")]
  ELSE [kind |-> "object", of |-> WordsOf(run, "sub")]

\* The value of a key is told by the lines below its last occurrence alone, and
\* of them by the last that no bare line divides: a comment at the margin makes
\* the next item replace the items before it (parseYamlBlock).
FrontmatterIsBlocks ==
  text.on = "yaml" =>
    \A k \in Keys :
      LET starts == StartsOf(text.lines, k)
          start == Max(starts)
      IN text.result[k] = IF starts = {} THEN None
                          ELSE ValueOf(text.lines[start], LastRun(BlockAfter(text.lines, start)))

\* The bullets whose last heading before them is one of rules.
RulesUnder(lines) ==
  LET Under(i) ==
        LET above == {j \in 1..i : lines[j].kind = "heading"}
        IN above # {} /\ lines[Max(above)].rules
  IN WordsOf([i \in DOMAIN lines |-> IF Under(i) THEN lines[i] ELSE [kind |-> "other"]], "bullet")

\* A section as it stood in the text.
LinesOf(s) == (IF s.heading = None THEN <<>> ELSE <<s.heading>>) \o s.content

\* The sections are the text, no line lost; the rules are those given, then those
\* under headings of rules, in order; and each is a guideline once
\* (parseMarkdownSections, extractRulesFromMarkdown, parseSkillContent).
ManifestIsText ==
  text.on = "manifest" =>
    /\ FlattenSeq([i \in DOMAIN text.sections |-> LinesOf(text.sections[i])]) = text.lines
    /\ text.rules = text.given \o RulesUnder(text.lines)
    /\ ToSet(text.guidelines) = ToSet(text.rules)
    /\ IsInjective(text.guidelines)

\* A prompt shows as many rules as its limit allows, and no other rule before a
\* critical one that is left out (formatSkillPrompt, formatRulesSection).
PromptIsWithinLimit ==
  text.on = "prompt" /\ text.shown # None =>
    /\ Len(text.shown) = Min({text.limit, Len(text.rules)})
    /\ ToSet(text.shown) \subseteq Critical \/
         Len(Among(text.shown, Critical)) = Len(Among(text.rules, Critical))
=============================================================================
