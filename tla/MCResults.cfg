\* Two replacements after the first ruleset, two results alive at once, a
\* Buffer overwritten once: a worker can be overtaken by two replacements and
\* start on a second task.
CONSTANTS
  Main = main
  Threads = {main, w1}
  Rulesets = {r1, r2, r3}
  NoRuleset = NoRuleset
  Torn = Torn
  MaxWrites = 1
  MaxResults = 2
SPECIFICATION ResultsSpec
SYMMETRY Symmetry
INVARIANT ResultsTypeOK
INVARIANT RichIsNotOlder
INVARIANT ViewsAgree
INVARIANT MaskWithinCall
INVARIANT MaskOfTheCandidatesPassed
INVARIANT GeoJsonIsOfTheMask
PROPERTY RichIsCached
