--------------------------- MODULE MCImagePublish ---------------------------
(* Two builds of a producer, one importing consumer, two cloud images.      *)
EXTENDS ImagePublish, TLC

CONSTANTS b1, b2, i1, i2, prod, cons

MCBuild == {b1, b2}
MCImage == {i1, i2}
MCImporter == {cons}

MCAnywhere == {"save", "describe", "upload", "import", "answered", "wait", "collect",
               "mark", "release", "gc", "lease", "check", "capture", "delete",
               "deleted", "snapshots", "remove"}
\* Losing ImportImage's answer is counterexample 1 of the README
MCAnswered == MCAnywhere \ {"answered"}

Symmetry == Permutations(MCBuild) \cup Permutations(MCImage)

=============================================================================
