------------------------------- MODULE MCSite -------------------------------
(***************************************************************************)
(* An instance of Site for TLC: the home page, the renamed workflow guide, *)
(* a guide that comes and goes, excluded Markdown, two assets, one kind of *)
(* generator output that is pruned, and a page that would shadow the       *)
(* repository.                                                             *)
(***************************************************************************)
EXTENDS Site, TLC

MCUrlOf == [readme |-> "index.html", guide |-> "guide.html",
            todo |-> "todo.html", pool |-> "pool/index.html"]

Links(home, guide) ==
  [readme |-> home, guide |-> guide, todo |-> {}, pool |-> {}]

Commit(docs, links, output, names, text) ==
  [docs |-> docs \cup {"todo"}, nav |-> docs, links |-> links,
   output |-> output, names |-> names, text |-> text]

MCTree == {
  \* Two pages and one asset; the home page links to the guide.
  Commit({"readme", "guide"}, Links({"guide"}, {"readme"}), {"a", "map"}, {"a"}, 1),
  \* No guide, another asset, other bytes under the old names, a pinned link.
  Commit({"readme"}, Links({"todo"}, {}), {"a", "b"}, {"b"}, 2),
  \* The home page alone: two objects of the first commit are stale, and a third one
  \* when the publication of the second commit was interrupted in between.
  Commit({"readme"}, Links({}, {}), {}, {}, 2),
  \* Refused: pages load a file that is pruned.
  Commit({"readme"}, Links({}, {}), {"map"}, {"map"}, 1),
  \* Refused: a page would shadow the repository, and links to nothing.
  Commit({"readme", "pool"}, Links({"gone"}, {}), {"a"}, {"a"}, 1)}
=============================================================================
