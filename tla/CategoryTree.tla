---------------------------- MODULE CategoryTree ----------------------------
(***************************************************************************)
(* What a program learns of the marketplace's categories from the home     *)
(* page: parse_category_tree of src/src/parser.rs.  The parser has no      *)
(* state.  The page grows node by node, in document order, so that every   *)
(* page up to a size is seen, and the answer is compared with the page.    *)
(* The page's layout is the site's: entries of the current one, a          *)
(* container of the older one, or both.                                    *)
(***************************************************************************)
EXTENDS DocumentOrder, SequencesExt

CONSTANT MaxNodes   \* bound: nodes of the page

ASSUME TreeAssumption == MaxNodes \in Nat \ {0}

(* Kinds of nodes: "tree" is a container with one of the outermost         *)
(* classes, "list" any other list; "promo" is an entry of the current      *)
(* layout and "game" the box of its title; "broken" is a link whose id or  *)
(* name cannot be read, "echo" one that repeats the title of its entry.    *)
Links == {"link", "echo"}
Lists == {"tree", "list"}

Holds == [body   |-> {"tree", "promo"},
          tree   |-> {"item", "link", "list", "broken"},
          list   |-> {"item", "link", "echo", "broken", "list"},
          item   |-> {"link", "list"},
          promo  |-> {"game", "list", "link"},
          game   |-> {"link", "broken"},
          link   |-> {}, echo |-> {}, broken |-> {}]

VARIABLE doc        \* the nodes of the page in document order: [kind, parent]

Of(kinds) == {n \in DOMAIN doc : doc[n].kind \in kinds}

Above == LET up[n \in DOMAIN doc] ==
               IF doc[n].parent = 0 THEN {} ELSE {doc[n].parent} \cup up[doc[n].parent]
         IN up
Below(n) == {m \in DOMAIN doc : n \in Above[m]}

Page == << [kind |-> "body", parent |-> 0] >>
-----------------------------------------------------------------------------
(* Mutant: the list of a link is looked for below the link itself. *)
ItemOf_Itself(link) == link

(* link.parent() *)
ItemOf(link) == doc[link].parent

(* parse_children, for every container: each readable link below it, at    *)
(* any depth, is told, with the links of the first list below its parent.  *)
ParseChildren ==
  LET children[box \in DOMAIN doc] ==
        LET links == InOrder(Below(box) \cap Of(Links))
            inner(link) == Below(ItemOf(link)) \cap Of(Lists)
        IN [i \in DOMAIN links |->
             [id |-> links[i],
              children |-> IF inner(links[i]) = {} THEN << >>
                           ELSE children[Min(inner(links[i]))]]]
  IN children

Legacy == IF Of({"tree"}) = {} THEN << >> ELSE ParseChildren[Min(Of({"tree"}))]

(* The entries of the current layout.  The first link in a title box is    *)
(* the title; without a readable one the entry is skipped.                 *)
Titles(promo) == {n \in Below(promo) \cap Of(Links \cup {"broken"}) :
                    doc[doc[n].parent].kind = "game"}

Promos == InOrder({p \in Of({"promo"}) : Titles(p) # {} /\ Min(Titles(p)) \in Of(Links)})

PromoChildren(promo) ==
  LET links == InOrder((Below(promo) \cap Of({"link"})) \ {Min(Titles(promo))}) IN
  [i \in DOMAIN links |-> [id |-> links[i], children |-> << >>]]

(* The last resort reads the container that has just told nothing. *)
ParseCategoryTree ==
  IF Legacy # << >> THEN Legacy
  ELSE IF Promos # << >>
  THEN [i \in DOMAIN Promos |-> [id |-> Min(Titles(Promos[i])),
                                 children |-> PromoChildren(Promos[i])]]
  ELSE Legacy
-----------------------------------------------------------------------------
TreeInit == doc = Page

(* The site's page has one more node, below the last one or one above it. *)
Grow(kind, parent) ==
  /\ Len(doc) < MaxNodes
  /\ parent \in {Len(doc)} \cup Above[Len(doc)]
  /\ kind \in Holds[doc[parent].kind]
  /\ kind = "tree" => Of({"tree"}) = {}
  /\ doc' = Append(doc, [kind |-> kind, parent |-> parent])

TreeNext == \E kind \in DOMAIN Holds, parent \in DOMAIN doc : Grow(kind, parent)

TreeSpec == TreeInit /\ [][TreeNext]_doc
-----------------------------------------------------------------------------
(* All told nodes of an answer, and those told below a node. *)
Told(nodes) ==
  LET level[k \in 0..MaxNodes] ==
        IF k = 0 THEN ToSet(nodes) ELSE UNION {ToSet(n.children) : n \in level[k - 1]}
  IN UNION {level[k] : k \in 0..MaxNodes}

(* A page of items: each with one link and at most one list, and no link   *)
(* outside an item.                                                        *)
Itemised ==
  /\ \A n \in Of(Links \cup {"broken"}) : doc[doc[n].parent].kind = "item"
  /\ \A n \in Of({"item"}) : \A kind \in {"link", "list"} :
       Cardinality({m \in Of({kind}) : doc[m].parent = n}) <= 1

(* A list that tells nothing twice. *)
Once(nodes) == \A i, j \in DOMAIN nodes : nodes[i].id = nodes[j].id => i = j

(* Whatever the layout, just the page's readable categories are told, none *)
(* below itself and none twice in one list, and what is told below a       *)
(* category is below its item or its entry.  At the top level are the      *)
(* titles of the entries; on the older layout all the links, those that    *)
(* are told below others too.  On a page of items a category is told below *)
(* another if and only if it is below its item.                            *)
TreeKeepsAncestry ==
  LET tree == ParseCategoryTree
      old  == Legacy # << >>
      home(id) == IF old THEN doc[id].parent
                  ELSE CHOOSE p \in Of({"promo"}) : id \in Below(p)
  IN /\ Once(tree)
     /\ {n.id : n \in ToSet(tree)} =
          IF old THEN Below(Min(Of({"tree"}))) \cap Of(Links)
          ELSE {Min(Titles(Promos[i])) : i \in DOMAIN Promos}
     /\ {n.id : n \in Told(tree)} =
          IF old THEN Below(Min(Of({"tree"}))) \cap Of(Links)
          ELSE UNION {{Min(Titles(Promos[i]))} \cup (Below(Promos[i]) \cap Of({"link"})) :
                        i \in DOMAIN Promos}
     /\ \A n \in Told(tree) :
          LET below == {m.id : m \in Told(n.children)} IN
          /\ Once(n.children)
          /\ n.id \notin below /\ below \subseteq Below(home(n.id))
          /\ Itemised => below = (Below(home(n.id)) \cap Of(Links)) \ {n.id}

(* parser.rs:817 "Returns top-level categories, each containing nested     *)
(* children": what is told below a category is not told at the top level.  *)
OnlyTopLevelOnTop ==
  \A n \in ToSet(ParseCategoryTree) :
    {m.id : m \in Told(n.children)} \cap {m.id : m \in ToSet(ParseCategoryTree)} = {}
=============================================================================
