------------------------------ MODULE EditRules ------------------------------
(***************************************************************************)
(* What the edit scripts keep to, so that the tree stays whole whatever is *)
(* run on it and wherever it stops.  The rules are about the lists of      *)
(* edits: none of them mentions an order of running, a refusal or a death. *)
(* They are assumptions on the constant Script, and hold of the scripts of *)
(* the repository, EditPhases; a script added to tools/ has to keep them.  *)
(***************************************************************************)
EXTENDS EditScripts

Top == "MegaCD.sv"
Ddr == "s32x_ddr.sv"

PartsOf(f) == {p \in Parts : p.file = f}
Marks(f)   == DOMAIN Base[f] \cup UNION {Gained(p) : p \in PartsOf(f)}
Loses(p, mark) == \E e \in ToSet(p.edits) : e.at = mark /\ mark \notin e.new

(* The part takes the mark out and does not put it back.                   *)
Takes(p, mark) == Loses(p, mark) /\ mark \notin Gained(p)

(* At most one edit puts the mark in.                                      *)
Once(p, mark) ==
  \A j, k \in DOMAIN p.edits :
    mark \in Gain(p.edits[j]) /\ mark \in Gain(p.edits[k]) => j = k

(* Lists of files and of edits, none of them empty.                        *)
IsList(q) == q \in Seq(ToSet(q)) /\ q # << >>
ASSUME ShapeAssumption ==
  /\ \A s \in Names : Script[s].strict \in BOOLEAN /\ IsList(Script[s].parts)
  /\ \A p \in Parts : IsList(p.edits)
  /\ {Top, Ddr} \subseteq Files

-----------------------------------------------------------------------------
(* Ports, connections and beats are never taken out.                       *)
Lasting == {"port", "map", "beat"}
ASSUME LastingAssumption ==
  \A p \in Parts : \A e \in ToSet(p.edits) : e.at[1] \in Lasting => e.at \in e.new

(* What has to be in another file when the mark is in this one: the port   *)
(* of a probe that is connected, the connection of a telemetry port.       *)
Needs(f, mark) ==
  {[file |-> p[3], mark |-> Port(p[1])] : p \in {q \in Path : q[2] = f /\ Map(q[1]) = mark}}
  \cup IF f = Ddr /\ mark[1] = "port" THEN {[file |-> Top, mark |-> Map(mark[2])]} ELSE {}

(* The other file is written first.                                        *)
ASSUME NeedsAssumption ==
  /\ \A q \in Path : q[2] \in Files
  /\ \A f \in Files : \A mark \in DOMAIN Base[f] : Needs(f, mark) = {}
  /\ \A s \in Names : \A i \in DOMAIN Script[s].parts :
       \A mark \in Gained(Script[s].parts[i]) : \A n \in Needs(Script[s].parts[i].file, mark) :
         \E j \in 1..(i - 1) : /\ Script[s].parts[j].file = n.file
                               /\ n.mark \in Gained(Script[s].parts[j])

-----------------------------------------------------------------------------
(* The telemetry in the top.  A name is driven by a wire and connected; the *)
(* connection list ends with one of them, and every new one goes after it,  *)
(* so that the last names a beat higher than those before.                  *)
NamesOf(tag, f) == {mark[2] : mark \in {m \in Marks(f) : m[1] = tag}}
Telemetry == NamesOf("wire", Top) \cap (NamesOf("map", Top) \cup NamesOf("last map", Top))

BeatOf(x) == (CHOOSE m \in Marks(Ddr) : m[1] = "beat" /\ m[3] = x)[2]

Unmerged == Text("top without the 32X")
Ends     == {Unmerged} \cup {EndMap(x) : x \in Telemetry \cup {"lb_q"}}
Height(end) == IF end = Unmerged THEN 0 ELSE IF end = EndMap("lb_q") THEN 1 ELSE 1 + BeatOf(end[2])

IsWire(mark, x) == mark[1] = "wire" /\ mark[2] = x

(* A wire gets another source.                                             *)
Rewired(p, x) == \E e \in ToSet(p.edits) : IsWire(e.at, x) /\ Takes(p, e.at)

(* The list is carried on from one end to the next.                        *)
Extends(p, from, to) ==
  /\ Takes(p, from) /\ Gained(p) \cap Ends = {to} /\ Once(p, to)
  /\ Height(from) < Height(to)
  /\ \A x \in Telemetry : (\E m \in Gained(p) : IsWire(m, x)) =>
       Rewired(p, x) \/ (Height(from) < Height(EndMap(x)) /\ Height(EndMap(x)) <= Height(to))

ASSUME TopAssumption ==
  /\ \A end \in Ends : Height(end) \in Nat
  /\ \A m \in DOMAIN Base[Top] : m[1] # "wire"
  /\ \A m, n \in DOMAIN Base[Top] \cap Ends : m = n
  /\ \A p \in PartsOf(Top) :
       /\ \A x \in Telemetry : \A m, n \in Gained(p) : IsWire(m, x) /\ IsWire(n, x) => m = n /\ Once(p, m)
       /\ \/ /\ Gained(p) \cap Ends = {}
             /\ \A x \in Telemetry : (\E m \in Gained(p) : IsWire(m, x)) => Rewired(p, x)
          \/ \E from, to \in Ends : Extends(p, from, to)

-----------------------------------------------------------------------------
(* The telemetry in s32x_ddr.sv: from k beats to n.                        *)
Silent == Text("S_IDLE")
Tagged(p, tag) == {m \in Gained(p) : m[1] = tag}
Anchors(p, tag) == {m \in {e.at : e \in ToSet(p.edits)} : m[1] = tag}
ArmsOf(n) == {Arm(n - b, b) : b \in 0..(n - 1)}

(* One edit puts the new width in, where there was one in its place.       *)
Widens(p, k, n) ==
  \E i \in DOMAIN p.edits :
    /\ \A j \in DOMAIN p.edits :
         (p.edits[j].at[1] = "pend" \/ \E m \in p.edits[j].new : m[1] = "pend") => j = i
    /\ k > 0 => p.edits[i].at[1] = "pend"
    /\ \E m \in p.edits[i].new : /\ {x \in p.edits[i].new : x[1] = "pend"} = {m}
                                /\ n < 2 ^ m[3]

Grows(p, k, n) ==
  /\ k \in Nat /\ n \in Nat /\ k < n
  /\ Takes(p, IF k = 0 THEN Silent ELSE Load(k))
  /\ Anchors(p, "load") \subseteq {Load(k)} /\ Tagged(p, "load") = {Load(n)}
  /\ Anchors(p, "arm") \subseteq ArmsOf(k) /\ Tagged(p, "arm") = ArmsOf(n)
  /\ \A m \in ArmsOf(k) : Takes(p, m)
  /\ \A m \in ArmsOf(n) \cup {Load(n)} : Once(p, m)
  /\ Widens(p, k, n)
  /\ \A m \in Tagged(p, "beat") : m[2] \in 0..(n - 1) /\ (m[2] > 0 => Port(m[3]) \in Gained(p))

ASSUME DdrAssumption ==
  /\ \A m \in DOMAIN Base[Ddr] : m[1] \notin {"load", "arm", "pend", "beat", "port"}
  /\ \A p \in PartsOf(Ddr) :
       /\ Silent \notin Gained(p)
       /\ \E k, n \in {0} \cup NamesOf("load", Ddr) : Grows(p, k, n)

-----------------------------------------------------------------------------
(* A script of the chain ends with s32x_ddr.sv, where it carries the port   *)
(* list on from where the script before it left off.                        *)
LastPart(s) == Script[s].parts[Len(Script[s].parts)]
LinkOf(s)   == CHOOSE m \in Gained(LastPart(s)) : m[1] = "last"

ASSUME ChainAssumption ==
  \A i \in 1..Len(Chain) :
    /\ Chain[i] \in Names /\ LastPart(Chain[i]).file = Ddr
    /\ LinkOf(Chain[i]) \notin DOMAIN Base[Ddr]
    /\ \A s \in Names : \A j \in DOMAIN Script[s].parts :
         Script[s].parts[j].file = Ddr /\ LinkOf(Chain[i]) \in Gained(Script[s].parts[j])
           => s = Chain[i] /\ j = Len(Script[s].parts)
    /\ i > 1 => Takes(LastPart(Chain[i]), LinkOf(Chain[i - 1]))
=============================================================================
