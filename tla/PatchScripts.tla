----------------------------- MODULE PatchScripts -----------------------------
(* The fourteen scripts that patch the pinned calculation engine, in the order *)
(* the installer runs them.                                                    *)
(*                                                                             *)
(* A source file is the sequence of the places the scripts anchor in and of    *)
(* the texts they add: an edit replaces one anchor. The Lua they add is left   *)
(* out, save where a later script anchors in it or the check of a script looks *)
(* for it. A section (from one anchor to another) is one place. The lines that *)
(* scripts drop from ModCache.lua are one place per script.                    *)
EXTENDS Naturals, FiniteSets, SequencesExt

(* The guard of an edit: "strict" refuses unless the anchor occurs once and the *)
(* new text does not; "once" looks at the anchor only; "some" refuses when the  *)
(* anchor is nowhere; "lenient" passes over an edit whose new text is there;    *)
(* "block" passes over it when the added text is there, with its anchor or      *)
(* without; "any" never refuses.                                                *)

Edit(file, old, added, new) ==
    [file |-> file, old |-> old, added |-> added, new |-> new, guard |-> "script"]
Before(file, anchor, texts) == Edit(file, anchor, texts, texts \o <<anchor>>)
After(file, anchor, texts)  == Edit(file, anchor, texts, <<anchor>> \o texts)
Swap(file, anchor, texts)   == Edit(file, anchor, texts, texts)
Drop(anchor)                == Edit("ModCache", anchor, << >>, << >>)

\* A script has one guard, and some of its edits another.
Under(guard, edit) == [edit EXCEPT !.guard = guard]
Script(name, guard, whole, edits) == [name |-> name, guard |-> guard, whole |-> whole, edits |-> edits]

-------------------------------------------------------------------------------

Importer == Script("importer", "once", FALSE, <<Swap("ImportTab", "mutated", <<"desecrated">>)>>)

DeflectionParser == Script("deflection", "strict", FALSE, <<
    Before("ModParser", "devotion", <<"per missing energy shield">>)>>)
DeflectionDefence == Script("deflection", "strict", TRUE, <<
    Before("CalcDefence", "armour", <<"missing energy shield">>),
    Swap("CalcDefence", "deflection rating", <<"deflection of both">>)>>)

WeaponContext == Script("weapon_context", "strict", TRUE, <<
    After("SkillsTab", "group slot", <<"weapon selectors">>),
    Before("CalcSetup", "temp table", <<"is active skill">>)>>)

Stonefist == Script("stonefist", "strict", FALSE, <<
    After("ModParser", "ignore requirements", <<"gloves">>),
    Before("CalcSetup", "item requirements", <<"ignore gloves">>),
    Swap("CalcSetup", "str", <<"str unless gloves">>),
    Swap("CalcSetup", "dex", <<"dex unless gloves">>),
    Swap("CalcSetup", "int", <<"int unless gloves">>),
    Before("CalcPerform", "requirements on", <<"glove exemption">>),
    Before("SkillStatMap", "one more charge", <<"charge skip">>),
    Under("some", Drop("stonefist parses"))>>)
ChargeScenarios == Script("stonefist", "strict", FALSE, <<
    Before("SkillStatMap", "one more charge", <<"charge events">>),
    Swap("act_int", "flicker lockout", <<"power charge lockout">>),
    Before("ModParser", "four second recoup", <<"recoup speed">>),
    Before("CalcDefence", "calc recoup", <<"recoup duration">>),
    Swap("CalcDefence", "recoup time", <<"recoup duration used">>),
    Swap("CalcDefence", "recoup breakdown", <<"recoup duration shown">>),
    Under("any", Drop("recoup parses"))>>)
MountainTeachings == Script("stonefist", "strict", FALSE, <<
    After("ModParser", "ignore requirements", <<"mountain">>),
    Before("ConfigOptions", "skill options", <<"mountain stacks">>),
    Before("CalcOffence", "offence", <<"mountain attacks">>),
    After("CalcOffence", "skill cfg", <<"mountain condition">>),
    Under("any", Drop("mountain parses"))>>)

Companions == Script("companions", "lenient", FALSE, <<
    Under("any", Drop("companion parses")),
    Under("block", Before("ModParser", "offering skills", <<"offerings">>)),
    Under("block", Before("ModParser", "gain dexterity", <<"companion limits", "random spirits", "gold">>)),
    Under("block", Before("Spectres", "return minions", <<"unique beasts">>)),
    Before("CalcPerform", "finalises", <<"grant mirror">>),
    Before("CalcPerform", "base life", <<"unique condition">>),
    Under("block", Before("CalcPerform", "spectre life", <<"offering life">>)),
    Swap("CalcPerform", "minion seen", <<"active minion seen">>),
    Before("SkillStatMap", "hyena cackle", <<"wolf pack">>),
    Swap("CalcPerform", "total life", <<"pack life">>)>>)
CompanionStates == Script("companions", "lenient", FALSE, <<
    Before("Data", "missing minion skills", <<"beast mods", "normalise beast line">>),
    Swap("SkillsTab", "child loop", <<"beast mod child">>),
    Before("SkillsTab", "gem info", <<"beast mod saved">>),
    Before("ImportTab", "import items", <<"beast properties">>),
    Before("ImportTab", "gem name", <<"beast mods imported">>),
    Before("CalcPerform", "init minion", <<"beast state", "incomplete">>),
    Before("CalcPerform", "talisman", <<"captured state">>),
    Before("ConfigOptions", "pride", <<"natural order">>),
    Before("SkillStatMap", "hyena cackle", <<"loyalty">>),
    Before("SkillStatMap", "hyena cackle", <<"tame limit">>),
    After("CalcOffence", "average damage", <<"armour break hit">>),
    After("CalcOffence", "average dps", <<"armour break dps">>),
    After("CalcOffence", "combined dps", <<"armour break">>)>>)

SpiritVessel == Script("spirit_vessel", "lenient", FALSE, <<
    After("other", "vessel label", <<"vessel stats">>),
    Before("CalcActiveSkill", "modifier list", <<"vessel skills">>),
    Swap("CalcActiveSkill", "spectre list", <<"vessel level">>),
    After("CalcActiveSkill", "minion skills", <<"vessel copies">>),
    Swap("CalcPerform", "companion type", <<"vessel type">>),
    Before("CalcPerform", "spectre life", <<"vessel life">>),
    Before("CalcPerform", "companion life", <<"vessel pool">>)>>)

SkillCoverage == Script("skill_coverage", "strict", TRUE, <<
    After("sup_int", "verglas", <<"crystal stats">>),
    Before("CalcSetup", "virtuous mote", <<"crystal source">>),
    After("Calcs", "surface", <<"crystal life">>),
    Before("ConfigOptions", "killed poisoned", <<"crystal options">>)>>)

GrantedSkills == Script("granted_skills", "once", FALSE, <<
    Before("CalcSetup", "normalized level", <<"granted level">>),
    After("CalcSetup", "granted loop", <<"tree level">>),
    Swap("CalcSetup", "same level", <<"same source">>),
    After("CalcSetup", "from item", <<"from node">>),
    Swap("CalcSetup", "wipe gems", <<"keep supports">>),
    After("CalcSetup", "slot enabled", <<"group level">>)>>)

\* Six options share one stable insertion anchor, so a later one separates an
\* earlier one from it.
MartialMechanics == Script("martial_mechanics", "lenient", FALSE, <<
    After("act_int", "ghost dance", <<"ghost shroud">>),
    After("act_int", "bell 0", <<"bell stats 0">>),
    After("act_int", "bell 1", <<"bell stats 1">>),
    After("act_int", "bell 2", <<"bell stats 2">>),
    Before("act_dex", "wind dancer", <<"wind dancer stages">>),
    After("other", "bells", <<"combo">>),
    After("other", "shockwave", <<"shockwave stats">>),
    After("other", "hollow form", <<"hollow stats">>),
    After("other", "refutation", <<"refutation stats">>),
    After("CalcPerform", "active mods", <<"bell hits">>),
    After("CalcDefence", "base regeneration", <<"shroud regeneration">>),
    Before("CalcDefence", "cannot block", <<"automatic block">>),
    After("CalcDefence", "stun threshold", <<"ward threshold">>),
    Under("block", Before("ConfigOptions", "ghost shrouds", <<"fire ailment">>)),
    Under("block", Before("ConfigOptions", "ghost shrouds", <<"cold ailment">>)),
    Under("block", Before("ConfigOptions", "ghost shrouds", <<"lightning ailment">>)),
    Under("block", Before("ConfigOptions", "ghost shrouds", <<"prior hits", "knockback">>)),
    Under("block", Before("ConfigOptions", "ghost shrouds", <<"refutation active", "ward spent">>)),
    Under("block", Before("ConfigOptions", "ghost shrouds", <<"lost shroud">>))>>)

DamageParsers == <<
    Before("Misc", "minion scaling", <<"leech resistance">>),
    Swap("Data", "impale base", <<"impale constant">>),
    Swap("CalcSetup", "impale stacks", <<"impale maximum">>),
    After("CalcSetup", "main skill", <<"selected effect">>),
    Swap("ModParser", "life leeched", <<"life amount">>),
    Swap("ModParser", "mana leeched", <<"mana amount">>),
    After("ModParser", "impale effect", <<"impale magnitude">>),
    Before("ModParser", "spell crits impale", <<"crits impale">>),
    Before("ModParser", "leech slower", <<"leech rates">>),
    Before("ModParser", "full life leech", <<"excess recovery">>),
    After("SkillStatMap", "impale", <<"impale stats">>)>>
DamageOffence == <<
    Swap("CalcOffence", "leech instances", <<"one instance">>),
    After("CalcOffence", "mana leech total", <<"leech hit damage">>),
    Before("CalcOffence", "leech of type", <<"hit damage summed">>),
    Swap("CalcOffence", "life leech per use", <<"hit cap", "leech scale", "life per use">>),
    Swap("CalcOffence", "mana leech per use", <<"mana per use">>),
    Swap("CalcOffence", "leech caps", <<"leech amounts">>),
    Swap("CalcOffence", "life instances", <<"life of resource">>),
    Swap("CalcOffence", "mana instances", <<"mana of resource">>),
    Swap("CalcOffence", "shield instances", <<"shield of resource">>),
    Swap("CalcOffence", "life duration", <<"life averages">>),
    Swap("CalcOffence", "mana duration", <<"mana averages">>),
    Swap("CalcOffence", "shield duration", <<"shield averages">>),
    Swap("CalcOffence", "mana recovers shield", <<"copied later">>),
    Swap("CalcOffence", "leech rates", <<"resource rates">>),
    Swap("CalcOffence", "leech breakdown", <<"leech shown">>),
    Before("CalcOffence", "hit stored", <<"impale extracted">>),
    Swap("CalcOffence", "impale chance", <<"impale chances">>),
    Swap("CalcOffence", "impale modifiers", <<"impale stored">>),
    After("CalcOffence", "stored damage", <<"impale combined">>),
    After("Calcs", "surface", <<"impale key">>)>>
DamageRules == Script("damage_rules", "strict", TRUE,
    DamageParsers \o <<Under("any", Drop("leech parses"))>> \o DamageOffence)

\* It anchors in what damage_rules adds.
LeechOffence == Script("leech_distribution", "once", TRUE, <<
    After("CalcOffence", "leech hit damage", <<"leech types">>),
    Before("CalcOffence", "lucky average", <<"endpoint average">>),
    Before("CalcOffence", "life leech", <<"leech type">>),
    Swap("CalcOffence", "leech scale", <<"distribution">>)>>)
LeechRest == Script("leech_distribution", "once", FALSE, <<
    Before("ModParser", "no physical", <<"endpoint damage">>),
    After("SkillStatMap", "impale", <<"endpoint stats">>),
    Under("any", Drop("endpoint parses"))>>)

UpstreamFixes == Script("upstream_fixes", "strict", TRUE, <<
    Swap("ModParser", "enemies you", <<"canonical conditions">>),
    Swap("Item", "sockets", <<"sockets once">>),
    Before("Data", "jewel radius", <<"expanded radii">>),
    Before("ModParser", "primordial", <<"jewel radius parse">>),
    After("CalcSetup", "gem quality", <<"radius increased">>),
    After("CalcSetup", "jewel has radius", <<"radius index">>),
    Swap("CalcSetup", "radius nodes", <<"index nodes">>),
    Swap("CalcSetup", "radius attributes", <<"index attributes">>),
    Swap("CalcSetup", "radius loop", <<"index loop">>),
    Under("some", Drop("condition parses"))>>)

HitBuffs == Script("hit_buffs", "lenient", FALSE, <<
    After("SkillStatMap", "return", <<"acquisition stats">>),
    Before("CalcPerform", "finalises", <<"hit buffs">>),
    Before("CalcPerform", "misc buffs", <<"hit buffs applied">>),
    Before("ModParser", "onslaught", <<"onslaught sources">>),
    Under("any", Drop("onslaught parses")),
    Before("ConfigOptions", "buff onslaught", <<"hit buff options">>),
    Under("any", Swap("ConfigOptions", "onslaught label", <<"onslaught speeds">>)),
    Before("CalcOffence", "scaled effect", <<"hit chances">>),
    Before("CalcOffence", "shock chance", <<"hit chances combined">>)>>)

\* It anchors in what companions adds.
CurseMechanics == Script("curse_mechanics", "lenient", FALSE, <<
    Before("CalcSetup", "jewel limits", <<"equipped charms">>),
    Swap("CalcSetup", "charm slot", <<"charm noted">>),
    Before("SkillStatMap", "effect duration", <<"curse stats">>),
    Before("CalcPerform", "perform", <<"possession">>),
    Before("CalcPerform", "attributes", <<"possession applied">>),
    Swap("CalcPerform", "hexproof", <<"target level">>),
    After("CalcPerform", "curse priority", <<"source instance">>),
    Swap("CalcPerform", "aura effect", <<"curse aura effect">>),
    Under("block", Before("ModParser", "random spirits", <<"rite possession">>)),
    Under("any", Drop("possession parses"))>>)

\* It anchors in what companion_states adds.
BeastAuras == Script("beast_auras", "lenient", FALSE, <<
    Before("Data", "normalise beast line", <<"aura data">>),
    Before("CalcPerform", "init minion", <<"aura group">>),
    After("CalcPerform", "incomplete", <<"aura missing">>),
    Before("CalcPerform", "apply buffs", <<"ally auras">>),
    Before("CalcOffence", "freeze chance", <<"chill">>),
    After("CalcOffence", "chill effect", <<"chill combined">>)>>)

Scripts ==
    <<Importer, DeflectionParser, DeflectionDefence, WeaponContext, Stonefist, ChargeScenarios,
      MountainTeachings, Companions, CompanionStates, SpiritVessel, SkillCoverage, GrantedSkills,
      MartialMechanics, DamageRules, LeechOffence, LeechRest, UpstreamFixes, HitBuffs,
      CurseMechanics, BeastAuras>>

\* The scripts that take a destination on their command line.
Runnable == {"weapon_context", "stonefist", "skill_coverage", "martial_mechanics", "damage_rules",
             "leech_distribution", "upstream_fixes", "curse_mechanics"}

\* The reviewed sources: every place that an edit anchors in and none adds.
Edits == UNION {Range(Scripts[i].edits) : i \in DOMAIN Scripts}
Reviewed(file) ==
    LET made == {e \in Edits : e.file = file}
    IN  FoldSet(LAMBDA anchor, text : Append(text, anchor), << >>,
                {e.old : e \in made} \ UNION {Range(e.added) : e \in made})
Sources == [file \in {e.file : e \in Edits} |-> Reviewed(file)]

===============================================================================
