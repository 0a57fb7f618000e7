--------------------------- MODULE MCTranslations ---------------------------
(* Constants for model checking Translations. *)
EXTENDS Translations

CONSTANTS en, de, ch, zh

Tag(primary, region) == [primary |-> primary, region |-> region]
MCBrowsers == {<<Tag(de, ch)>>, <<Tag(zh, zh), Tag(de, de), Tag(en, en)>>}

Option(n, unit, seconds) == [text |-> [n |-> n, unit |-> unit], seconds |-> seconds]

(* Of defaultExpiryTimes (config.go). *)
BuiltIn == {Option(0, "never", 0), Option(1, "month", 2592000), Option(1, "year", 31536000)}

SomeOutages == {{}, {de}, Langs}
=============================================================================
