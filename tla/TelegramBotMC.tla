--------------------------- MODULE TelegramBotMC ---------------------------
(* TelegramBot on a small instance. *)
EXTENDS TelegramBot

CONSTANTS botA, botB
=============================================================================
