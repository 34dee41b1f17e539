---------------------------- MODULE MCExportPush ---------------------------
(* Instances of ExportPush for TLC: a Jira project with all the issue types,  *)
(* and one with neither features nor sub-tasks.                             *)
EXTENDS ExportPush, TLC

AllTypesOrFew == {Type, {"epic", "story", "task", "bug"}}
=============================================================================
