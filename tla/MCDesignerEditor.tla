-------------------------- MODULE MCDesignerEditor --------------------------
EXTENDS DesignerEditor
===========================================================================
