------------------------------- MODULE MCUsage -------------------------------
EXTENDS UsageMeter

CONSTANTS sent, checked, installed
===============================================================================
